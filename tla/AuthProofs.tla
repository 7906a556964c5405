----------------------------- MODULE AuthProofs -----------------------------
(***************************************************************************)
(* Proofs about Auth and Metrics: for any number of threads, connections,  *)
(* accounts and tokens, and any lifetimes; and for any labels.             *)
(*                                                                         *)
(* TokenGrace rests on CacheInv: an entry of the token cache never reaches *)
(* further than CacheTtl after the end of its token.  It is kept because a *)
(* token is verified against the only transaction there is (nothing is     *)
(* ever committed, so a row is found on the writer's connection alone),    *)
(* with a clock that was read before.                                      *)
(***************************************************************************)
EXTENDS Auth, Metrics, TLAPS

-----------------------------------------------------------------------------
(* Auth: the inductive invariant *)

Mails   == Emails \union {""}
Session == [user : Nat, expires : Nat, state : {"live", "revoked", "deleted"}]
Token   == [user : Nat, revoked : Nat, expires : Nat]
Rows    == [users : Seq(Mails), sessions : Seq(Session), tokens : Seq(Token)]

Pcs == {"idle", "count", "create", "find", "create_session", "revoke_session", "session",
        "user", "clock", "cache", "token", "handler", "busy"}
Ops == Endpoints \union {"none", "register", "login", "logout"}
Req == [pc : Pcs, op : Ops, email : Mails, cookie : Nat, bearer : 0 .. MaxRows, target : Nat,
        user : Nat, clock : Nat]

AuthTypeOK ==
    /\ now \in Nat /\ now > 0
    /\ head \in 0 .. PoolSize - 1 /\ writer \in 0 .. PoolSize
    /\ db \in Rows /\ open \in Rows
    /\ cache \in [1 .. MaxRows -> Nat]
    /\ lock \in Slots \union {NoSlot}
    /\ req \in [Slots -> Req]

\* No transaction is ever committed.
NeverCommitted == db = Empty /\ (writer = NoConn => open = Empty)

\* A request on its way to the token's row carries a token, and a clock that has
\* gone on since.
CallInv(r) ==
    /\ r.pc \in {"clock", "cache", "token"} => r.bearer # 0
    /\ r.pc \in {"cache", "token"} => r.clock <= now

\* "until" is at most CacheTtl after the token's end.
Within(t, until) ==
    /\ t.revoked = 0 \/ until <= t.revoked + CacheTtl
    /\ t.expires = 0 \/ until <= t.expires + CacheTtl

CacheInv == \A k \in 1 .. MaxRows : cache[k] # 0 =>
    /\ k \in 1 .. Len(open.tokens)
    /\ cache[k] <= now + CacheTtl
    /\ Within(open.tokens[k], cache[k])

AuthInv ==
    /\ AuthTypeOK /\ NeverCommitted /\ CacheInv
    /\ \A s \in Slots : CallInv(req[s])

\* What TokenGrace says of one slot's admission.
Grace(s) ==
    LET t == open.tokens[req[s].bearer]
    IN  /\ t.revoked = 0 \/ req[s].clock < t.revoked + CacheTtl
        /\ t.expires = 0 \/ req[s].clock < t.expires + CacheTtl

-----------------------------------------------------------------------------
(* Auth: the store *)

\* Rows of tokens are added at the end, and an old one is at most revoked now.
Later(old, new) ==
    /\ Len(old) <= Len(new)
    /\ \A k \in 1 .. Len(old) :
         /\ new[k].expires = old[k].expires
         /\ new[k].revoked = old[k].revoked \/ (old[k].revoked = 0 /\ new[k].revoked = now)

\* What a call leaves of the connections and their data.
Stored ==
    /\ head' \in 0 .. PoolSize - 1 /\ writer' \in 0 .. PoolSize
    /\ db' = db /\ open' \in Rows
    /\ writer' = NoConn => open' = Empty
    /\ Later(open.tokens, open'.tokens)

LEMMA EmptyRows == Empty \in Rows /\ Empty.tokens = <<>> /\ Empty.users = <<>> /\ Empty.sessions = <<>>
BY DEF Empty, Rows

LEMMA NextHead == ASSUME AuthTypeOK PROVE (head + 1) % PoolSize \in 0 .. PoolSize - 1
<1>1. head + 1 \in Nat /\ PoolSize \in Nat /\ PoolSize > 0
  BY AuthAssumption DEF AuthTypeOK
<1>2. ASSUME NEW a \in Nat, NEW m \in Nat, m > 0 PROVE a % m \in 0 .. m - 1
  BY <1>2
<1> QED
  BY <1>1, <1>2

\* A row is found on the writer's connection or not at all, and who may write reads
\* what was written.
LEMMA ViewProperties ==
    ASSUME AuthInv
    PROVE  /\ View \in Rows /\ (View = open \/ View = Empty)
           /\ CanWrite => View = open
<1>1. open \in Rows /\ db = Empty /\ (writer = NoConn => open = Empty)
  BY DEF AuthInv, AuthTypeOK, NeverCommitted
<1>2. View = open \/ View = Empty
  BY <1>1 DEF View
<1>3. CanWrite => View = open
  BY <1>1 DEF CanWrite, View
<1> QED
  BY <1>1, <1>2, <1>3, EmptyRows

LEMMA LaterSame == ASSUME NEW tk \in Seq(Token) PROVE Later(tk, tk)
BY DEF Later

LEMMA ReadsStored == ASSUME AuthInv, Reads PROVE Stored
<1>1. head' \in 0 .. PoolSize - 1
  BY NextHead DEF AuthInv, Reads
<1>2. open \in Rows /\ open.tokens \in Seq(Token) /\ writer \in 0 .. PoolSize
  BY DEF AuthInv, AuthTypeOK, Rows
<1>3. Later(open.tokens, open.tokens)
  BY <1>2, LaterSame
<1> QED
  BY <1>1, <1>2, <1>3 DEF AuthInv, NeverCommitted, Reads, Stored

LEMMA WritesStored ==
    ASSUME AuthInv, NEW rows \in Rows, Writes(rows), Later(open.tokens, rows.tokens)
    PROVE  Stored
<1>1. head' \in 0 .. PoolSize - 1
  BY NextHead DEF AuthInv, Writes
<1>2. head \in 0 .. PoolSize - 1 /\ PoolSize \in Nat
  BY AuthAssumption DEF AuthInv, AuthTypeOK
<1>3. writer' \in 0 .. PoolSize /\ writer' # NoConn
  BY <1>2 DEF Writes, NoConn
<1> QED
  BY <1>1, <1>3 DEF Writes, Stored

LEMMA UntouchedStored ==
    ASSUME AuthInv, UNCHANGED <<head, writer, db, open>>
    PROVE  Stored
<1>1. open.tokens \in Seq(Token)
  BY DEF AuthInv, AuthTypeOK, Rows
<1> QED
  BY <1>1, LaterSame DEF AuthInv, AuthTypeOK, NeverCommitted, Stored

\* The cache stays right when rows are added or revoked, and when an entry goes.
LEMMA CacheLater ==
    ASSUME AuthInv, UNCHANGED now, Later(open.tokens, open'.tokens), open' \in Rows,
           cache' \in [1 .. MaxRows -> Nat],
           \A k \in 1 .. MaxRows : cache'[k] = cache[k] \/ cache'[k] = 0
    PROVE  CacheInv'
<1> SUFFICES ASSUME NEW k \in 1 .. MaxRows, cache'[k] # 0
             PROVE  /\ k \in 1 .. Len(open'.tokens)
                    /\ cache'[k] <= now' + CacheTtl
                    /\ Within(open'.tokens[k], cache'[k])
  BY DEF CacheInv, Within
<1>1. cache'[k] = cache[k] /\ cache[k] \in Nat /\ now \in Nat /\ CacheTtl \in Nat
  BY AuthAssumption DEF AuthInv, AuthTypeOK
<1>2. /\ k \in 1 .. Len(open.tokens) /\ cache[k] <= now + CacheTtl
      /\ Within(open.tokens[k], cache[k])
  BY <1>1 DEF AuthInv, CacheInv
<1>3. open.tokens \in Seq(Token) /\ open'.tokens \in Seq(Token)
  BY DEF AuthInv, AuthTypeOK, Rows
<1>4. k \in 1 .. Len(open'.tokens)
  BY <1>2, <1>3 DEF Later
<1>5. /\ open'.tokens[k].expires = open.tokens[k].expires
      /\ \/ open'.tokens[k].revoked = open.tokens[k].revoked
         \/ open'.tokens[k].revoked = now
  BY <1>2 DEF Later
<1>6. Within(open'.tokens[k], cache'[k])
  BY <1>1, <1>2, <1>5 DEF Within
<1> QED
  BY <1>1, <1>2, <1>4, <1>6

-----------------------------------------------------------------------------
(* Auth: the requests *)

\* Slot s moves on to r, and an admission is one TokenGrace allows.
Moves(s, r) ==
    /\ r \in Req /\ CallInv(r)
    /\ req' = [req EXCEPT ![s] = r]
    /\ req[s].pc \in {"cache", "token"} /\ r.pc = "handler" => Grace(s)

LEMMA NoReqType == NoReq \in Req /\ NoReq.pc = "idle"
<1>1. 0 \in 0 .. MaxRows
  BY AuthAssumption
<1> QED
  BY <1>1 DEF NoReq, Req, Pcs, Ops, Mails

LEMMA EndsMoves == ASSUME NEW s \in Slots, Ends(s) PROVE \E r \in Req : Moves(s, r)
BY NoReqType DEF Ends, Moves, CallInv

\* get_principal's third branch starts over with the bearer token.
LEMMA BearerMoves ==
    ASSUME AuthInv, NEW s \in Slots, TriesBearer(s), req[s].pc \notin {"cache", "token"}
    PROVE  \E r \in Req : Moves(s, r)
<1>1. req \in [Slots -> Req] /\ req[s] \in Req
  BY DEF AuthInv, AuthTypeOK
<1>2. CASE req[s].bearer # 0
  <2> DEFINE r == [req[s] EXCEPT !.pc = "clock", !.cookie = 0, !.user = 0]
  <2>1. r \in Req /\ r.pc = "clock" /\ r.bearer = req[s].bearer
    BY <1>1 DEF Req, Pcs
  <2>2. req' = [req EXCEPT ![s] = r]
    BY <1>1, <1>2 DEF TriesBearer
  <2> HIDE DEF r
  <2> QED
    BY <1>2, <2>1, <2>2 DEF Moves, CallInv
<1>3. CASE req[s].bearer = 0
  BY <1>3, EndsMoves DEF TriesBearer, Unidentified
<1> QED
  BY <1>2, <1>3

\* An account is admitted.
LEMMA AdmitsMoves ==
    ASSUME AuthInv, NEW s \in Slots, NEW user \in Nat, Admits(s, user),
           req[s].pc \in {"cache", "token"} => Grace(s)
    PROVE  \E r \in Req : Moves(s, r)
<1> DEFINE r == [req[s] EXCEPT !.pc = "handler", !.user = user, !.cookie = 0, !.bearer = 0,
                               !.clock = 0]
<1>1. req \in [Slots -> Req] /\ req[s] \in Req /\ 0 \in 0 .. MaxRows
  BY AuthAssumption DEF AuthInv, AuthTypeOK
<1>2. r \in Req /\ r.pc = "handler"
  BY <1>1 DEF Req, Pcs
<1>3. req' = [req EXCEPT ![s] = r]
  BY <1>1 DEF Admits
<1> HIDE DEF r
<1> QED
  BY <1>2, <1>3 DEF Moves, CallInv

\* A new request.
LEMMA StartMoves ==
    ASSUME AuthInv, NEW s \in Slots, Start(s)
    PROVE  \E r \in Req : Moves(s, r)
<1>1. req[s].pc = "idle"
  BY DEF Start
<1>2. 0 \in 0 .. MaxRows /\ \A n \in 0 .. MaxRows : n \in Nat
  BY AuthAssumption
<1>3. SUFFICES ASSUME NEW r \in Req, Begin(s, r), r.pc \notin {"cache", "token", "handler"},
                      r.pc = "clock" => r.bearer # 0
               PROVE  Moves(s, r)
  <2>1. ASSUME NEW op \in {"register", "login"}, NEW e \in Emails,
               Begin(s, [NoReq EXCEPT !.pc = FirstCall(op, 0), !.op = op, !.email = e])
        PROVE  \E r \in Req : Moves(s, r)
    <3> DEFINE p == FirstCall(op, 0)
               r == [NoReq EXCEPT !.pc = p, !.op = op, !.email = e]
    <3>1. p \in {"count", "find"}
      BY DEF FirstCall
    <3> HIDE DEF p
    <3>2. r \in Req /\ r.pc = p
      BY <3>1, NoReqType DEF Req, Pcs, Ops, Mails
    <3>3. Begin(s, r)
      BY <2>1 DEF p
    <3> HIDE DEF r
    <3> QED
      BY <1>3, <3>1, <3>2, <3>3
  <2>2. ASSUME NEW c \in 1 .. MaxRows,
               Begin(s, [NoReq EXCEPT !.pc = FirstCall("logout", c), !.op = "logout", !.cookie = c])
        PROVE  \E r \in Req : Moves(s, r)
    <3> DEFINE r == [NoReq EXCEPT !.pc = "revoke_session", !.op = "logout", !.cookie = c]
    <3>1. FirstCall("logout", c) = "revoke_session"
      BY DEF FirstCall
    <3>2. r \in Req /\ r.pc = "revoke_session"
      <4>1. c \in Nat
        OBVIOUS
      <4> QED
        BY <4>1, NoReqType DEF Req, Pcs, Ops
    <3>3. Begin(s, r)
      BY <2>2, <3>1
    <3> HIDE DEF r
    <3> QED
      BY <1>3, <3>2, <3>3
  <2>3. ASSUME NEW op \in Endpoints, NEW c \in 0 .. MaxRows, NEW b \in 0 .. MaxRows,
               NEW t \in 0 .. MaxRows, c # 0 \/ b # 0,
               Begin(s, [NoReq EXCEPT !.pc = FirstCall(op, c), !.op = op,
                           !.cookie = c, !.bearer = b, !.target = t])
        PROVE  \E r \in Req : Moves(s, r)
    <3> DEFINE p == FirstCall(op, c)
               r == [NoReq EXCEPT !.pc = p, !.op = op, !.cookie = c, !.bearer = b, !.target = t]
    <3>1. p \in {"session", "clock"} /\ (p = "clock" => b # 0)
      BY <2>3 DEF FirstCall, Endpoints
    <3> HIDE DEF p
    <3>2. r \in Req /\ r.pc = p /\ r.bearer = b
      <4>1. c \in Nat /\ t \in Nat /\ op \in Ops /\ p \in Pcs
        BY <1>2, <3>1 DEF Ops, Pcs
      <4> QED
        BY <4>1, NoReqType DEF Req
    <3>3. Begin(s, r)
      BY <2>3 DEF p
    <3> HIDE DEF r
    <3> QED
      BY <1>3, <3>1, <3>2, <3>3
  <2> QED
    BY <2>1, <2>2, <2>3 DEF Start
<1> QED
  BY <1>1, <1>3 DEF Begin, Moves, CallInv

-----------------------------------------------------------------------------
(* Auth: every call of the store *)

StepOK(s) ==
    /\ \E r \in Req : Moves(s, r)
    /\ Stored
    /\ cache' \in [1 .. MaxRows -> Nat] /\ CacheInv'
    /\ lock' \in Slots \union {NoSlot}

\* A call that leaves the cache alone.
LEMMA PlainStep ==
    ASSUME AuthInv, UNCHANGED now, NEW s \in Slots, \E r \in Req : Moves(s, r), Stored,
           cache' = cache, lock' \in Slots \union {NoSlot}
    PROVE  StepOK(s)
<1>1. cache' \in [1 .. MaxRows -> Nat] /\ Later(open.tokens, open'.tokens) /\ open' \in Rows
  BY DEF AuthInv, AuthTypeOK, Stored
<1>2. CacheInv'
  BY <1>1, CacheLater
<1> QED
  BY <1>1, <1>2 DEF StepOK

\* The slot moves to another call, with what that call needs.
LEMMA GotoMoves ==
    ASSUME AuthInv, NEW s \in Slots, NEW pc \in Pcs, Goto(s, pc), pc \notin {"clock", "handler"},
           pc \in {"cache", "token"} => req[s].pc \in {"cache", "token"}
    PROVE  \E r \in Req : Moves(s, r)
<1> DEFINE r == [req[s] EXCEPT !.pc = pc]
<1>1. req \in [Slots -> Req] /\ req[s] \in Req /\ CallInv(req[s])
  BY DEF AuthInv, AuthTypeOK
<1>2. r \in Req /\ r.pc = pc /\ r.bearer = req[s].bearer /\ r.clock = req[s].clock
  BY <1>1 DEF Req
<1>3. req' = [req EXCEPT ![s] = r]
  BY <1>1 DEF Goto
<1> HIDE DEF r
<1>4. CallInv(r)
  BY <1>1, <1>2 DEF CallInv
<1> QED
  BY <1>2, <1>3, <1>4 DEF Moves

LEMMA LockKept == ASSUME AuthInv, UNCHANGED lock PROVE lock' \in Slots \union {NoSlot}
BY DEF AuthInv, AuthTypeOK

\* Rows whose tokens are the view's.
LEMMA SameTokens ==
    ASSUME AuthInv, NEW rows \in Rows, Writes(rows), rows.tokens = View.tokens
    PROVE  Stored
<1>1. View = open
  BY ViewProperties DEF Writes
<1>2. open.tokens \in Seq(Token)
  BY DEF AuthInv, AuthTypeOK, Rows
<1> QED
  BY <1>1, <1>2, LaterSame, WritesStored

LEMMA AccountSteps ==
    ASSUME AuthInv, UNCHANGED now, NEW s \in Slots, Count(s) \/ CreateUser(s) \/ FindUser(s)
    PROVE  StepOK(s)
<1>1. cache' = cache /\ lock' \in Slots \union {NoSlot}
  BY LockKept DEF Count, CreateUser, FindUser
<1>2. req \in [Slots -> Req] /\ req[s] \in Req /\ View \in Rows
  BY ViewProperties DEF AuthInv, AuthTypeOK
<1>3. CASE Count(s)
  <2>1. Ends(s) \/ Goto(s, "create")
    BY <1>3 DEF Count
  <2>2. \E r \in Req : Moves(s, r)
    BY <2>1, EndsMoves, GotoMoves DEF Pcs
  <2>3. Stored
    BY <1>3, ReadsStored DEF Count
  <2> QED
    BY <1>1, <2>2, <2>3, PlainStep
<1>4. CASE CreateUser(s)
  <2> DEFINE rows == IF Contains(View.users, req[s].email) THEN View
                     ELSE [View EXCEPT !.users = Append(@, req[s].email)]
  <2>1. Writes(rows) /\ Ends(s)
    BY <1>4 DEF CreateUser
  <2>2. rows \in Rows /\ rows.tokens = View.tokens
    <3>1. View.users \in Seq(Mails) /\ req[s].email \in Mails
      BY <1>2 DEF Rows, Req
    <3>2. Append(View.users, req[s].email) \in Seq(Mails)
      BY <3>1
    <3>3. /\ [View EXCEPT !.users = Append(@, req[s].email)] \in Rows
          /\ [View EXCEPT !.users = Append(@, req[s].email)].tokens = View.tokens
      BY <1>2, <3>2 DEF Rows
    <3> QED
      BY <1>2, <3>3
  <2> HIDE DEF rows
  <2>3. Stored
    BY <2>1, <2>2, SameTokens
  <2> QED
    BY <1>1, <2>1, <2>3, EndsMoves, PlainStep
<1>5. CASE FindUser(s)
  <2> DEFINE id == UserId(View.users, req[s].email)
  <2>1. Stored
    BY <1>5, ReadsStored DEF FindUser
  <2>2. CASE Ends(s)
    BY <1>1, <2>1, <2>2, EndsMoves, PlainStep
  <2>3. CASE /\ Contains(View.users, req[s].email)
             /\ req' = [req EXCEPT ![s].pc = "create_session", ![s].clock = now, ![s].user = id]
    <3>1. id \in Nat
      <4>1. \E i \in 1 .. Len(View.users) : View.users[i] = req[s].email
        BY <2>3 DEF Contains
      <4>2. id \in 1 .. Len(View.users)
        BY <4>1 DEF UserId
      <4>3. Len(View.users) \in Nat
        BY <1>2 DEF Rows
      <4> QED
        BY <4>2, <4>3
    <3> HIDE DEF id
    <3> DEFINE r == [req[s] EXCEPT !.pc = "create_session", !.clock = now, !.user = id]
    <3>2. r \in Req /\ r.pc = "create_session"
      BY <1>2, <3>1 DEF Req, Pcs, AuthInv, AuthTypeOK
    <3>3. req' = [req EXCEPT ![s] = r]
      BY <1>2, <2>3
    <3> HIDE DEF r
    <3>4. Moves(s, r)
      BY <3>2, <3>3 DEF Moves, CallInv
    <3> QED
      BY <1>1, <2>1, <3>2, <3>4, PlainStep
  <2> QED
    BY <1>5, <2>2, <2>3 DEF FindUser
<1> QED
  BY <1>3, <1>4, <1>5

LEMMA SessionSteps ==
    ASSUME AuthInv, UNCHANGED now, NEW s \in Slots,
           CreateSession(s) \/ RevokeSession(s) \/ GetSession(s) \/ GetUser(s)
    PROVE  StepOK(s)
<1>1. cache' = cache /\ lock' \in Slots \union {NoSlot}
  BY LockKept DEF CreateSession, RevokeSession, GetSession, GetUser
<1>2. /\ req \in [Slots -> Req] /\ req[s] \in Req /\ View \in Rows /\ now \in Nat
      /\ View.sessions \in Seq(Session)
  BY ViewProperties DEF AuthInv, AuthTypeOK, Rows
<1>3. CASE CreateSession(s)
  <2> DEFINE row  == [user |-> req[s].user, expires |-> req[s].clock + SessionTtl, state |-> "live"]
             rows == [View EXCEPT !.sessions = Append(@, row)]
  <2>1. Writes(rows) /\ Ends(s)
    BY <1>3 DEF CreateSession
  <2>2. row \in Session
    BY <1>2, AuthAssumption DEF Session, Req
  <2> HIDE DEF row
  <2>3. Append(View.sessions, row) \in Seq(Session)
    BY <1>2, <2>2
  <2>4. rows \in Rows /\ rows.tokens = View.tokens
    BY <1>2, <2>3 DEF Rows
  <2> HIDE DEF rows
  <2> QED
    BY <1>1, <2>1, <2>4, SameTokens, EndsMoves, PlainStep
<1>4. CASE RevokeSession(s)
  <2> DEFINE F == [i \in DOMAIN View.sessions |->
                     IF i = req[s].cookie /\ View.sessions[i].state = "live"
                       THEN [View.sessions[i] EXCEPT !.state = "revoked"] ELSE View.sessions[i]]
             rows == [View EXCEPT !.sessions = F]
  <2>1. Writes(rows) /\ Ends(s)
    BY <1>4 DEF RevokeSession
  <2>2. F \in Seq(Session)
    <3>1. DOMAIN View.sessions = 1 .. Len(View.sessions) /\ Len(View.sessions) \in Nat
      BY <1>2
    <3>2. ASSUME NEW i \in DOMAIN View.sessions PROVE F[i] \in Session
      <4>1. View.sessions[i] \in Session
        BY <1>2
      <4>2. [View.sessions[i] EXCEPT !.state = "revoked"] \in Session
        BY <4>1 DEF Session
      <4> QED
        BY <4>1, <4>2
    <3>3. F \in [1 .. Len(View.sessions) -> Session]
      BY <3>1, <3>2
    <3> HIDE DEF F
    <3> QED
      BY <3>1, <3>3
  <2> HIDE DEF F
  <2>3. rows \in Rows /\ rows.tokens = View.tokens
    BY <1>2, <2>2 DEF Rows
  <2> HIDE DEF rows
  <2> QED
    BY <1>1, <2>1, <2>3, SameTokens, EndsMoves, PlainStep
<1>5. CASE GetSession(s)
  <2> DEFINE id   == req[s].cookie
             live == HasRow(View.sessions, id) /\ View.sessions[id].state = "live"
  <2>1. req[s].pc = "session"
    BY <1>5 DEF GetSession, Call
  <2>2. CASE ~ live /\ Reads /\ TriesBearer(s)
    BY <1>1, <2>1, <2>2, ReadsStored, BearerMoves, PlainStep
  <2>3. CASE live /\ Writes([View EXCEPT !.sessions[id].state = "deleted"]) /\ TriesBearer(s)
    <3> DEFINE F    == [View.sessions EXCEPT ![id].state = "deleted"]
               rows == [View EXCEPT !.sessions = F]
    <3>1. rows = [View EXCEPT !.sessions[id].state = "deleted"]
      BY <1>2 DEF Rows
    <3>2. F \in Seq(Session)
      <4>1. id \in 1 .. Len(View.sessions)
        BY <2>3 DEF HasRow
      <4>2. View.sessions[id] \in Session
        BY <1>2, <4>1
      <4>3. [View.sessions[id] EXCEPT !.state = "deleted"] \in Session
        BY <4>2 DEF Session
      <4> QED
        BY <1>2, <4>1, <4>3
    <3> HIDE DEF F
    <3>3. rows \in Rows /\ rows.tokens = View.tokens
      BY <1>2, <3>2 DEF Rows
    <3>4. Writes(rows)
      BY <2>3, <3>1
    <3> HIDE DEF rows
    <3> QED
      BY <1>1, <2>1, <2>3, <3>3, <3>4, SameTokens, BearerMoves, PlainStep
  <2>4. CASE /\ live /\ Writes(View)
             /\ req' = [req EXCEPT ![s].pc = "user", ![s].user = View.sessions[id].user]
    <3> DEFINE u == View.sessions[id].user
               r == [req[s] EXCEPT !.pc = "user", !.user = u]
    <3>1. u \in Nat
      <4>1. id \in 1 .. Len(View.sessions)
        BY <2>4 DEF HasRow
      <4>2. View.sessions[id] \in Session
        BY <1>2, <4>1
      <4> QED
        BY <4>2 DEF Session
    <3> HIDE DEF u
    <3>2. r \in Req /\ r.pc = "user"
      BY <1>2, <3>1 DEF Req, Pcs
    <3>3. req' = [req EXCEPT ![s] = r]
      BY <1>2, <2>4 DEF u
    <3> HIDE DEF r
    <3>4. Moves(s, r)
      BY <3>2, <3>3 DEF Moves, CallInv
    <3>5. Stored
      BY <1>2, <2>4, SameTokens
    <3> QED
      BY <1>1, <3>2, <3>4, <3>5, PlainStep
  <2> QED
    BY <1>5, <2>2, <2>3, <2>4 DEF GetSession
<1>6. CASE GetUser(s)
  <2>1. req[s].pc = "user" /\ req[s].user \in Nat
    BY <1>2, <1>6 DEF GetUser, Call, Req
  <2>2. Admits(s, req[s].user) \/ TriesBearer(s)
    BY <1>6 DEF GetUser
  <2>3. \E r \in Req : Moves(s, r)
    BY <2>1, <2>2, AdmitsMoves, BearerMoves
  <2>4. Stored
    BY <1>6, ReadsStored DEF GetUser
  <2> QED
    BY <1>1, <2>3, <2>4, PlainStep
<1> QED
  BY <1>3, <1>4, <1>5, <1>6


\* Verifying a token and looking it up in the cache.
LEMMA TokenSteps ==
    ASSUME AuthInv, UNCHANGED now, NEW s \in Slots,
           ReadClock(s) \/ TokenCache(s) \/ VerifyToken(s)
    PROVE  StepOK(s)
<1> DEFINE k == req[s].bearer
<1>1. /\ req \in [Slots -> Req] /\ req[s] \in Req /\ CallInv(req[s]) /\ now \in Nat
      /\ req[s].clock \in Nat /\ k \in 0 .. MaxRows
  BY DEF AuthInv, AuthTypeOK, Req
<1>2. cache \in [1 .. MaxRows -> Nat] /\ CacheInv /\ CacheTtl \in Nat /\ MaxRows \in Nat
  BY AuthAssumption DEF AuthInv, AuthTypeOK
<1>3. lock' \in Slots \union {NoSlot}
  BY LockKept DEF ReadClock, TokenCache, VerifyToken
<1>4. open.tokens \in Seq(Token) /\ \A i \in 1 .. Len(open.tokens) : open.tokens[i] \in Token
  BY DEF AuthInv, AuthTypeOK, Rows
<1>5. CASE ReadClock(s)
  <2> DEFINE r == [req[s] EXCEPT !.pc = "cache", !.clock = now]
  <2>1. r \in Req /\ r.pc = "cache" /\ r.bearer = req[s].bearer /\ r.clock = now
    BY <1>1 DEF Req, Pcs
  <2>2. req' = [req EXCEPT ![s] = r] /\ req[s].pc = "clock"
    BY <1>1, <1>5 DEF ReadClock
  <2> HIDE DEF r
  <2>3. now' = now /\ now <= now
    BY <1>1
  <2>4. CallInv(r)
    BY <1>1, <2>1, <2>2, <2>3 DEF CallInv
  <2>5. Moves(s, r)
    BY <2>1, <2>2, <2>4 DEF Moves
  <2>6. Stored
    BY <1>5, UntouchedStored DEF ReadClock
  <2> QED
    BY <1>3, <1>5, <2>1, <2>5, <2>6, PlainStep DEF ReadClock
<1>6. CASE TokenCache(s)
  <2>1. req[s].pc = "cache"
    BY <1>6 DEF TokenCache, Call
  <2>2. k \in 1 .. MaxRows
    BY <1>1, <1>2, <2>1 DEF CallInv
  <2>3. Stored
    BY <1>6, UntouchedStored DEF TokenCache
  <2>4. CASE cache[k] > req[s].clock
    <3>1. Admits(s, open.tokens[k].user) /\ cache' = cache
      BY <1>6, <2>4 DEF TokenCache, CacheKept
    <3>2. /\ cache[k] \in Nat /\ k \in 1 .. Len(open.tokens)
          /\ Within(open.tokens[k], cache[k])
      BY <1>1, <1>2, <2>2, <2>4 DEF CacheInv
    <3>3. open.tokens[k] \in Token
      BY <1>4, <3>2
    <3>4. Grace(s)
      <4>1. open.tokens[k].revoked \in Nat /\ open.tokens[k].expires \in Nat
        BY <3>3 DEF Token
      <4>2. ASSUME NEW end \in Nat, cache[k] <= end + CacheTtl
            PROVE  req[s].clock < end + CacheTtl
        BY <1>1, <1>2, <2>4, <3>2, <4>2
      <4>3. \/ open.tokens[k].revoked = 0 \/ req[s].clock < open.tokens[k].revoked + CacheTtl
        BY <3>2, <4>1, <4>2 DEF Within
      <4>4. \/ open.tokens[k].expires = 0 \/ req[s].clock < open.tokens[k].expires + CacheTtl
        BY <3>2, <4>1, <4>2 DEF Within
      <4> QED
        BY <4>3, <4>4 DEF Grace
    <3>5. open.tokens[k].user \in Nat
      BY <3>3 DEF Token
    <3> QED
      BY <1>3, <2>3, <3>1, <3>4, <3>5, AdmitsMoves, PlainStep
  <2>5. CASE ~ (cache[k] > req[s].clock)
    <3>1. Goto(s, "token") /\ cache' = [cache EXCEPT ![k] = 0]
      BY <1>6, <2>5 DEF TokenCache
    <3>2. \E r \in Req : Moves(s, r)
      BY <2>1, <3>1, GotoMoves DEF Pcs
    <3>3. /\ cache' \in [1 .. MaxRows -> Nat]
          /\ \A i \in 1 .. MaxRows : cache'[i] = cache[i] \/ cache'[i] = 0
      BY <1>2, <3>1
    <3>4. Later(open.tokens, open'.tokens) /\ open' \in Rows
      BY <2>3 DEF Stored
    <3>5. CacheInv'
      BY <3>3, <3>4, CacheLater
    <3> QED
      BY <1>3, <2>3, <3>2, <3>3, <3>5 DEF StepOK
  <2> QED
    BY <2>4, <2>5
<1>7. CASE VerifyToken(s)
  <2> DEFINE t     == View.tokens[k]
             valid == /\ HasRow(View.tokens, k) /\ t.revoked = 0
                      /\ t.expires = 0 \/ t.expires > now
  <2>1. req[s].pc = "token"
    BY <1>7 DEF VerifyToken, Call
  <2>2. CASE ~ valid /\ Reads /\ Unidentified(s) /\ UNCHANGED cache
    BY <1>3, <2>2, ReadsStored, EndsMoves, PlainStep DEF Unidentified
  <2>3. CASE valid /\ Writes(View) /\ Unidentified(s) /\ UNCHANGED cache
    BY <1>3, <2>3, ViewProperties, SameTokens, EndsMoves, PlainStep DEF Unidentified
  <2>4. CASE /\ valid /\ Writes(View) /\ Admits(s, t.user)
             /\ cache' = [cache EXCEPT ![k] = req[s].clock + CacheTtl]
    <3>1. View = open /\ View \in Rows
      BY <2>4, ViewProperties DEF Writes
    <3>2. k \in 1 .. Len(open.tokens) /\ open.tokens[k] \in Token
      BY <1>4, <2>4, <3>1 DEF HasRow
    <3>3. /\ t = open.tokens[k] /\ t.user \in Nat /\ t.revoked = 0 /\ t.expires \in Nat
          /\ t.expires = 0 \/ t.expires > now
      BY <2>4, <3>1, <3>2 DEF Token
    <3> HIDE DEF t
    <3>4. req[s].clock <= now /\ k \in 1 .. MaxRows
      BY <1>1, <1>2, <2>1 DEF CallInv
    <3>5. Grace(s)
      BY <1>1, <1>2, <3>3, <3>4 DEF Grace
    <3>6. \E r \in Req : Moves(s, r)
      BY <2>4, <3>3, <3>5, AdmitsMoves
    <3>7. Stored /\ open' = open
      BY <2>4, <3>1, SameTokens DEF Writes
    <3>8. req[s].clock + CacheTtl \in Nat
      BY <1>1, <1>2
    <3>9. cache' \in [1 .. MaxRows -> Nat]
      BY <1>2, <2>4, <3>4, <3>8
    <3>10. CacheInv'
      <4> SUFFICES ASSUME NEW i \in 1 .. MaxRows, cache'[i] # 0
                   PROVE  /\ i \in 1 .. Len(open.tokens)
                          /\ cache'[i] <= now + CacheTtl
                          /\ Within(open.tokens[i], cache'[i])
        BY <3>7 DEF CacheInv, Within
      <4>1. CASE i = k
        <5>1. cache'[i] = req[s].clock + CacheTtl
          BY <1>2, <2>4, <3>4, <4>1
        <5>2. cache'[i] <= now + CacheTtl
          BY <1>1, <1>2, <3>4, <5>1
        <5>3. Within(open.tokens[i], cache'[i])
          <6>1. t.expires > now => cache'[i] <= t.expires + CacheTtl
            <7>1. ASSUME NEW e \in Nat, e > now PROVE req[s].clock + CacheTtl <= e + CacheTtl
              BY <1>1, <1>2, <3>4, <7>1
            <7> QED
              BY <3>3, <5>1, <7>1
          <6> QED
            BY <3>3, <4>1, <6>1 DEF Within
        <5> QED
          BY <3>2, <4>1, <5>2, <5>3
      <4>2. CASE i # k
        BY <1>2, <2>4, <4>2 DEF CacheInv
      <4> QED
        BY <4>1, <4>2
    <3> QED
      BY <1>3, <3>6, <3>7, <3>9, <3>10 DEF StepOK
  <2> QED
    BY <1>7, <2>2, <2>3, <2>4 DEF VerifyToken
<1> QED
  BY <1>5, <1>6, <1>7

\* What an admitted request does.
LEMMA HandlerSteps ==
    ASSUME AuthInv, UNCHANGED now, NEW s \in Slots,
           ReadAccount(s) \/ CreateApiToken(s) \/ RevokeApiToken(s)
    PROVE  StepOK(s)
<1>1. cache' = cache /\ lock' \in Slots \union {NoSlot} /\ Ends(s)
  BY LockKept DEF ReadAccount, CreateApiToken, RevokeApiToken
<1>2. req[s].user \in Nat /\ now \in Nat /\ open \in Rows /\ open.tokens \in Seq(Token)
  BY DEF AuthInv, AuthTypeOK, Req, Rows
<1>3. \A i \in 1 .. Len(open.tokens) : open.tokens[i] \in Token
  BY <1>2
<1>4. CASE ReadAccount(s)
  BY <1>1, <1>4, ReadsStored, EndsMoves, PlainStep DEF ReadAccount
<1>5. SUFFICES ASSUME NEW tk \in Seq(Token), Writes([open EXCEPT !.tokens = tk]),
                      Later(open.tokens, tk)
               PROVE  Stored
  <2>1. CASE CreateApiToken(s)
    <3>1. PICK ttl \in TokenTtls :
            Writes([View EXCEPT !.tokens =
                      Append(@, [user |-> req[s].user, revoked |-> 0,
                                 expires |-> IF ttl = 0 THEN 0 ELSE now + ttl])])
      BY <2>1 DEF CreateApiToken
    <3>2. View = open
      BY <3>1, ViewProperties DEF Writes
    <3> DEFINE e   == IF ttl = 0 THEN 0 ELSE now + ttl
               row == [user |-> req[s].user, revoked |-> 0, expires |-> e]
               tk  == Append(open.tokens, row)
    <3>3. e \in Nat
      BY <1>2, AuthAssumption
    <3>4. Writes([open EXCEPT !.tokens = tk])
      BY <3>1, <3>2
    <3> HIDE DEF e
    <3>5. row \in Token
      BY <1>2, <3>3 DEF Token
    <3> HIDE DEF row
    <3>6. tk \in Seq(Token) /\ Len(tk) = Len(open.tokens) + 1
          /\ \A i \in 1 .. Len(open.tokens) : tk[i] = open.tokens[i]
      BY <1>2, <3>5
    <3>7. Len(open.tokens) \in Nat
      BY <1>2
    <3> HIDE DEF tk
    <3>8. Later(open.tokens, tk)
      BY <3>6, <3>7 DEF Later
    <3>9. Stored
      BY <1>5, <3>4, <3>6, <3>8
    <3> QED
      BY <1>1, <3>9, EndsMoves, PlainStep
  <2>2. CASE RevokeApiToken(s)
    <3> DEFINE hit(i) == /\ i = req[s].target /\ open.tokens[i].user = req[s].user
                         /\ open.tokens[i].revoked = 0
               F == [i \in DOMAIN open.tokens |->
                       IF hit(i) THEN [open.tokens[i] EXCEPT !.revoked = now] ELSE open.tokens[i]]
    <3>1. View = open
      BY <2>2, ViewProperties DEF RevokeApiToken, Writes
    <3>2. Writes([open EXCEPT !.tokens = F])
      BY <2>2, <3>1 DEF RevokeApiToken
    <3>3. DOMAIN open.tokens = 1 .. Len(open.tokens) /\ Len(open.tokens) \in Nat
      BY <1>2
    <3>4. ASSUME NEW i \in DOMAIN open.tokens
          PROVE  /\ F[i] \in Token /\ F[i].expires = open.tokens[i].expires
                 /\ \/ F[i].revoked = open.tokens[i].revoked
                    \/ open.tokens[i].revoked = 0 /\ F[i].revoked = now
      <4>1. open.tokens[i] \in Token
        BY <1>3, <3>3
      <4>2. /\ [open.tokens[i] EXCEPT !.revoked = now] \in Token
            /\ [open.tokens[i] EXCEPT !.revoked = now].expires = open.tokens[i].expires
            /\ [open.tokens[i] EXCEPT !.revoked = now].revoked = now
        BY <1>2, <4>1 DEF Token
      <4>3. CASE hit(i)
        <5>1. F[i] = [open.tokens[i] EXCEPT !.revoked = now]
          BY <4>3
        <5> QED
          BY <4>2, <4>3, <5>1
      <4>4. CASE ~ hit(i)
        BY <4>1, <4>4
      <4> QED
        BY <4>3, <4>4
    <3>5. F \in [1 .. Len(open.tokens) -> Token]
      <4>1. DOMAIN F = 1 .. Len(open.tokens)
        BY <3>3
      <4>2. F = [i \in 1 .. Len(open.tokens) |-> F[i]]
        BY <3>3
      <4> HIDE DEF F
      <4> QED
        BY <3>3, <3>4, <4>2
    <3> HIDE DEF F
    <3>6. F \in Seq(Token) /\ Len(F) = Len(open.tokens)
      BY <3>3, <3>5
    <3>7. Later(open.tokens, F)
      BY <3>3, <3>4, <3>6 DEF Later
    <3>8. Stored
      BY <1>5, <3>2, <3>6, <3>7
    <3> QED
      BY <1>1, <3>8, EndsMoves, PlainStep
  <2> QED
    BY <1>4, <2>1, <2>2
<1>6. [open EXCEPT !.tokens = tk] \in Rows /\ [open EXCEPT !.tokens = tk].tokens = tk
  BY <1>2 DEF Rows
<1> QED
  BY <1>5, <1>6, WritesStored

\* The wait for the file lock, and a new request.
LEMMA OtherSteps ==
    ASSUME AuthInv, UNCHANGED now, NEW s \in Slots,
           Start(s) \/ DatabaseBusy(s) \/ DatabaseLocked(s)
    PROVE  StepOK(s)
<1>1. CASE Start(s)
  BY <1>1, LockKept, UntouchedStored, StartMoves, PlainStep DEF Start
<1>2. CASE DatabaseBusy(s)
  <2> DEFINE r == [NoReq EXCEPT !.pc = "busy", !.op = req[s].op, !.clock = now]
  <2>1. req[s].op \in Ops /\ now \in Nat
    BY DEF AuthInv, AuthTypeOK, Req
  <2>2. r \in Req /\ r.pc = "busy"
    BY <2>1, NoReqType DEF Req, Pcs
  <2>3. req' = [req EXCEPT ![s] = r]
    BY <1>2 DEF DatabaseBusy, Begin
  <2> HIDE DEF r
  <2>4. Moves(s, r)
    BY <2>2, <2>3 DEF Moves, CallInv
  <2> QED
    BY <1>2, <2>2, <2>4, UntouchedStored, PlainStep DEF DatabaseBusy
<1>3. CASE DatabaseLocked(s)
  BY <1>3, ReadsStored, EndsMoves, PlainStep DEF DatabaseLocked, Releases
<1> QED
  BY <1>1, <1>2, <1>3

-----------------------------------------------------------------------------
(* Auth: the invariant is inductive, and the theorems *)

LEMMA ServerStep ==
    ASSUME AuthInv, UNCHANGED now, NEW s \in Slots, Start(s) \/ AuthStep(s)
    PROVE  StepOK(s)
BY AccountSteps, SessionSteps, TokenSteps, HandlerSteps, OtherSteps DEF AuthStep

LEMMA StepKeepsInv ==
    ASSUME AuthInv, UNCHANGED now, NEW s \in Slots, StepOK(s)
    PROVE  AuthInv'
<1>1. PICK r \in Req : Moves(s, r)
  BY DEF StepOK
<1>2. req \in [Slots -> Req] /\ req' = [req EXCEPT ![s] = r] /\ CallInv(r)
  BY <1>1 DEF Moves, AuthInv, AuthTypeOK
<1>3. req' \in [Slots -> Req]
  BY <1>2
<1>4. ASSUME NEW i \in Slots PROVE CallInv(req[i])'
  <2>1. CallInv(req[i])
    BY DEF AuthInv
  <2>2. req'[i] = r \/ req'[i] = req[i]
    BY <1>2
  <2> QED
    BY <1>2, <2>1, <2>2 DEF CallInv
<1>5. AuthTypeOK'
  BY <1>3, EmptyRows DEF StepOK, Stored, AuthInv, AuthTypeOK
<1>6. NeverCommitted'
  BY DEF StepOK, Stored, AuthInv, NeverCommitted
<1> QED
  BY <1>4, <1>5, <1>6 DEF StepOK, AuthInv

LEMMA RestartKeepsInv == ASSUME AuthInv, UNCHANGED now, Restart PROVE AuthInv'
<1>1. 1 % PoolSize \in 0 .. PoolSize - 1 /\ PoolSize \in 0 .. PoolSize
  <2>1. ASSUME NEW m \in Nat, m > 0 PROVE 1 % m \in 0 .. m - 1 /\ m \in 0 .. m
    BY <2>1
  <2>2. PoolSize \in Nat /\ PoolSize > 0
    BY AuthAssumption
  <2> QED
    BY <2>1, <2>2
<1>2. AuthTypeOK'
  BY <1>1, EmptyRows, NoReqType DEF Restart, StoreOpened, NoConn, AuthInv, AuthTypeOK
<1>3. NeverCommitted'
  BY DEF Restart, StoreOpened, AuthInv, NeverCommitted
<1>4. CacheInv'
  BY DEF Restart, StoreOpened, CacheInv
<1>5. \A s \in Slots : CallInv(req[s])'
  BY NoReqType DEF Restart, StoreOpened, CallInv
<1> QED
  BY <1>2, <1>3, <1>4, <1>5 DEF AuthInv

LEMMA TickKeepsInv == ASSUME AuthInv, Tick(AuthEnd), UNCHANGED authVars PROVE AuthInv'
<1>1. now \in Nat /\ now > 0 /\ now' = now + 1 /\ CacheTtl \in Nat
  BY AuthAssumption DEF AuthInv, AuthTypeOK, Tick
<1>2. AuthTypeOK' /\ NeverCommitted'
  BY <1>1 DEF AuthInv, AuthTypeOK, NeverCommitted, authVars
<1>3. CacheInv'
  <2> SUFFICES ASSUME NEW k \in 1 .. MaxRows, cache[k] # 0
               PROVE  /\ k \in 1 .. Len(open.tokens)
                      /\ cache[k] <= now' + CacheTtl
                      /\ Within(open.tokens[k], cache[k])
    BY DEF CacheInv, Within, authVars
  <2>1. cache[k] \in Nat /\ cache[k] <= now + CacheTtl
    BY DEF AuthInv, AuthTypeOK, CacheInv
  <2>2. cache[k] <= now' + CacheTtl
    BY <1>1, <2>1
  <2> QED
    BY <2>2 DEF AuthInv, CacheInv
<1>4. ASSUME NEW s \in Slots PROVE CallInv(req[s])'
  <2>1. CallInv(req[s]) /\ req' = req /\ req[s].clock \in Nat
    BY DEF AuthInv, AuthTypeOK, Req, authVars
  <2>2. req[s].clock <= now => req[s].clock <= now'
    BY <1>1, <2>1
  <2> QED
    BY <2>1, <2>2 DEF CallInv
<1> QED
  BY <1>2, <1>3, <1>4 DEF AuthInv

LEMMA AuthInductive == ASSUME AuthInv, [AuthNext]_<<now, authVars>> PROVE AuthInv'
<1>1. CASE \E s \in Slots : (Start(s) \/ AuthStep(s)) /\ UNCHANGED now
  BY <1>1, ServerStep, StepKeepsInv
<1>2. CASE Restart /\ UNCHANGED now
  BY <1>2, RestartKeepsInv
<1>3. CASE Tick(AuthEnd) /\ UNCHANGED authVars
  BY <1>3, TickKeepsInv
<1>4. CASE UNCHANGED <<now, authVars>>
  BY <1>4 DEF authVars, AuthInv, AuthTypeOK, NeverCommitted, CacheInv, Within, CallInv
<1> QED
  BY <1>1, <1>2, <1>3, <1>4 DEF AuthNext

LEMMA AuthInitially == ASSUME ClockInit, AuthInit PROVE AuthInv
<1>1. 1 % PoolSize \in 0 .. PoolSize - 1 /\ PoolSize \in 0 .. PoolSize
  <2>1. ASSUME NEW m \in Nat, m > 0 PROVE 1 % m \in 0 .. m - 1 /\ m \in 0 .. m
    BY <2>1
  <2>2. PoolSize \in Nat /\ PoolSize > 0
    BY AuthAssumption
  <2> QED
    BY <2>1, <2>2
<1>2. AuthTypeOK
  BY <1>1, EmptyRows, NoReqType DEF ClockInit, AuthInit, NoConn, AuthTypeOK
<1>3. NeverCommitted /\ CacheInv
  BY DEF AuthInit, NeverCommitted, CacheInv
<1>4. \A s \in Slots : CallInv(req[s])
  BY NoReqType DEF AuthInit, CallInv
<1> QED
  BY <1>2, <1>3, <1>4 DEF AuthInv

\* store.py never commits (no "commit" in it, and the connections of store.py:47-57
\* keep the default isolation level): what is stored is seen on one connection and
\* gone with the process, and a cached token is never taken for longer than
\* CacheTtl after its end.
THEOREM AuthInvHolds == AuthSpec => []AuthInv
<1>1. ClockInit /\ AuthInit => AuthInv
  BY AuthInitially
<1>2. AuthInv /\ [AuthNext]_<<now, authVars>> => AuthInv'
  BY AuthInductive
<1> QED
  BY <1>1, <1>2, PTL DEF AuthSpec

\* One admission by a token.
Admitted(s) ==
    req[s].pc \in {"cache", "token"} /\ req'[s].pc = "handler" =>
    LET t == open.tokens[req[s].bearer]
    IN  /\ t.revoked = 0 \/ req[s].clock < t.revoked + CacheTtl
        /\ t.expires = 0 \/ req[s].clock < t.expires + CacheTtl

LEMMA AdmittedStep ==
    ASSUME AuthInv, [AuthNext]_<<now, authVars>>, NEW i \in Slots
    PROVE  Admitted(i)
<1>0. req \in [Slots -> Req]
  BY DEF AuthInv, AuthTypeOK
<1>1. ASSUME NEW s \in Slots, Start(s) \/ AuthStep(s), UNCHANGED now PROVE Admitted(i)
  <2>1. PICK r \in Req : Moves(s, r)
    BY <1>1, ServerStep DEF StepOK
  <2>2. CASE i = s
    BY <1>0, <2>1, <2>2 DEF Moves, Grace, Admitted
  <2>3. CASE i # s
    <3>1. req'[i] = req[i]
      BY <1>0, <2>1, <2>3 DEF Moves
    <3> QED
      BY <3>1 DEF Admitted
  <2> QED
    BY <2>2, <2>3
<1>2. CASE Restart
  BY <1>2, NoReqType DEF Restart, StoreOpened, Admitted
<1>3. CASE UNCHANGED authVars
  BY <1>3 DEF authVars, Admitted
<1> QED
  BY <1>1, <1>2, <1>3 DEF AuthNext

\* store.py:262-269, 307-308: whoever reads the clock CacheTtl or more after the end
\* of a token is refused, for any interleaving of the requests, the pool's
\* connections, revocations and restarts.
THEOREM TokenGraceHolds == AuthSpec => TokenGrace
<1>1. AuthInv /\ [AuthNext]_<<now, authVars>> => [\A s \in Slots : Admitted(s)]_authVars
  BY AdmittedStep
<1>2. TokenGrace <=> [][\A s \in Slots : Admitted(s)]_authVars
  BY PTL DEF TokenGrace, Admitted
<1> QED
  BY <1>1, <1>2, AuthInvHolds, PTL DEF AuthSpec

-----------------------------------------------------------------------------
(* Metrics *)

Counts == [Families -> [Labels -> Nat]]

\* A gauge is set only for labels that are known, which a collection of the same
\* family zeroes; they are forgotten only when an exporter starts, which has set none.
MetricsInv ==
    /\ stats \in Counts /\ gauge \in Counts /\ read \in Counts
    /\ labels \in [Families -> SUBSET Labels]
    /\ exporter \in {"down", "wait", "budget", "queue", "provider"}
    /\ gauge = read
    /\ \A f \in Families, l \in Labels : gauge[f][l] # 0 => l \in labels[f]
    /\ exporter = "down" => gauge = NoCounts

LEMMA ExportedIsRead ==
    ASSUME MetricsInv, NEW f \in Families PROVE Exported(f) = stats[f]
<1>1. stats[f] \in [Labels -> Nat] /\ gauge[f] \in [Labels -> Nat] /\ labels[f] \subseteq Labels
  BY DEF MetricsInv, Counts
<1>2. \A l \in Labels : gauge[f][l] # 0 => l \in labels[f]
  BY DEF MetricsInv
<1> DEFINE E(l) == IF l \in {x \in Labels : stats[f][x] > 0} THEN stats[f][l]
                   ELSE IF l \in labels[f] \ {x \in Labels : stats[f][x] > 0} THEN 0
                   ELSE gauge[f][l]
<1>3. ASSUME NEW l \in Labels PROVE E(l) = stats[f][l]
  <2>1. stats[f][l] \in Nat
    BY <1>1
  <2> QED
    BY <1>2, <2>1
<1>4. Exported(f) = [l \in Labels |-> E(l)]
  BY DEF Exported
<1> HIDE DEF E
<1>5. Exported(f) = [l \in Labels |-> stats[f][l]]
  BY <1>3, <1>4
<1> QED
  BY <1>1, <1>5

LEMMA CollectKeepsInv ==
    ASSUME MetricsInv, NEW f \in Families, f \in {"queue", "provider"}, CollectCounts(f)
    PROVE  MetricsInv'
<1> DEFINE now1 == {l \in Labels : stats[f][l] > 0}
<1>1. /\ gauge' = [gauge EXCEPT ![f] = stats[f]] /\ read' = [read EXCEPT ![f] = stats[f]]
      /\ labels' = [labels EXCEPT ![f] = @ \union now1]
      /\ stats' = stats
  BY ExportedIsRead DEF CollectCounts
<1>2. /\ stats \in Counts /\ gauge \in Counts /\ read \in Counts /\ gauge = read
      /\ labels \in [Families -> SUBSET Labels] /\ stats[f] \in [Labels -> Nat]
  BY DEF MetricsInv, Counts
<1>3. exporter' \in {"wait", "provider"}
  BY DEF CollectCounts, Next3
<1>4. gauge' \in Counts /\ read' \in Counts /\ gauge' = read'
  BY <1>1, <1>2 DEF Counts
<1>5. now1 \subseteq Labels
  OBVIOUS
<1>6. \A l \in Labels : stats[f][l] # 0 => l \in now1
  BY <1>2
<1> HIDE DEF now1
<1>7. labels' \in [Families -> SUBSET Labels]
  BY <1>1, <1>2, <1>5
<1>8. ASSUME NEW g \in Families, NEW l \in Labels, gauge'[g][l] # 0 PROVE l \in labels'[g]
  <2>1. CASE g = f
    <3>1. gauge'[g] = stats[f] /\ now1 \subseteq labels'[g]
      BY <1>1, <1>2, <2>1 DEF Counts
    <3> QED
      BY <1>6, <1>8, <3>1
  <2>2. CASE g # f
    <3>1. gauge'[g] = gauge[g] /\ labels'[g] = labels[g]
      BY <1>1, <1>2, <2>2 DEF Counts
    <3> QED
      BY <1>8, <3>1 DEF MetricsInv
  <2> QED
    BY <2>1, <2>2
<1> QED
  BY <1>1, <1>2, <1>3, <1>4, <1>7, <1>8 DEF MetricsInv

LEMMA MetricsInductive == ASSUME MetricsInv, [MetricsNext]_metricsVars PROVE MetricsInv'
<1>1. CASE CollectCounts("queue") \/ CollectCounts("provider")
  BY <1>1, CollectKeepsInv DEF Families
<1>2. CASE CollectBudget \/ CollectionFails
  <2>1. exporter # "down" /\ exporter' \in {"wait", "budget", "queue", "provider"}
    BY <1>2 DEF CollectBudget, CollectionFails, Next3
  <2>2. UNCHANGED <<stats, gauge, labels, read>>
    BY <1>2 DEF CollectBudget, CollectionFails
  <2> QED
    BY <2>1, <2>2 DEF MetricsInv
<1>3. CASE EnsureRunning
  <2>1. exporter = "down" /\ UNCHANGED <<stats, gauge, read>>
    BY <1>3 DEF EnsureRunning, HoldsBack
  <2>2. \/ UNCHANGED <<exporter, labels>>
        \/ exporter' = "budget" /\ labels' = [f \in Families |-> {}]
    BY <1>3 DEF EnsureRunning
  <2>3. \A f \in Families, l \in Labels : gauge[f][l] = 0
    BY <2>1 DEF MetricsInv, NoCounts
  <2>4. labels' \in [Families -> SUBSET Labels]
    BY <2>2 DEF MetricsInv
  <2> QED
    BY <2>1, <2>2, <2>3, <2>4 DEF MetricsInv
<1>4. CASE GuardTick \/ PortChanges \/ UNCHANGED metricsVars
  BY <1>4 DEF GuardTick, PortChanges, metricsVars, MetricsInv
<1>5. CASE CountsChange
  <2>1. PICK f \in Families, l \in Labels, n \in 0 .. 1 : stats' = [stats EXCEPT ![f][l] = n]
    BY <1>5 DEF CountsChange
  <2>2. n \in Nat /\ stats \in Counts
    BY DEF MetricsInv
  <2>3. [stats[f] EXCEPT ![l] = n] \in [Labels -> Nat]
    BY <2>2 DEF Counts
  <2>4. stats' = [stats EXCEPT ![f] = [stats[f] EXCEPT ![l] = n]]
    BY <2>1, <2>2 DEF Counts
  <2>5. stats' \in Counts
    BY <2>2, <2>3, <2>4 DEF Counts
  <2> QED
    BY <1>5, <2>5 DEF CountsChange, MetricsInv
<1> QED
  BY <1>1, <1>2, <1>3, <1>4, <1>5 DEF MetricsNext

\* metrics.py:261-305: what is exported and which labels are known go together, also
\* when the guard starts the exporter late.
THEOREM MetricsInvHolds == MetricsSpec => []MetricsInv
<1>1. MetricsInit => MetricsInv
  <2>1. NoCounts \in Counts /\ \A f \in Families, l \in Labels : NoCounts[f][l] = 0
    BY DEF NoCounts, Counts
  <2> QED
    BY <2>1 DEF MetricsInit, MetricsInv
<1>2. MetricsInv /\ [MetricsNext]_metricsVars => MetricsInv'
  BY MetricsInductive
<1> QED
  BY <1>1, <1>2, PTL DEF MetricsSpec

\* metrics.py:261-281, 287-305: for any labels and any order of counts, collections
\* and failures, the gauges show what the last completed collection read.
THEOREM GaugesTellHolds == MetricsSpec => []GaugesTell
<1>1. MetricsInv => GaugesTell
  BY DEF MetricsInv, GaugesTell
<1> QED
  BY <1>1, MetricsInvHolds, PTL
=============================================================================
