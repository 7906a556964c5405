--------------------------- MODULE GatewayProofs ---------------------------
(***************************************************************************)
(* Proofs about Gateway, for any number of requests in flight, any limits  *)
(* and spans, and however long time goes on.                               *)
(***************************************************************************)
EXTENDS Gateway, SequenceTheorems, FiniteSetTheorems, WellFoundedInduction, TLAPS

-----------------------------------------------------------------------------
(* The inductive invariant *)

Sessions == {GetSessionId(r) : r \in Requests}

Hits == [n : Nat, expires : Nat]
Task == [pc : {"idle", "chat", "health", "openai", "ping"}, sid : Sessions \union {None},
         since : Nat]

GateTypeOK ==
    /\ now \in Nat /\ now > 0
    /\ hits \in [RateKeys -> Hits] /\ passed \in [RateKeys -> Nat]
    /\ outages \in Nat /\ leaked \in Nat
    /\ chat \in [Sessions -> Seq(Nat)] /\ chatted \in [Sessions -> Seq(Nat)]
    /\ health \in [sampled : Nat, expires : Nat]
    /\ task \in [Tasks -> Task]

\* The expiry of a counter was set in the minute that still goes on.
SetThisMinute(h) == h.expires # 0 =>
    \E s \in Nat : s <= now /\ s \div Minute = now \div Minute /\ h.expires = s + RateKeyTtl

\* No more passed than was counted, and a counter outlives its minute.
RateInv == \A k \in RateKeys :
    passed[k] <= hits[k].n /\ RatePassed(k) /\ SetThisMinute(hits[k])

\* The window holds the latest of the requests that were let through; those that
\* are gone from it are older than the span.
Covers(window, times) ==
    /\ Len(window) <= ChatMax /\ Len(window) <= Len(times) /\ Len(times) <= ChatMax + 1
    /\ \A i \in 1 .. Len(window) : window[i] = times[Len(times) - Len(window) + i]
    /\ \A i \in 1 .. Len(times) - Len(window) : times[i] < now - ChatSpan

ChatInv == /\ \A c \in Sessions : Covers(chat[c], chatted[c]) /\ ChatSpaced(chatted[c])
           /\ \A t \in Tasks : task[t].pc = "chat" => task[t].sid \in Sessions

GateInv == GateTypeOK /\ RateInv /\ ChatInv

-----------------------------------------------------------------------------
(* Operators *)

\* Two times of one minute are less than a minute apart.
LEMMA SameMinute ==
    ASSUME NEW a \in Nat, NEW b \in Nat, NEW m \in Nat, m > 0, a \div m = b \div m
    PROVE  b < a + m
BY Z3

\* Finitely many callers have finitely many counters.
LEMMA EndlessFinite == IsFiniteSet(Endless) /\ Cardinality(Endless) \in Nat
<1> DEFINE ident == [r \in Requests |-> RateIdent(r)]
<1>1. ident \in Surjection(Requests, RateKeys)
  BY DEF Surjection, RateKeys
<1>2. IsFiniteSet(RateKeys)
  BY <1>1, FS_Surjection, GateAssumption
<1>3. Endless \subseteq RateKeys
  BY DEF Endless
<1> QED
  BY <1>2, <1>3, FS_Subset, FS_CardinalityType

\* Some prefix of the window is what popleft removes.
LEMMA PoppedExists ==
    ASSUME NEW window \in Seq(Nat), now \in Nat
    PROVE  /\ Popped(window) \in 0 .. Len(window)
           /\ \A i \in 1 .. Popped(window) : window[i] < now - ChatSpan
<1> DEFINE Old(i) == window[i] < now - ChatSpan
           S == {n \in 0 .. Len(window) : n < Len(window) => ~ Old(n + 1)}
<1>1. Len(window) \in Nat /\ (\A i \in 1 .. Len(window) : window[i] \in Nat)
  OBVIOUS
<1>2. now - ChatSpan \in Int
  BY GateAssumption
<1>3. S \in SUBSET Nat /\ S # {}
  BY <1>1
<1>4. PICK n \in S : \A y \in S : <<y, n>> \notin OpToRel(<, Nat)
  BY <1>3, NatLessThanWellFounded, WFMin
<1>5. \A y \in S : ~ (y < n)
  BY <1>3, <1>4 DEF OpToRel
<1>6. n \in 0 .. Len(window) /\ (n < Len(window) => window[n + 1] >= now - ChatSpan)
  BY <1>1, <1>2
<1>7. \A i \in 1 .. n : window[i] < now - ChatSpan
  <2> SUFFICES ASSUME NEW i \in 1 .. n PROVE Old(i)
    OBVIOUS
  <2>1. i - 1 \in 0 .. Len(window) /\ i - 1 < n /\ i - 1 < Len(window) /\ (i - 1) + 1 = i
    BY <1>1, <1>6
  <2> QED
    BY <1>5, <2>1
<1> HIDE DEF S
<1>8. \E m \in 0 .. Len(window) :
        /\ \A i \in 1 .. m : window[i] < now - ChatSpan
        /\ m < Len(window) => window[m + 1] >= now - ChatSpan
  BY <1>6, <1>7
<1> QED
  BY <1>8 DEF Popped

LEMMA CutoffProperties ==
    ASSUME NEW window \in Seq(Nat), now \in Nat
    PROVE  /\ Cutoff(window) \in Seq(Nat)
           /\ Len(Cutoff(window)) = Len(window) - Popped(window)
           /\ \A i \in 1 .. Len(Cutoff(window)) : Cutoff(window)[i] = window[Popped(window) + i]
<1> DEFINE n == Popped(window)
<1>1. n \in 0 .. Len(window)
  BY PoppedExists
<1> HIDE DEF n
<1>2. /\ SubSeq(window, n + 1, Len(window)) \in Seq(Nat)
      /\ Len(SubSeq(window, n + 1, Len(window))) = Len(window) - n
      /\ \A i \in 1 .. Len(window) - n : SubSeq(window, n + 1, Len(window))[i] = window[n + i]
  BY <1>1
<1> QED
  BY <1>1, <1>2 DEF Cutoff, n

-----------------------------------------------------------------------------
(* The rate limit *)

\* A counter that is set outlives the minute it counts.
LEMMA NotExpired ==
    ASSUME GateTypeOK, RateInv, NEW k \in RateKeys
    PROVE  hits[k].expires # 0 => ~ (hits[k].expires <= now)
<1> SUFFICES ASSUME hits[k].expires # 0 PROVE ~ (hits[k].expires <= now)
  OBVIOUS
<1>1. PICK s \in Nat : s <= now /\ s \div Minute = now \div Minute /\ hits[k].expires = s + RateKeyTtl
  BY DEF RateInv, SetThisMinute
<1>2. now \in Nat /\ Minute \in Nat /\ Minute > 0 /\ RateKeyTtl \in Nat /\ RateKeyTtl >= Minute
  BY GateAssumption DEF GateTypeOK
<1>3. now < s + Minute
  BY <1>1, <1>2, SameMinute
<1> QED
  BY <1>1, <1>2, <1>3

\* INCR, with or without the EXPIRE after it.
LEMMA Counts1 ==
    ASSUME GateTypeOK, RateInv, NEW k \in RateKeys
    PROVE  /\ Incremented(k) \in Hits /\ Incremented(k).n = hits[k].n + 1
           /\ SetThisMinute(Incremented(k))
           /\ Expiring(Incremented(k)) \in Hits
           /\ Expiring(Incremented(k)).n = hits[k].n + 1
           /\ SetThisMinute(Expiring(Incremented(k)))
<1> DEFINE h == Incremented(k)
<1>1. hits[k] \in Hits /\ now \in Nat
  BY DEF GateTypeOK
<1>2. h = IF hits[k].n = 0 THEN [n |-> 1, expires |-> 0] ELSE [hits[k] EXCEPT !.n = @ + 1]
  BY NotExpired DEF Incremented
<1>3. h \in Hits /\ h.n = hits[k].n + 1 /\ (h.expires = 0 \/ h.expires = hits[k].expires)
  <2>1. CASE hits[k].n = 0
    BY <1>1, <1>2, <2>1 DEF Hits
  <2>2. CASE hits[k].n # 0
    BY <1>1, <1>2, <2>2 DEF Hits
  <2> QED
    BY <2>1, <2>2
<1> HIDE DEF h
<1>4. SetThisMinute(h)
  BY <1>3 DEF RateInv, SetThisMinute
<1>5. CASE h.n = 1
  <2>1. Expiring(h) = [h EXCEPT !.expires = now + RateKeyTtl]
    BY <1>5 DEF Expiring
  <2>2. Expiring(h) \in Hits /\ Expiring(h).n = h.n /\ Expiring(h).expires = now + RateKeyTtl
    BY <1>1, <1>3, <2>1, GateAssumption DEF Hits
  <2>3. SetThisMinute(Expiring(h))
    BY <1>1, <2>2 DEF SetThisMinute
  <2> QED
    BY <1>3, <1>4, <2>2, <2>3 DEF h
<1>6. CASE h.n # 1
  <2>1. Expiring(h) = h
    BY <1>6 DEF Expiring
  <2> QED
    BY <1>3, <1>4, <2>1 DEF h
<1> QED
  BY <1>5, <1>6

\* RateLimitMiddleware, with Redis answering or failing.
LEMMA RateStep ==
    ASSUME GateTypeOK, RateInv, NEW k \in RateKeys, NEW pass \in BOOLEAN, RateLimit(k, pass),
           UNCHANGED now
    PROVE  /\ hits' \in [RateKeys -> Hits] /\ passed' \in [RateKeys -> Nat] /\ outages' \in Nat
           /\ RateInv'
<1> DEFINE h1 == Incremented(k)
           h2 == Expiring(Incremented(k))
<1>1. /\ hits \in [RateKeys -> Hits] /\ passed \in [RateKeys -> Nat] /\ outages \in Nat
      /\ hits[k].n \in Nat /\ passed[k] \in Nat
  BY DEF GateTypeOK, Hits
<1>2. /\ h1 \in Hits /\ h1.n = hits[k].n + 1 /\ SetThisMinute(h1)
      /\ h2 \in Hits /\ h2.n = hits[k].n + 1 /\ SetThisMinute(h2)
  BY Counts1
<1>3. \A j \in RateKeys : passed[j] <= hits[j].n /\ RatePassed(j) /\ SetThisMinute(hits[j])
  BY DEF RateInv
<1>4. SUFFICES ASSUME NEW h \in Hits, NEW p \in Nat,
                      hits' = [hits EXCEPT ![k] = h], passed' = [passed EXCEPT ![k] = p],
                      p <= h.n, RatePerMinute > 0 => p <= RatePerMinute, SetThisMinute(h)
               PROVE  /\ hits' \in [RateKeys -> Hits] /\ passed' \in [RateKeys -> Nat]
                      /\ RateInv'
  <2>1. CASE RatePerMinute <= 0 /\ UNCHANGED <<hits, passed, outages>>
    <3>1. hits' = [hits EXCEPT ![k] = hits[k]] /\ passed' = [passed EXCEPT ![k] = passed[k]]
      BY <1>1, <2>1
    <3>2. hits[k] \in Hits
      BY <1>1
    <3>3. passed[k] <= hits[k].n /\ (RatePerMinute > 0 => passed[k] <= RatePerMinute)
      BY <1>3 DEF RatePassed
    <3> QED
      BY <1>1, <1>3, <1>4, <2>1, <3>1, <3>2, <3>3
  <2>2. CASE /\ hits' = [hits EXCEPT ![k] = h2]
             /\ pass = ~ RateLimited(h2)
             /\ passed' = [passed EXCEPT ![k] = IF pass THEN @ + 1 ELSE @]
             /\ UNCHANGED outages
    <3> DEFINE p == IF pass THEN passed[k] + 1 ELSE passed[k]
    <3>1. passed' = [passed EXCEPT ![k] = p]
      BY <1>1, <2>2
    <3>2. p \in Nat
      BY <1>1
    <3>3. p <= h2.n /\ (RatePerMinute > 0 => p <= RatePerMinute)
      <4>1. RatePerMinute \in Nat
        BY GateAssumption
      <4>2. CASE pass
        <5>1. h2.n <= RatePerMinute
          <6>1. ~ RateLimited(h2)
            BY <2>2, <4>2
          <6>2. h2.n \in Nat
            BY <1>1, <1>2
          <6> HIDE DEF h2
          <6> QED
            BY <4>1, <6>1, <6>2 DEF RateLimited
        <5> QED
          BY <1>1, <1>2, <1>3, <4>1, <4>2, <5>1
      <4>3. CASE ~ pass
        BY <1>1, <1>2, <1>3, <4>1, <4>3 DEF RatePassed
      <4> QED
        BY <4>2, <4>3
    <3> HIDE DEF p, h2
    <3> QED
      BY <1>1, <1>2, <1>4, <2>2, <3>1, <3>2, <3>3
  <2>3. CASE /\ outages' = outages + 1
             /\ hits' \in {hits, [hits EXCEPT ![k] = h1]}
             /\ UNCHANGED passed
    <3>1. passed' = [passed EXCEPT ![k] = passed[k]]
      BY <1>1, <2>3
    <3>2. passed[k] <= hits[k].n /\ (RatePerMinute > 0 => passed[k] <= RatePerMinute)
      BY <1>3 DEF RatePassed
    <3>3. PICK h \in Hits : hits' = [hits EXCEPT ![k] = h] /\ (h = hits[k] \/ h = h1)
      <4>1. hits = [hits EXCEPT ![k] = hits[k]] /\ hits[k] \in Hits
        BY <1>1
      <4> QED
        BY <1>2, <2>3, <4>1
    <3>4. passed[k] <= h.n /\ SetThisMinute(h)
      BY <1>1, <1>2, <1>3, <3>2, <3>3
    <3> HIDE DEF h1
    <3>5. outages' \in Nat
      BY <1>1, <2>3
    <3> QED
      BY <1>1, <1>4, <3>1, <3>2, <3>3, <3>4, <3>5
  <2> QED
    BY <2>1, <2>2, <2>3 DEF RateLimit
<1>5. hits' \in [RateKeys -> Hits] /\ passed' \in [RateKeys -> Nat]
  BY <1>1, <1>4
<1>6. ASSUME NEW j \in RateKeys
      PROVE  passed'[j] <= hits'[j].n /\ RatePassed(j)' /\ SetThisMinute(hits[j])'
  <2>1. CASE j = k
    <3>1. passed'[j] = p /\ hits'[j] = h
      BY <1>1, <1>4, <2>1
    <3> QED
      BY <1>4, <3>1 DEF RatePassed, SetThisMinute
  <2>2. CASE j # k
    <3>1. passed'[j] = passed[j] /\ hits'[j] = hits[j]
      BY <1>1, <1>4, <2>2
    <3> QED
      BY <1>3, <3>1 DEF RatePassed, SetThisMinute
  <2> QED
    BY <2>1, <2>2
<1> QED
  BY <1>5, <1>6 DEF RateInv

-----------------------------------------------------------------------------
(* The chat window *)

\* The requests popped from the window have left the span.
LEMMA CutCovers ==
    ASSUME NEW window \in Seq(Nat), NEW times \in Seq(Nat), now \in Nat, Covers(window, times)
    PROVE  Covers(Cutoff(window), times)
<1> DEFINE cut == Cutoff(window)
           n   == Popped(window)
<1>1. n \in 0 .. Len(window) /\ \A i \in 1 .. n : window[i] < now - ChatSpan
  BY PoppedExists
<1>2. /\ cut \in Seq(Nat) /\ Len(cut) = Len(window) - n
      /\ \A i \in 1 .. Len(cut) : cut[i] = window[n + i]
  BY CutoffProperties
<1>3. Len(window) \in Nat /\ Len(times) \in Nat /\ Len(cut) \in Nat
  BY <1>2
<1>4. /\ Len(window) <= ChatMax /\ Len(window) <= Len(times) /\ Len(times) <= ChatMax + 1
      /\ \A i \in 1 .. Len(window) : window[i] = times[Len(times) - Len(window) + i]
      /\ \A i \in 1 .. Len(times) - Len(window) : times[i] < now - ChatSpan
  BY DEF Covers
<1>5. ChatMax \in Nat
  BY GateAssumption
<1> HIDE DEF cut, n
<1>6. Len(cut) <= ChatMax /\ Len(cut) <= Len(times)
  BY <1>1, <1>2, <1>3, <1>4, <1>5
<1>7. ASSUME NEW i \in 1 .. Len(cut) PROVE cut[i] = times[Len(times) - Len(cut) + i]
  <2>1. n + i \in 1 .. Len(window) /\ Len(times) - Len(window) + (n + i) = Len(times) - Len(cut) + i
    BY <1>1, <1>2, <1>3
  <2> QED
    BY <1>2, <1>4, <2>1
<1>8. ASSUME NEW i \in 1 .. Len(times) - Len(cut) PROVE times[i] < now - ChatSpan
  <2>1. CASE i <= Len(times) - Len(window)
    BY <1>3, <1>4, <2>1
  <2>2. CASE ~ (i <= Len(times) - Len(window))
    <3> DEFINE j == i - (Len(times) - Len(window))
    <3>1. j \in 1 .. n /\ j \in 1 .. Len(window) /\ Len(times) - Len(window) + j = i
      BY <1>1, <1>2, <1>3, <1>4, <2>2
    <3> HIDE DEF j
    <3> QED
      BY <1>1, <1>4, <3>1
  <2> QED
    BY <2>1, <2>2
<1> QED
  BY <1>4, <1>6, <1>7, <1>8 DEF Covers, cut

\* A request that finds room: the one ChatMax before it has left the span.
LEMMA AppendCovers ==
    ASSUME NEW window \in Seq(Nat), NEW times \in Seq(Nat), now \in Nat, Covers(window, times),
           Len(window) < ChatMax
    PROVE  /\ Append(window, now) \in Seq(Nat) /\ LastOf(Append(times, now)) \in Seq(Nat)
           /\ Covers(Append(window, now), LastOf(Append(times, now)))
           /\ ChatSpaced(LastOf(Append(times, now)))
<1> DEFINE w  == Append(window, now)
           ap == Append(times, now)
           ts == LastOf(ap)
           L  == Len(times)
           W  == Len(window)
<1>1. ChatMax \in Nat /\ ChatMax >= 1 /\ L \in Nat /\ W \in Nat
  BY GateAssumption
<1>2. /\ W <= ChatMax /\ W <= L /\ L <= ChatMax + 1
      /\ \A i \in 1 .. W : window[i] = times[L - W + i]
      /\ \A i \in 1 .. L - W : times[i] < now - ChatSpan
  BY DEF Covers
<1>3. /\ w \in Seq(Nat) /\ Len(w) = W + 1 /\ w[W + 1] = now
      /\ \A i \in 1 .. W : w[i] = window[i]
  OBVIOUS
<1>4. /\ ap \in Seq(Nat) /\ Len(ap) = L + 1 /\ ap[L + 1] = now
      /\ \A i \in 1 .. L : ap[i] = times[i]
  OBVIOUS
<1> HIDE DEF w, ap
<1>5. PICK d \in {0, 1} : /\ ts \in Seq(Nat) /\ Len(ts) = L + 1 - d
                          /\ \A i \in 1 .. L + 1 - d : ts[i] = ap[i + d]
                          /\ L + 1 - d <= ChatMax + 1 /\ W + 1 <= L + 1 - d
  <2>1. CASE L + 1 > ChatMax + 1
    <3>1. ts = Tail(ap) /\ ap # <<>>
      BY <1>1, <1>4, <2>1 DEF LastOf
    <3>2. ts \in Seq(Nat) /\ Len(ts) = L /\ \A i \in 1 .. L : ts[i] = ap[i + 1]
      BY <1>1, <1>4, <3>1
    <3> QED
      BY <1>1, <1>2, <2>1, <3>2
  <2>2. CASE ~ (L + 1 > ChatMax + 1)
    <3>1. ts = ap
      BY <1>4, <2>2 DEF LastOf
    <3> QED
      BY <1>1, <1>2, <1>4, <2>2, <3>1
  <2> QED
    BY <2>1, <2>2
<1> HIDE DEF ts
<1>6. ASSUME NEW i \in 1 .. Len(w) PROVE w[i] = ts[Len(ts) - Len(w) + i]
  <2>1. /\ Len(ts) - Len(w) + i \in 1 .. L + 1 - d
        /\ (Len(ts) - Len(w) + i) + d = L - W + i
    BY <1>1, <1>3, <1>5
  <2>2. ts[Len(ts) - Len(w) + i] = ap[L - W + i]
    BY <1>5, <2>1
  <2>3. CASE i = W + 1
    BY <1>1, <1>3, <1>4, <2>2, <2>3
  <2>4. CASE i # W + 1
    <3>1. i \in 1 .. W /\ L - W + i \in 1 .. L
      BY <1>1, <1>2, <1>3, <2>4
    <3> QED
      BY <1>2, <1>3, <1>4, <2>2, <3>1
  <2> QED
    BY <2>3, <2>4
<1>7. ASSUME NEW i \in 1 .. Len(ts) - Len(w) PROVE ts[i] < now - ChatSpan
  <2> HIDE DEF L, W
  <2>1. Len(ts) - Len(w) = L - W - d /\ i \in Int /\ 1 <= i /\ i <= L - W - d
    BY <1>1, <1>3, <1>5
  <2>2. i \in 1 .. L + 1 - d /\ i + d \in 1 .. L /\ i + d \in 1 .. L - W
    BY <1>1, <2>1
  <2> QED
    BY <1>2, <1>4, <1>5, <2>2
<1>8. Covers(w, ts)
  <2>1. Len(w) <= ChatMax /\ Len(w) <= Len(ts) /\ Len(ts) <= ChatMax + 1
    BY <1>1, <1>3, <1>5
  <2> QED
    BY <1>6, <1>7, <2>1 DEF Covers
<1>9. ChatSpaced(ts)
  <2> SUFFICES ASSUME NEW i \in DOMAIN ts, i + ChatMax \in DOMAIN ts
               PROVE  ts[i + ChatMax] - ts[i] > ChatSpan
    BY DEF ChatSpaced
  <2>1. DOMAIN ts = 1 .. Len(ts)
    BY <1>5
  <2> HIDE DEF L, W
  <2>2. i = 1 /\ i + ChatMax = Len(ts) /\ Len(ts) = ChatMax + 1
    <3>1. Len(ts) \in Nat /\ Len(ts) <= ChatMax + 1
      BY <1>1, <1>5
    <3>2. i \in 1 .. Len(ts) /\ i + ChatMax \in 1 .. Len(ts)
      BY <2>1
    <3> QED
      BY <1>1, <3>1, <3>2
  <2>3. ts[1] < now - ChatSpan
    <3>1. W < ChatMax
      BY DEF W
    <3>2. 1 \in 1 .. Len(ts) - Len(w)
      BY <1>1, <1>3, <2>2, <3>1
    <3> QED
      BY <1>7, <3>2
  <2>4. ts[Len(ts)] = now
    <3>1. ts[Len(ts)] = ap[L + 1]
      BY <1>1, <1>5
    <3> QED
      BY <1>4, <3>1
  <2>5. ts[1] \in Nat /\ ChatSpan \in Nat
    BY <1>5, <2>1, <2>2, GateAssumption
  <2> QED
    BY <2>2, <2>3, <2>4, <2>5
<1> QED
  BY <1>3, <1>5, <1>8, <1>9 DEF w, ts, ap

\* AgentChat leaves the window of its session as it must be, and the others alone.
LEMMA ChatStep ==
    ASSUME GateTypeOK, ChatInv, NEW t \in Tasks, AgentChat(t), UNCHANGED now
    PROVE  /\ chat' \in [Sessions -> Seq(Nat)] /\ chatted' \in [Sessions -> Seq(Nat)]
           /\ \A c \in Sessions : Covers(chat'[c], chatted'[c]) /\ ChatSpaced(chatted'[c])
<1> DEFINE sid    == task[t].sid
           window == Cutoff(chat[sid])
<1>1. sid \in Sessions /\ now \in Nat
  BY DEF AgentChat, ChatInv, GateTypeOK
<1>2. /\ chat \in [Sessions -> Seq(Nat)] /\ chatted \in [Sessions -> Seq(Nat)]
      /\ chat[sid] \in Seq(Nat) /\ chatted[sid] \in Seq(Nat)
  BY <1>1 DEF GateTypeOK
<1>3. \A c \in Sessions : Covers(chat[c], chatted[c]) /\ ChatSpaced(chatted[c])
  BY DEF ChatInv
<1>4. window \in Seq(Nat) /\ Covers(window, chatted[sid])
  BY <1>1, <1>2, <1>3, CutoffProperties, CutCovers
<1>5. SUFFICES ASSUME NEW v \in Seq(Nat), NEW ts \in Seq(Nat), Covers(v, ts), ChatSpaced(ts),
                      chat' = [chat EXCEPT ![sid] = v], chatted' = [chatted EXCEPT ![sid] = ts]
               PROVE  /\ chat' \in [Sessions -> Seq(Nat)] /\ chatted' \in [Sessions -> Seq(Nat)]
                      /\ \A c \in Sessions : Covers(chat'[c], chatted'[c]) /\ ChatSpaced(chatted'[c])
  <2>1. CASE Len(window) >= ChatMax
    <3>1. chat' = [chat EXCEPT ![sid] = window] /\ chatted' = chatted
      BY <2>1 DEF AgentChat
    <3>2. chatted' = [chatted EXCEPT ![sid] = chatted[sid]]
      BY <1>2, <3>1
    <3> HIDE DEF window, sid
    <3> QED
      BY <1>1, <1>2, <1>3, <1>4, <1>5, <3>1, <3>2
  <2>2. CASE ~ (Len(window) >= ChatMax)
    <3>1. /\ chat' = [chat EXCEPT ![sid] = Append(window, now)]
          /\ chatted' = [chatted EXCEPT ![sid] = LastOf(Append(chatted[sid], now))]
      BY <2>2 DEF AgentChat
    <3>2. Len(window) < ChatMax
      BY <1>4, <2>2, GateAssumption
    <3> HIDE DEF window, sid
    <3>3. /\ Append(window, now) \in Seq(Nat) /\ LastOf(Append(chatted[sid], now)) \in Seq(Nat)
          /\ Covers(Append(window, now), LastOf(Append(chatted[sid], now)))
          /\ ChatSpaced(LastOf(Append(chatted[sid], now)))
      BY <1>1, <1>2, <1>4, <3>2, AppendCovers
    <3> QED
      BY <1>5, <3>1, <3>3
  <2> QED
    BY <2>1, <2>2
<1> HIDE DEF sid
<1>6. chat' \in [Sessions -> Seq(Nat)] /\ chatted' \in [Sessions -> Seq(Nat)]
  BY <1>2, <1>5
<1>7. ASSUME NEW c \in Sessions PROVE Covers(chat'[c], chatted'[c]) /\ ChatSpaced(chatted'[c])
  <2>1. CASE c = sid
    <3>1. chat'[c] = v /\ chatted'[c] = ts
      BY <1>1, <1>2, <1>5, <2>1
    <3> QED
      BY <1>5, <3>1
  <2>2. CASE c # sid
    <3>1. chat'[c] = chat[c] /\ chatted'[c] = chatted[c]
      BY <1>2, <1>5, <2>2
    <3> QED
      BY <1>3, <3>1
  <2> QED
    BY <2>1, <2>2
<1> QED
  BY <1>6, <1>7

\* Time only moves requests out of the span.
LEMMA CoversLater ==
    ASSUME NEW window \in Seq(Nat), NEW times \in Seq(Nat), Covers(window, times),
           now \in Nat, now' \in Nat, now <= now'
    PROVE  /\ Len(window) <= ChatMax /\ Len(window) <= Len(times) /\ Len(times) <= ChatMax + 1
           /\ \A i \in 1 .. Len(window) : window[i] = times[Len(times) - Len(window) + i]
           /\ \A i \in 1 .. Len(times) - Len(window) : times[i] < now' - ChatSpan
<1>1. ASSUME NEW i \in 1 .. Len(times) - Len(window) PROVE times[i] < now' - ChatSpan
  <2>1. times[i] < now - ChatSpan /\ i \in 1 .. Len(times)
    BY DEF Covers
  <2>2. times[i] \in Nat /\ ChatSpan \in Nat
    BY <2>1, GateAssumption
  <2> QED
    BY <2>1, <2>2
<1> QED
  BY <1>1 DEF Covers

-----------------------------------------------------------------------------
(* Every step *)

\* A task that waits for something else, or answers.
LEMMA TaskStep ==
    ASSUME GateTypeOK, ChatInv, NEW t \in Tasks, NEW w \in Task,
           task' = [task EXCEPT ![t] = w], w.pc = "chat" => w.sid \in Sessions
    PROVE  /\ task' \in [Tasks -> Task]
           /\ \A u \in Tasks : task'[u].pc = "chat" => task'[u].sid \in Sessions
<1>1. task \in [Tasks -> Task]
  BY DEF GateTypeOK
<1>2. task' \in [Tasks -> Task] /\ task'[t] = w /\ \A u \in Tasks : u # t => task'[u] = task[u]
  BY <1>1
<1> QED
  BY <1>2 DEF ChatInv

LEMMA NoTaskType == NoTask \in Task /\ NoTask.pc = "idle"
BY DEF NoTask, Task

\* What the rest of the state is to a step that touches tasks alone.
LEMMA OthersKept ==
    ASSUME GateInv, UNCHANGED now
    PROVE  /\ UNCHANGED <<hits, passed>> => RateInv'
           /\ UNCHANGED <<chat, chatted>> =>
                \A c \in Sessions : (Covers(chat[c], chatted[c]) /\ ChatSpaced(chatted[c]))'
<1>1. UNCHANGED <<hits, passed>> => RateInv'
  BY DEF GateInv, RateInv, RatePassed, SetThisMinute
<1>2. UNCHANGED <<chat, chatted>> =>
        \A c \in Sessions : (Covers(chat[c], chatted[c]) /\ ChatSpaced(chatted[c]))'
  BY DEF GateInv, ChatInv, Covers, ChatSpaced
<1> QED
  BY <1>1, <1>2

LEMMA ArriveKeeps ==
    ASSUME GateInv, UNCHANGED now, NEW t \in Tasks, Arrive(t)
    PROVE  GateInv'
<1> USE DEF GateInv
<1>1. UNCHANGED <<leaked, chat, chatted, health>>
  BY DEF Arrive
<1>2. ASSUME NEW r \in Requests
      PROVE  RateIdent(r) \in RateKeys /\ GetSessionId(r) \in Sessions
  BY DEF RateKeys, Sessions
<1>3. hits' \in [RateKeys -> Hits] /\ passed' \in [RateKeys -> Nat] /\ outages' \in Nat /\ RateInv'
  <2>1. CASE UNCHANGED <<hits, passed, outages>>
    BY <2>1, OthersKept DEF GateTypeOK
  <2>2. CASE \E r \in Requests, pass \in BOOLEAN : RateLimit(RateIdent(r), pass)
    BY <1>2, <2>2, RateStep
  <2> QED
    BY <2>1, <2>2 DEF Arrive
<1>4. \/ task' = task
      \/ \E r \in Requests : task' = [task EXCEPT ![t] =
            [NoTask EXCEPT !.pc = r.path, !.sid = IF r.path = "chat" THEN GetSessionId(r) ELSE None]]
  BY DEF Arrive, Waits
<1>5. /\ task' \in [Tasks -> Task]
      /\ \A u \in Tasks : task'[u].pc = "chat" => task'[u].sid \in Sessions
  <2>1. CASE task' = task
    BY <2>1 DEF GateTypeOK, ChatInv
  <2>2. ASSUME NEW r \in Requests, task' = [task EXCEPT ![t] =
            [NoTask EXCEPT !.pc = r.path, !.sid = IF r.path = "chat" THEN GetSessionId(r) ELSE None]]
        PROVE  /\ task' \in [Tasks -> Task]
               /\ \A u \in Tasks : task'[u].pc = "chat" => task'[u].sid \in Sessions
             <3> DEFINE sid == IF r.path = "chat" THEN GetSessionId(r) ELSE None
               w   == [NoTask EXCEPT !.pc = r.path, !.sid = sid]
    <3>1. r.path \in {"chat", "health"}
      BY GateAssumption
    <3>2. sid \in Sessions \union {None} /\ (r.path = "chat" => sid \in Sessions)
      BY <1>2
    <3> HIDE DEF sid
    <3>3. w \in Task /\ w.pc = r.path /\ w.sid = sid
      BY <3>1, <3>2, NoTaskType DEF Task
    <3>4. task' = [task EXCEPT ![t] = w]
      BY <2>2 DEF sid
    <3> HIDE DEF w
    <3> QED
      BY <3>1, <3>2, <3>3, <3>4, TaskStep
  <2> QED
    BY <1>4, <2>1, <2>2
<1>6. \A c \in Sessions : (Covers(chat[c], chatted[c]) /\ ChatSpaced(chatted[c]))'
  BY <1>1, OthersKept
<1>7. GateTypeOK'
  BY <1>1, <1>3, <1>5 DEF GateTypeOK
<1>8. ChatInv'
  BY <1>1, <1>5, <1>6 DEF ChatInv
<1> QED
  BY <1>3, <1>7, <1>8

LEMMA AgentChatKeeps ==
    ASSUME GateInv, UNCHANGED now, NEW t \in Tasks, AgentChat(t)
    PROVE  GateInv'
<1> USE DEF GateInv
<1>1. UNCHANGED <<hits, passed, outages, leaked, health>>
  BY DEF AgentChat
<1>2. /\ chat' \in [Sessions -> Seq(Nat)] /\ chatted' \in [Sessions -> Seq(Nat)]
      /\ \A c \in Sessions : Covers(chat'[c], chatted'[c]) /\ ChatSpaced(chatted'[c])
  BY ChatStep
<1>3. PICK w \in Task : w.pc \in {"idle", "openai"} /\ task' = [task EXCEPT ![t] = w]
  <2>1. [NoTask EXCEPT !.pc = "openai"] \in Task /\ [NoTask EXCEPT !.pc = "openai"].pc = "openai"
    BY NoTaskType DEF Task
  <2>2. Waits(t, [NoTask EXCEPT !.pc = "openai"]) \/ Answers(t)
    BY DEF AgentChat
  <2> QED
    BY <2>1, <2>2, NoTaskType DEF Waits, Answers
<1>4. /\ task' \in [Tasks -> Task]
      /\ \A u \in Tasks : task'[u].pc = "chat" => task'[u].sid \in Sessions
  BY <1>3, TaskStep
<1>5. GateTypeOK'
  BY <1>1, <1>2, <1>4 DEF GateTypeOK
<1>6. \A c \in Sessions : (Covers(chat[c], chatted[c]) /\ ChatSpaced(chatted[c]))'
  BY <1>2 DEF Covers, ChatSpaced
<1>7. ChatInv'
  BY <1>1, <1>4, <1>6 DEF ChatInv
<1>8. RateInv'
  BY <1>1, OthersKept
<1> QED
  BY <1>5, <1>7, <1>8

\* InvokeOpenaiChat, and health() before and after its ping.
LEMMA WaitersKeep ==
    ASSUME GateInv, UNCHANGED now, NEW t \in Tasks,
           InvokeOpenaiChat(t) \/ Health(t) \/ HealthStore(t)
    PROVE  GateInv'
<1> USE DEF GateInv
<1>1. UNCHANGED <<hits, passed, outages, leaked, chat, chatted>>
  BY DEF InvokeOpenaiChat, Health, HealthStore
<1>2. PICK w \in Task : w.pc \in {"idle", "ping"} /\ task' = [task EXCEPT ![t] = w]
  <2> DEFINE p == [NoTask EXCEPT !.pc = "ping", !.since = now]
  <2>1. p \in Task /\ p.pc = "ping"
    BY NoTaskType DEF Task, GateTypeOK
  <2>2. Waits(t, p) \/ Answers(t)
    BY DEF InvokeOpenaiChat, Health, HealthStore
  <2> QED
    BY <2>1, <2>2, NoTaskType DEF Waits, Answers
<1>3. /\ task' \in [Tasks -> Task]
      /\ \A u \in Tasks : task'[u].pc = "chat" => task'[u].sid \in Sessions
  BY <1>2, TaskStep
<1>4. health' \in [sampled : Nat, expires : Nat]
  <2>1. CASE health' = health
    BY <2>1 DEF GateTypeOK
  <2>2. CASE HealthStore(t) /\ health' = HealthCached(t)
    <3>1. task[t].since \in Nat /\ now \in Nat
      BY DEF GateTypeOK, Task
    <3>2. health' = [sampled |-> task[t].since, expires |-> now + HealthTtl]
      BY <2>2 DEF HealthCached
    <3> QED
      BY <3>1, <3>2, GateAssumption
  <2> QED
    BY <2>1, <2>2 DEF InvokeOpenaiChat, Health, HealthStore
<1>5. GateTypeOK'
  BY <1>1, <1>3, <1>4 DEF GateTypeOK
<1>6. \A c \in Sessions : (Covers(chat[c], chatted[c]) /\ ChatSpaced(chatted[c]))'
  BY <1>1, OthersKept
<1>7. ChatInv'
  BY <1>3, <1>4, <1>6 DEF ChatInv
<1>8. RateInv'
  BY <1>1, OthersKept
<1> QED
  BY <1>5, <1>7, <1>8

\* A tick: a new minute has new counters.
LEMMA TickKeeps ==
    ASSUME GateInv, GateTick
    PROVE  GateInv'
<1> USE DEF GateInv
<1>1. now \in Nat /\ now' = now + 1 /\ UNCHANGED <<outages, chat, chatted, health, task>>
  BY DEF GateTick, Tick, GateTypeOK
<1>2. hits' \in [RateKeys -> Hits] /\ passed' \in [RateKeys -> Nat] /\ RateInv'
  <2>1. CASE now' \div Minute = now \div Minute
    <3>1. UNCHANGED <<hits, passed>>
      BY <2>1 DEF GateTick
    <3>2. ASSUME NEW k \in RateKeys PROVE SetThisMinute(hits[k])'
      <4>1. SetThisMinute(hits[k])
        BY DEF RateInv
      <4>2. \A s \in Nat : s <= now => s <= now'
        BY <1>1
      <4> QED
        BY <2>1, <3>1, <4>1, <4>2 DEF SetThisMinute
    <3> QED
      BY <3>1, <3>2 DEF GateTypeOK, RateInv, RatePassed
  <2>2. CASE now' \div Minute # now \div Minute
    <3>1. hits' = NoHits /\ passed' = [k \in RateKeys |-> 0]
      BY <2>2 DEF GateTick
    <3>2. \A k \in RateKeys : hits'[k].n = 0 /\ hits'[k].expires = 0 /\ passed'[k] = 0
      BY <3>1 DEF NoHits
    <3>3. RateInv'
      BY <3>2, GateAssumption DEF RateInv, RatePassed, SetThisMinute
    <3> QED
      BY <3>1, <3>3 DEF NoHits, Hits
  <2> QED
    BY <2>1, <2>2
<1>3. GateTypeOK'
  <2>1. leaked' \in Nat
    BY EndlessFinite DEF GateTick, GateTypeOK
  <2> QED
    BY <1>1, <1>2, <2>1 DEF GateTypeOK
<1>4. ChatInv'
  <2>1. ASSUME NEW c \in Sessions PROVE (Covers(chat[c], chatted[c]) /\ ChatSpaced(chatted[c]))'
    <3>1. chat[c] \in Seq(Nat) /\ chatted[c] \in Seq(Nat) /\ now' \in Nat /\ now <= now'
      BY <1>1 DEF GateTypeOK
    <3>2. Covers(chat[c], chatted[c]) /\ ChatSpaced(chatted[c])
      BY DEF ChatInv
    <3>3. Covers(chat[c], chatted[c])'
      BY <1>1, <3>1, <3>2, CoversLater DEF Covers
    <3>4. ChatSpaced(chatted[c])'
      BY <1>1, <3>2 DEF ChatSpaced
    <3> QED
      BY <3>3, <3>4
  <2> QED
    BY <1>1, <2>1 DEF ChatInv
<1> QED
  BY <1>2, <1>3, <1>4

LEMMA GateInductive == GateInv /\ [GateNext]_<<now, gateVars>> => GateInv'
<1> SUFFICES ASSUME GateInv, [GateNext]_<<now, gateVars>> PROVE GateInv'
  OBVIOUS
<1>1. CASE UNCHANGED <<now, gateVars>>
  <2>1. GateTypeOK'
    BY <1>1 DEF GateInv, gateVars, GateTypeOK
  <2>2. RateInv' /\ ChatInv'
    BY <1>1, OthersKept DEF GateInv, gateVars, ChatInv
  <2> QED
    BY <2>1, <2>2 DEF GateInv
<1>2. CASE GateTick
  BY <1>2, TickKeeps
<1>3. ASSUME NEW t \in Tasks, UNCHANGED now,
             \/ Arrive(t) \/ AgentChat(t) \/ InvokeOpenaiChat(t) \/ Health(t) \/ HealthStore(t)
      PROVE  GateInv'
  BY <1>3, ArriveKeeps, AgentChatKeeps, WaitersKeep
<1> QED
  BY <1>1, <1>2, <1>3 DEF GateNext

LEMMA GateInitInv == ClockInit /\ GateInit => GateInv
<1> SUFFICES ASSUME ClockInit, GateInit PROVE GateInv
  OBVIOUS
<1>1. now = 1 /\ task = [t \in Tasks |-> NoTask] /\ hits = NoHits
  BY DEF ClockInit, GateInit
<1>2. \A c \in Sessions : chat[c] = <<>> /\ chatted[c] = <<>>
  BY DEF GateInit, Sessions
<1>3. GateTypeOK
  <2>1. /\ hits \in [RateKeys -> Hits] /\ passed \in [RateKeys -> Nat]
        /\ outages \in Nat /\ leaked \in Nat
    BY DEF GateInit, NoHits, Hits
  <2>2. chat \in [Sessions -> Seq(Nat)] /\ chatted \in [Sessions -> Seq(Nat)]
    BY DEF GateInit, Sessions
  <2>3. task \in [Tasks -> Task]
    BY <1>1, NoTaskType
  <2>4. health \in [sampled : Nat, expires : Nat]
    BY DEF GateInit
  <2> QED
    BY <1>1, <2>1, <2>2, <2>3, <2>4 DEF GateTypeOK
<1>4. RateInv
  <2>1. \A k \in RateKeys : hits[k].n = 0 /\ hits[k].expires = 0 /\ passed[k] = 0
    BY DEF GateInit, NoHits
  <2> QED
    BY <2>1, GateAssumption DEF RateInv, RatePassed, SetThisMinute
<1>5. ChatInv
  <2>1. ASSUME NEW c \in Sessions PROVE Covers(chat[c], chatted[c]) /\ ChatSpaced(chatted[c])
    <3>1. Covers(<<>>, <<>>)
      BY GateAssumption DEF Covers
    <3>2. ChatSpaced(<<>>)
      BY DEF ChatSpaced
    <3> QED
      BY <1>2, <3>1, <3>2
  <2> QED
    BY <1>1, <2>1, NoTaskType DEF ChatInv
<1> QED
  BY <1>3, <1>4, <1>5 DEF GateInv

-----------------------------------------------------------------------------
(* Theorems *)

\* Every variable of the gateway has its type, and the counters and windows
\* stand in the relation the limits rest on.
THEOREM GateInvHolds == GateSpec => []GateInv
BY GateInitInv, GateInductive, PTL DEF GateSpec

\* middleware.py:110-122 and api.py:572-600: with Redis answering, no counter lets
\* more than RatePerMinute requests through in its minute, whatever failed before;
\* and no session is let through more than ChatMax times within ChatSpan.
THEOREM RequestLimitsHolds == GateSpec => []RequestLimits
<1>1. GateInv => RequestLimits
  <2> SUFFICES ASSUME GateInv PROVE RequestLimits
    OBVIOUS
  <2>1. DOMAIN chatted = Sessions
    BY DEF GateInv, GateTypeOK
  <2> QED
    BY <2>1 DEF GateInv, RateInv, ChatInv, RequestLimits
<1> QED
  BY <1>1, GateInvHolds, PTL

-----------------------------------------------------------------------------
(* Counters without an expiry *)

\* A request adds at most its own counter to them, and only if Redis fails.
LEMMA EndlessStep ==
    ASSUME GateInv, NEW k \in RateKeys, NEW pass \in BOOLEAN, RateLimit(k, pass)
    PROVE  \/ Endless' \subseteq Endless /\ outages' = outages
           \/ Endless' \subseteq Endless \union {k} /\ outages' = outages + 1
<1>1. hits \in [RateKeys -> Hits] /\ now \in Nat /\ now > 0 /\ RateKeyTtl \in Nat
  BY GateAssumption DEF GateInv, GateTypeOK
<1>2. CASE UNCHANGED <<hits, outages>>
  BY <1>2 DEF Endless
<1>3. CASE hits' = [hits EXCEPT ![k] = Expiring(Incremented(k))] /\ outages' = outages
  <2> DEFINE h == Expiring(Incremented(k))
  <2>1. h.expires = 0 => k \in Endless
    <3>1. hits[k] \in Hits /\ hits[k].n \in Nat /\ hits[k].expires \in Nat
      BY <1>1 DEF Hits
    <3>2. CASE Incremented(k) = [n |-> 1, expires |-> 0]
      <4>1. h = [[n |-> 1, expires |-> 0] EXCEPT !.expires = now + RateKeyTtl]
        BY <3>2 DEF Expiring
      <4>2. h.expires = now + RateKeyTtl
        BY <4>1
      <4> QED
        BY <1>1, <4>2
    <3>3. CASE hits[k].n # 0 /\ Incremented(k) = [hits[k] EXCEPT !.n = @ + 1]
      <4>1. Incremented(k).n # 1 /\ Incremented(k).expires = hits[k].expires
        BY <3>1, <3>3 DEF Hits
      <4>2. h = Incremented(k)
        BY <4>1 DEF Expiring
      <4> QED
        BY <3>1, <3>3, <4>1, <4>2 DEF Endless
    <3> QED
      BY <3>2, <3>3 DEF Incremented
  <2> HIDE DEF h
  <2>2. ASSUME NEW j \in Endless' PROVE j \in Endless
    <3>1. CASE j = k
      BY <1>1, <1>3, <2>1, <2>2, <3>1 DEF Endless, h
    <3>2. CASE j # k
      BY <1>1, <1>3, <2>2, <3>2 DEF Endless
    <3> QED
      BY <3>1, <3>2
  <2> QED
    BY <1>3, <2>2
<1>4. CASE hits' = [hits EXCEPT ![k] = Incremented(k)] /\ outages' = outages + 1
  <2>1. ASSUME NEW j \in Endless', j # k PROVE j \in Endless
    BY <1>1, <1>4, <2>1 DEF Endless
  <2> QED
    BY <1>4, <2>1
<1>5. CASE hits' = hits /\ outages' = outages + 1
  BY <1>5 DEF Endless
<1> QED
  BY <1>2, <1>3, <1>4, <1>5 DEF RateLimit

\* What the counters without an expiry may amount to.
LEMMA ExpireInductive ==
    GateInv /\ CountersExpire /\ [GateNext]_<<now, gateVars>> => CountersExpire'
<1> SUFFICES ASSUME GateInv, CountersExpire, [GateNext]_<<now, gateVars>> PROVE CountersExpire'
  OBVIOUS
<1> DEFINE c == Cardinality(Endless)
<1>1. leaked \in Nat /\ outages \in Nat /\ c \in Nat /\ IsFiniteSet(Endless)
  BY EndlessFinite DEF GateInv, GateTypeOK
<1>2. leaked + c <= outages
  BY DEF CountersExpire
<1>3. CASE UNCHANGED <<hits, outages, leaked>>
  <2>1. Endless' = Endless
    BY <1>3 DEF Endless
  <2> QED
    BY <1>2, <1>3, <2>1 DEF CountersExpire
<1>4. ASSUME NEW t \in Tasks, Arrive(t) PROVE CountersExpire'
  <2>1. CASE \E r \in Requests, pass \in BOOLEAN : RateLimit(RateIdent(r), pass)
    <3>1. PICK r \in Requests, pass \in BOOLEAN : RateLimit(RateIdent(r), pass)
      BY <2>1
    <3> DEFINE k == RateIdent(r)
    <3>2. k \in RateKeys
      BY DEF RateKeys
    <3>3. \/ Endless' \subseteq Endless /\ outages' = outages
          \/ Endless' \subseteq Endless \union {k} /\ outages' = outages + 1
      BY <3>1, <3>2, EndlessStep
    <3>4. leaked' = leaked
      BY <1>4 DEF Arrive
    <3> HIDE DEF k
    <3>5. CASE Endless' \subseteq Endless /\ outages' = outages
      <4>1. Cardinality(Endless') <= c /\ Cardinality(Endless') \in Nat
        BY <1>1, <3>5, FS_Subset, FS_CardinalityType
      <4> QED
        BY <1>1, <1>2, <3>4, <3>5, <4>1 DEF CountersExpire
    <3>6. CASE Endless' \subseteq Endless \union {k} /\ outages' = outages + 1
      <4> DEFINE more == Endless \union {k}
      <4>1. IsFiniteSet(more) /\ Cardinality(more) = IF k \in Endless THEN c ELSE c + 1
        BY <1>1, FS_AddElement
      <4>2. Cardinality(Endless') <= Cardinality(more) /\ Cardinality(Endless') \in Nat
        BY <3>6, <4>1, FS_Subset, FS_CardinalityType
      <4> HIDE DEF more, c
      <4> QED
        BY <1>1, <1>2, <3>4, <3>6, <4>1, <4>2 DEF CountersExpire
    <3> QED
      BY <3>3, <3>5, <3>6
  <2>2. CASE UNCHANGED <<hits, outages>>
    BY <1>3, <1>4, <2>2 DEF Arrive
  <2> QED
    BY <1>4, <2>1, <2>2 DEF Arrive
<1>5. CASE GateTick
  <2>1. CASE UNCHANGED <<hits, leaked>>
    BY <1>3, <1>5, <2>1 DEF GateTick
  <2>2. CASE hits' = NoHits /\ leaked' = leaked + c
    <3>1. Endless' = {}
      BY <2>2 DEF Endless, NoHits
    <3>2. Cardinality(Endless') = 0
      BY <3>1, FS_EmptySet
    <3>3. outages' = outages
      BY <1>5 DEF GateTick
    <3> HIDE DEF c
    <3> QED
      BY <1>1, <1>2, <2>2, <3>2, <3>3 DEF CountersExpire
  <2> QED
    BY <1>3, <1>5, <2>1, <2>2 DEF GateTick
<1>6. ASSUME NEW t \in Tasks, AgentChat(t) \/ InvokeOpenaiChat(t) \/ Health(t) \/ HealthStore(t)
      PROVE  CountersExpire'
  BY <1>3, <1>6 DEF AgentChat, InvokeOpenaiChat, Health, HealthStore
<1> QED
  BY <1>3, <1>4, <1>5, <1>6 DEF GateNext, gateVars

\* middleware.py:113-120: however many callers and minutes, the counters that Redis
\* keeps for ever are no more than the requests that met a failing Redis.
THEOREM CountersExpireHolds == GateSpec => []CountersExpire
<1>1. ClockInit /\ GateInit => CountersExpire
  <2> SUFFICES ASSUME GateInit PROVE CountersExpire
    OBVIOUS
  <2>1. Endless = {}
    BY DEF GateInit, NoHits, Endless
  <2> QED
    BY <2>1, FS_EmptySet DEF GateInit, CountersExpire
<1> QED
  BY <1>1, ExpireInductive, GateInvHolds, PTL DEF GateSpec
=============================================================================
