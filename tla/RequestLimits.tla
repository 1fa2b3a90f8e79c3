---------------------------- MODULE RequestLimits ----------------------------
(***************************************************************************)
(* What stands before a handler: the middleware that bounds a request's    *)
(* body, then the sliding window in Redis that counts requests of one      *)
(* address and path.  The window is stamped with the clock of the web      *)
(* process and evaluated later, atomically, in Redis: stamps may be old    *)
(* and may arrive out of order.                                            *)
(***************************************************************************)
EXTENDS Integers, FiniteSets

CONSTANTS
    Senders,        \* real clients; each reaches the server through Proxy or directly
    Proxy,          \* the trusted proxy (RATE_LIMIT_TRUSTED_PROXY_CIDRS)
    NoHeader,       \* no valid address in X-Real-IP
    Times,          \* times of the limiter
    Window,         \* window_ms, in ticks
    MaxDelay,       \* ticks between a stamp and its evaluation (clock skew included)
    MaxSize,        \* MAX_PAYLOAD_SIZE_BYTES, in units
    Requests,       \* requests alive at a time
    MaxTime,        \* bound of the model
    Kinds           \* contents that occur: "json" is a JSON body of a method that may have one,
                    \* "other" any other content and all of GET, HEAD and OPTIONS, a JSON body too

LimitsAssumption ==
    /\ {Times, Window, MaxSize, MaxTime} \subseteq Nat \ {0}
    /\ MaxDelay \in Nat
    /\ Proxy \notin Senders /\ NoHeader \notin Senders
    /\ Kinds \subseteq {"json", "multipart", "other"}

VARIABLES
    now,        \* the clock of Redis
    zset,       \* per address: the members <<stamp, time, number>> of its sorted set
    expires,    \* per address: when Redis drops the key
    req,        \* per request: where it is, and what it is
    admitted    \* history: <<sender, time of evaluation, number>> of those let in

vars == <<now, zset, expires, req, admitted>>

Addresses == Senders \cup {Proxy}
Sizes == 1..MaxSize
Free == [st |-> "free", sender |-> NoHeader, peer |-> NoHeader, header |-> NoHeader,
         kind |-> "other", read |-> 0, stamp |-> 0]

Init ==
    /\ now = 0
    /\ zset = [a \in Addresses |-> {}]
    /\ expires = [a \in Addresses |-> 0]
    /\ req = [r \in Requests |-> Free]
    /\ admitted = {}

\* A request arrives, with or without a Content-Length (declared 0). The proxy sets the header
\* to the sender's address; a sender without the proxy writes what it likes.
Arrive(r) == \E s \in Senders, peer \in Addresses, h \in Senders \cup {NoHeader},
               k \in Kinds, d \in 0..(MaxSize + 1) :
    /\ req[r].st = "free"
    /\ IF peer = Proxy THEN h = s ELSE peer = s
    /\ d <= MaxSize    \* a larger declared length is answered 413 at once
    /\ req' = [req EXCEPT ![r] = [Free EXCEPT !.st = "body", !.sender = s, !.peer = peer, !.header = h, !.kind = k]]
    /\ UNCHANGED <<now, zset, expires, admitted>>

\* The size of a body that had total and got n more.
Grown(total, n) == total + n

\* Only a JSON body, of any method but GET, HEAD and OPTIONS, is buffered and measured; every
\* other request goes to the handler unread.
ReadBody(r) ==
    /\ req[r].st = "body"
    /\ IF req[r].kind # "json"
         THEN req' = [req EXCEPT ![r].st = "limiter"]
         ELSE \E n \in Sizes, last \in BOOLEAN :
                LET size == Grown(req[r].read, n)
                IN req' = [req EXCEPT ![r] =
                        IF size > MaxSize THEN Free
                        ELSE [@ EXCEPT !.read = req[r].read + n,
                                       !.st = IF last THEN "limiter" ELSE "body"]]
    /\ UNCHANGED <<now, zset, expires, admitted>>

\* Mutant: the header of whoever sends it.
ResolveHeader(peer, header) == IF header # NoHeader THEN header ELSE peer
\* ClientIPResolver.resolve: the header counts only when the peer is the trusted proxy.
Resolve(peer, header) == IF peer = Proxy /\ header # NoHeader THEN header ELSE peer

\* The process reads its clock.
Stamp(r) ==
    /\ req[r].st = "limiter"
    /\ req' = [req EXCEPT ![r].st = "stamped", ![r].stamp = now]
    /\ UNCHANGED <<now, zset, expires, admitted>>

\* The key as Redis sees it: gone when its time is over.
Live(a) == IF now >= expires[a] THEN {} ELSE zset[a]
\* Members the script keeps: ZREMRANGEBYSCORE removes up to and including stamp - Window.
InWindow(members, stamp) == {m \in members : m[1] > stamp - Window}
\* What the script leaves in the set: the request is added only when there was room.
Counted(kept, m) == IF Cardinality(kept) < Times THEN kept \cup {m} ELSE kept
\* EXPIRE: ceil(window / 1000) + 1 seconds.
Ttl == Window + 1

\* LUA_SLIDING_WINDOW, one atomic step of Redis.
Evaluate(r) ==
    /\ req[r].st = "stamped"
    /\ LET a == Resolve(req[r].peer, req[r].header)
           kept == InWindow(Live(a), req[r].stamp)
           n == Cardinality({e \in admitted : e[1] = req[r].sender /\ e[2] = now})
           allowed == Cardinality(kept) < Times
       IN /\ zset' = [zset EXCEPT ![a] = Counted(kept, <<req[r].stamp, now, n>>)]
          /\ expires' = IF allowed THEN [expires EXCEPT ![a] = now + Ttl] ELSE expires
          /\ admitted' = IF allowed THEN admitted \cup {<<req[r].sender, now, n>>} ELSE admitted
          /\ req' = [req EXCEPT ![r] = Free]
    /\ UNCHANGED now

\* A stamp is evaluated within MaxDelay ticks.
Tick ==
    /\ now < MaxTime
    /\ \A r \in Requests : req[r].st = "stamped" => now < req[r].stamp + MaxDelay
    /\ now' = now + 1
    /\ UNCHANGED <<zset, expires, req, admitted>>

Next == \/ Tick
        \/ \E r \in Requests : Arrive(r) \/ ReadBody(r) \/ Stamp(r) \/ Evaluate(r)

Safety == Init /\ [][Next]_vars

-----------------------------------------------------------------------------
\* Everything has its type; a key holds at most Times members (rate_limit.py).
TypeOK ==
    /\ now \in 0..MaxTime
    /\ \A a \in Addresses : /\ \A m \in zset[a] : m \in (0..MaxTime) \X (0..MaxTime) \X Nat
                            /\ Cardinality(zset[a]) <= Times
    /\ \A a \in Addresses : expires[a] \in 0..(MaxTime + Window + 1)
    /\ \A r \in Requests : req[r] \in [st : {"free", "body", "limiter", "stamped"},
          sender : Senders \cup {NoHeader}, peer : Addresses \cup {NoHeader},
          header : Senders \cup {NoHeader}, kind : {"json", "multipart", "other"},
          read : Nat, stamp : 0..MaxTime]
    /\ \A e \in admitted : e \in Senders \X (0..MaxTime) \X Nat

\* However stamps are delayed and reordered, and whatever headers a client writes, one client
\* gets at most Times requests through in any Window - MaxDelay ticks (rate_limit.py:27-50).
WindowHolds ==
    \A s \in Senders, t \in 0..MaxTime :
        Cardinality({e \in admitted : e[1] = s /\ t <= e[2] /\ e[2] < t + Window - MaxDelay})
            <= Times

\* A request is turned away only when the client itself has had Times requests within the
\* last Window + MaxDelay ticks: neither rejected requests nor other clients count.
RejectedOnlyWhenFullStep ==
    \A r \in Requests : (req[r].st = "stamped" /\ req'[r].st = "free" /\ admitted' = admitted) =>
          Cardinality({e \in admitted : e[1] = req[r].sender /\ e[2] > now - Window - MaxDelay})
              >= Times
RejectedOnlyWhenFull == [][RejectedOnlyWhenFullStep]_vars

\* A JSON body of a method that may have one reaches the limiter and the handler only if it is no
\* larger than the limit, however it is cut and whatever it declares (payload_limit.py:39-65).
BodyBounded ==
    \A r \in Requests : (req[r].kind = "json" /\ req[r].st \in {"limiter", "stamped"})
                            => req[r].read <= MaxSize
=============================================================================
