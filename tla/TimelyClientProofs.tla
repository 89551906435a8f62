------------------------- MODULE TimelyClientProofs -------------------------
(***************************************************************************)
(* Proofs about the token cache for any number of calls and keys.          *)
(***************************************************************************)
EXTENDS TimelyClient, LlmClientProofs

\* What TokenInv needs of the calls beside it: each stands at a known place,
\* and a request carries a token that was issued for its key.
CarriedInv ==
  /\ pc \in [Calls -> {"idle", "gate", "token", "auth", "call", "sleep", "done"}]
  /\ \A j \in Calls : pc[j] = "call" => token[j] <= issued[key[j]]

\* Only the holder's look-up changes what is carried; it is what is cached.
LEMMA LookUpToken ==
  ASSUME TokenInv, CarriedInv, NEW j \in Calls, key[j] \in Keys, NEW q,
         LookUp(j, q), UNCHANGED <<key, server, history>>
  PROVE  TokenInv' /\ CarriedInv'
<1> USE DEF LookUp, Post, TokenInv, CarriedInv, server, history
<1>1. CASE cache[key[j]] # 0
  <2>1. /\ UNCHANGED cache
        /\ pc' = [pc EXCEPT ![j] = "call"]
        /\ token' = [token EXCEPT ![j] = cache[key[j]]]
    BY <1>1
  <2> QED
    BY <2>1
<1>2. CASE cache[key[j]] = 0
  <2>1. UNCHANGED <<cache, token>> /\ pc' = [pc EXCEPT ![j] = "auth"]
    BY <1>2
  <2> QED
    BY <2>1
<1> QED
  BY <1>1, <1>2

\* A call that ends, sleeps or waits at another place carries nothing new.
LEMMA MoveToken ==
  ASSUME TokenInv, CarriedInv, NEW j \in Calls, key[j] \in Keys,
         NEW x \in {"idle", "gate", "token", "auth", "sleep", "done"},
         pc' = [pc EXCEPT ![j] = x],
         UNCHANGED token \/ Drop(j),
         UNCHANGED <<key, cache, server, history>>
  PROVE  TokenInv' /\ CarriedInv'
<1> USE DEF TokenInv, CarriedInv, server, history
<1>1. CASE UNCHANGED token
  BY <1>1
<1>2. CASE Drop(j)
  BY <1>2 DEF Drop
<1> QED
  BY <1>1, <1>2

\* The initial cache is empty.
LEMMA InitToken == TimelyInit => TokenInv /\ CarriedInv
BY DEF TimelyInit, Init, TokenInv, CarriedInv

\* Every step keeps the tokens in order.
LEMMA NextToken ==
  TokenInv /\ CarriedInv /\ [TimelyNext]_timelyVars => TokenInv' /\ CarriedInv'
<1> SUFFICES ASSUME TokenInv, CarriedInv, [TimelyNext]_timelyVars
             PROVE  TokenInv' /\ CarriedInv'
  OBVIOUS
<1>1. ASSUME NEW j \in Calls, TimelyStart(j)  PROVE TokenInv' /\ CarriedInv'
  <2>1. PICK k \in Keys : key' = [key EXCEPT ![j] = k]
    BY <1>1 DEF TimelyStart
  <2>2. pc[j] = "idle" /\ pc' = [pc EXCEPT ![j] = "gate"]
    BY <1>1 DEF TimelyStart, Start
  <2> QED
    BY <1>1, <2>1, <2>2 DEF TimelyStart, TokenInv, CarriedInv, server, history
<1>2. ASSUME NEW j \in Calls, Enter(j)  PROVE TokenInv' /\ CarriedInv'
  <2>1. key[j] \in Keys /\ UNCHANGED <<key, server, history>>
    BY <1>2 DEF Enter, TokenInv
  <2>2. \/ LookUp(j, <<j>>)
        \/ pc' = [pc EXCEPT ![j] = "token"] /\ UNCHANGED <<token, cache>>
    BY <1>2 DEF Enter
  <2>3. CASE LookUp(j, <<j>>)
    BY <2>1, <2>3, LookUpToken
  <2>4. CASE pc' = [pc EXCEPT ![j] = "token"] /\ UNCHANGED <<token, cache>>
    BY <2>1, <2>4, MoveToken
  <2> QED
    BY <2>2, <2>3, <2>4
<1>3. ASSUME NEW j \in Calls, Acquire(j)  PROVE TokenInv' /\ CarriedInv'
  <2>1. key[j] \in Keys /\ UNCHANGED <<key, server, history>> /\ LookUp(j, queue)
    BY <1>3 DEF Acquire, TokenInv
  <2> QED
    BY <2>1, LookUpToken
<1>4. ASSUME NEW j \in Calls, Authenticated(j)  PROVE TokenInv' /\ CarriedInv'
  <2> DEFINE k == key[j]
  <2>1. k \in Keys /\ issued[k] \in Nat
    BY <1>4 DEF Authenticated, TokenInv
  <2>2. /\ issued' = [issued EXCEPT ![k] = issued[k] + 1]
        /\ cache' = [cache EXCEPT ![k] = issued[k] + 1]
        /\ token' = [token EXCEPT ![j] = issued[k] + 1]
        /\ pc' = [pc EXCEPT ![j] = "call"]
        /\ UNCHANGED <<key, expired, refused, lost>>
    BY <1>4, <2>1 DEF Authenticated, Post, TokenInv, history
  <2> QED
    BY <2>1, <2>2 DEF TokenInv, CarriedInv
<1>5. ASSUME NEW j \in Calls, Denied(j)  PROVE TokenInv' /\ CarriedInv'
  <2> DEFINE k == key[j]
  <2>1. /\ k \in Keys /\ token[j] <= expired[k]
        /\ pc' = [pc EXCEPT ![j] = "done"]
        /\ cache' = [cache EXCEPT ![k] = 0]
        /\ token' = [token EXCEPT ![j] = 0]
        /\ refused' = [refused EXCEPT ![k] = IF token[j] > refused[k]
                                             THEN token[j] ELSE refused[k]]
        /\ lost' \in [Keys -> Nat]
        /\ UNCHANGED <<key, issued, expired>>
    BY <1>5 DEF Denied, Return, Evict, Drop, TokenInv, server
  <2> QED
    BY <2>1 DEF TokenInv, CarriedInv
<1>6. ASSUME NEW j \in Calls,
             \/ NotAuthenticated(j) \/ Accepted(j) \/ Limited(j) \/ Unanswered(j)
             \/ (Refused(j) \/ Wake(j)) /\ UNCHANGED tokens
      PROVE  TokenInv' /\ CarriedInv'
  <2>1. key[j] \in Keys
    BY <1>6 DEF NotAuthenticated, Accepted, Limited, Unanswered, Failure, Refused,
                Wake, TokenInv
  <2>2. /\ UNCHANGED <<key, cache, server, history>>
        /\ UNCHANGED token \/ Drop(j)
    BY <1>6 DEF NotAuthenticated, Accepted, Limited, Unanswered, UnlessDenied, tokens
  <2>3. \E x \in {"gate", "sleep", "done"} : pc' = [pc EXCEPT ![j] = x]
    BY <1>6 DEF NotAuthenticated, Accepted, Success, Limited, Unanswered, Failure,
                Refused, Wake, Return, Retry
  <2> QED
    BY <2>1, <2>2, <2>3, MoveToken
<1>7. ASSUME NEW k \in Keys, Expire(k)  PROVE TokenInv' /\ CarriedInv'
  BY <1>7 DEF Expire, TokenInv, CarriedInv, vars, calls, history
<1>8. ASSUME NEW k \in Keys, Outdate(k)  PROVE TokenInv' /\ CarriedInv'
  BY <1>8 DEF Outdate, Evict, TokenInv, CarriedInv, vars, calls, server
<1>9. CASE Tick /\ UNCHANGED tokens
  BY <1>9 DEF Tick, tokens, TokenInv, CarriedInv, server, history
<1>10. CASE UNCHANGED timelyVars
  BY <1>10 DEF timelyVars, vars, calls, tokens, TokenInv, CarriedInv, server,
               history
<1> QED
  BY <1>1, <1>2, <1>3, <1>4, <1>5, <1>6, <1>7, <1>8, <1>9, <1>10
     DEF TimelyNext, TimelyAdvance

\* A refused token is never in the cache again.
THEOREM TokenInvariance == TimelySpec => []TokenInv
BY InitToken, NextToken, PTL DEF TimelySpec

-----------------------------------------------------------------------------
(* The lock.                                                               *)

\* LockServed with what it needs to be kept by every step.
LockInv ==
  /\ pc \in [Calls -> {"idle", "gate", "token", "auth", "call", "sleep", "done"}]
  /\ queue \in Seq(Calls)
  /\ LockServed

\* Who asks the server holds the lock.
LEMMA AskerHolds ==
  ASSUME LockInv, NEW j \in Calls, pc[j] = "auth"
  PROVE  queue # <<>> /\ Head(queue) = j
<1>1. PICK n \in DOMAIN queue : queue[n] = j
  BY DEF LockInv, LockServed
<1>2. n = 1
  BY <1>1 DEF LockInv, LockServed
<1> QED
  BY <1>1, <1>2 DEF LockInv

\* The holder lets go: the call that waited first is at the head.
LEMMA HolderLeaves ==
  ASSUME LockInv, NEW j \in Calls, queue # <<>>, Head(queue) = j,
         NEW x \in {"call", "sleep", "done"},
         pc' = [pc EXCEPT ![j] = x], queue' = Tail(queue)
  PROVE  LockInv'
<1> USE DEF LockInv, LockServed
<1>1. /\ queue' \in Seq(Calls) /\ Len(queue') = Len(queue) - 1
      /\ \A n \in 1..Len(queue') : queue'[n] = queue[n + 1]
  OBVIOUS
<1>2. queue[1] = j /\ \A n \in 2..Len(queue) : queue[n] # j /\ pc[queue[n]] = "token"
  OBVIOUS
<1>3. \A n \in DOMAIN queue' : pc'[queue'[n]] = "token"
  BY <1>1, <1>2
<1>4. ASSUME NEW i \in Calls, pc'[i] \in {"token", "auth"}
      PROVE  \E n \in DOMAIN queue' : queue'[n] = i
  <2>1. i # j /\ pc[i] \in {"token", "auth"}
    BY <1>4
  <2>2. PICK n \in DOMAIN queue : queue[n] = i
    BY <2>1
  <2>3. n - 1 \in 1..Len(queue') /\ (n - 1) + 1 = n
    BY <2>1, <2>2, <1>1, <1>2
  <2>4. queue'[n - 1] = i
    BY <2>2, <2>3, <1>1
  <2> QED
    BY <2>3, <2>4, <1>1
<1>5. \A m, n \in DOMAIN queue' : queue'[m] = queue'[n] => m = n
  <2> SUFFICES ASSUME NEW m \in 1..Len(queue'), NEW n \in 1..Len(queue'),
                      queue'[m] = queue'[n]
               PROVE  m = n
    BY <1>1
  <2>1. queue[m + 1] = queue[n + 1] /\ m + 1 \in DOMAIN queue /\ n + 1 \in DOMAIN queue
    BY <1>1
  <2> QED
    BY <2>1
<1> QED
  BY <1>1, <1>3, <1>4, <1>5

\* A call finds others at the lock and joins them.
LEMMA WaiterJoins ==
  ASSUME LockInv, NEW j \in Calls, pc[j] = "gate", queue # <<>>,
         pc' = [pc EXCEPT ![j] = "token"], queue' = Append(queue, j)
  PROVE  LockInv'
<1> USE DEF LockInv, LockServed
<1> DEFINE L == Len(queue)
<1>1. /\ queue' \in Seq(Calls) /\ Len(queue') = L + 1 /\ L \in Nat \ {0}
      /\ \A n \in 1..L : queue'[n] = queue[n]
      /\ queue'[L + 1] = j
  OBVIOUS
<1>2. \A n \in 1..L : queue[n] \in Calls /\ queue[n] # j
  OBVIOUS
<1>3. \A n \in DOMAIN queue' :
        pc'[queue'[n]] \in (IF n = 1 THEN {"token", "auth"} ELSE {"token"})
  <2> SUFFICES ASSUME NEW n \in 1..(L + 1)
               PROVE  pc'[queue'[n]] \in (IF n = 1 THEN {"token", "auth"} ELSE {"token"})
    BY <1>1
  <2>1. CASE n = L + 1
    BY <2>1, <1>1
  <2>2. CASE n \in 1..L
    BY <2>2, <1>1, <1>2
  <2> QED
    BY <2>1, <2>2, <1>1
<1>4. \A i \in Calls : pc'[i] \in {"token", "auth"} => \E n \in DOMAIN queue' : queue'[n] = i
  <2> SUFFICES ASSUME NEW i \in Calls, pc'[i] \in {"token", "auth"}
               PROVE  \E n \in DOMAIN queue' : queue'[n] = i
    OBVIOUS
  <2>1. CASE i = j
    BY <2>1, <1>1
  <2>2. CASE i # j
    <3>1. PICK n \in DOMAIN queue : queue[n] = i
      BY <2>2
    <3> QED
      BY <3>1, <1>1
  <2> QED
    BY <2>1, <2>2
<1>5. \A m, n \in DOMAIN queue' : queue'[m] = queue'[n] => m = n
  BY <1>1, <1>2
<1> QED
  BY <1>1, <1>3, <1>4, <1>5

\* A look-up by the holder, or by a call that finds the lock free.
LEMMA LookUpLock ==
  ASSUME LockInv, NEW j \in Calls, NEW q,
         \/ queue = <<>> /\ pc[j] = "gate" /\ q = <<j>>
         \/ pc[j] = "token" /\ Head(queue) = j /\ q = queue,
         LookUp(j, q)
  PROVE  LockInv'
<1>1. CASE queue = <<>> /\ pc[j] = "gate" /\ q = <<j>>
  <2>1. \A i \in Calls : pc[i] \notin {"token", "auth"}
    BY <1>1 DEF LockInv, LockServed
  <2>2. CASE pc' = [pc EXCEPT ![j] = "call"] /\ queue' = Tail(q)
    <3>1. queue' = <<>> /\ queue' \in Seq(Calls) /\ DOMAIN queue' = {}
      BY <1>1, <2>2
    <3>2. \A i \in Calls : pc'[i] \notin {"token", "auth"}
      BY <2>1, <2>2 DEF LockInv
    <3> QED
      BY <2>2, <3>1, <3>2 DEF LockInv, LockServed
  <2>3. CASE pc' = [pc EXCEPT ![j] = "auth"] /\ queue' = q
    <3>1. queue' = <<j>> /\ queue' \in Seq(Calls) /\ DOMAIN queue' = {1} /\ queue'[1] = j
      BY <1>1, <2>3
    <3> QED
      BY <2>1, <2>3, <3>1 DEF LockInv, LockServed
  <2> QED
    BY <2>2, <2>3 DEF LookUp, Post
<1>2. CASE pc[j] = "token" /\ Head(queue) = j /\ q = queue
  <2>1. queue # <<>>
    BY <1>2 DEF LockInv, LockServed
  <2>2. CASE pc' = [pc EXCEPT ![j] = "call"] /\ queue' = Tail(q)
    BY <1>2, <2>1, <2>2, HolderLeaves
  <2>3. CASE pc' = [pc EXCEPT ![j] = "auth"] /\ queue' = q
    <3>1. queue[1] = j /\ \A n \in DOMAIN queue : queue[n] = j => n = 1
      BY <1>2, <2>1 DEF LockInv, LockServed
    <3> QED
      BY <1>2, <2>3, <3>1 DEF LockInv, LockServed
  <2> QED
    BY <2>2, <2>3 DEF LookUp, Post
<1> QED
  BY <1>1, <1>2

\* A call that is not at the lock, and does not go there, leaves it alone.
LEMMA ElsewhereLock ==
  ASSUME LockInv, NEW j \in Calls, pc[j] \notin {"token", "auth"},
         NEW x \in {"idle", "gate", "call", "sleep", "done"},
         pc' = [pc EXCEPT ![j] = x], UNCHANGED queue
  PROVE  LockInv'
<1>1. \A n \in DOMAIN queue : queue[n] \in Calls /\ queue[n] # j
  BY DEF LockInv, LockServed
<1> QED
  BY <1>1 DEF LockInv, LockServed

\* No call is at the lock at first.
LEMMA InitLock == TimelyInit => LockInv
BY DEF TimelyInit, Init, LockInv, LockServed

\* Every step leaves the lock with whoever is there to take it.
LEMMA NextLock == LockInv /\ [TimelyNext]_timelyVars => LockInv'
<1> SUFFICES ASSUME LockInv, [TimelyNext]_timelyVars  PROVE LockInv'
  OBVIOUS
<1>1. ASSUME NEW j \in Calls, TimelyStart(j)  PROVE LockInv'
  BY <1>1, ElsewhereLock DEF TimelyStart, Start
<1>2. ASSUME NEW j \in Calls, Enter(j)  PROVE LockInv'
  BY <1>2, LookUpLock, WaiterJoins DEF Enter
<1>3. ASSUME NEW j \in Calls, Acquire(j)  PROVE LockInv'
  BY <1>3, LookUpLock DEF Acquire
<1>4. ASSUME NEW j \in Calls, Authenticated(j) \/ NotAuthenticated(j)  PROVE LockInv'
  <2>1. pc[j] = "auth" /\ queue' = Tail(queue)
    BY <1>4 DEF Authenticated, NotAuthenticated, Release
  <2>2. \E x \in {"call", "sleep", "done"} : pc' = [pc EXCEPT ![j] = x]
    BY <1>4 DEF Authenticated, NotAuthenticated, Post, Return, Retry
  <2> QED
    BY <2>1, <2>2, AskerHolds, HolderLeaves
<1>5. ASSUME NEW j \in Calls,
             \/ Accepted(j) \/ Denied(j) \/ Limited(j) \/ Unanswered(j)
             \/ (Refused(j) \/ Wake(j)) /\ UNCHANGED tokens
      PROVE  LockInv'
  <2>1. pc[j] \notin {"token", "auth"} /\ UNCHANGED queue
    BY <1>5 DEF Accepted, Denied, Limited, Unanswered, UnlessDenied, Failure, Refused,
                Wake, tokens
  <2>2. \E x \in {"gate", "sleep", "done"} : pc' = [pc EXCEPT ![j] = x]
    BY <1>5 DEF Accepted, Success, Denied, Limited, Unanswered, Failure, Refused, Wake,
                Return, Retry
  <2> QED
    BY <2>1, <2>2, ElsewhereLock
<1>6. ASSUME NEW k \in Keys, Expire(k) \/ Outdate(k)  PROVE LockInv'
  BY <1>6 DEF Expire, Outdate, LockInv, LockServed, vars, calls
<1>7. CASE Tick /\ UNCHANGED tokens
  BY <1>7 DEF Tick, tokens, LockInv, LockServed
<1>8. CASE UNCHANGED timelyVars
  BY <1>8 DEF timelyVars, vars, calls, tokens, LockInv, LockServed
<1> QED
  BY <1>1, <1>2, <1>3, <1>4, <1>5, <1>6, <1>7, <1>8 DEF TimelyNext, TimelyAdvance

\* The lock is with a call that will release it, or that is there to take it.
THEOREM LockIsServed == TimelySpec => []LockServed
<1>1. LockInv => LockServed
  BY DEF LockInv
<1> QED
  BY InitLock, NextLock, <1>1, PTL DEF TimelySpec

-----------------------------------------------------------------------------
(* One authentication for all that wait.                                   *)

\* Whoever asks for a token has found none, and the lock keeps it so.
FlightInv ==
  /\ \A j \in Calls : pc[j] = "auth" => cache[key[j]] = 0
  /\ SingleFlight

\* Every step keeps the count of tokens.
LEMMA NextFlight ==
  LockInv /\ TokenInv /\ CarriedInv /\ FlightInv /\ [TimelyNext]_timelyVars
    => FlightInv'
<1> SUFFICES ASSUME LockInv, TokenInv, CarriedInv, FlightInv, [TimelyNext]_timelyVars
             PROVE  FlightInv'
  OBVIOUS
<1>0. /\ pc \in [Calls -> {"idle", "gate", "token", "auth", "call", "sleep", "done"}]
      /\ key \in [Calls -> Keys \cup {None}]
      /\ cache \in [Keys -> Nat] /\ issued \in [Keys -> Nat] /\ lost \in [Keys -> Nat]
      /\ \A j \in Calls : pc[j] \notin {"idle", "done"} => key[j] \in Keys
  BY DEF TokenInv, CarriedInv
<1>1. ASSUME NEW j \in Calls, TimelyStart(j)  PROVE FlightInv'
  <2>1. PICK k \in Keys : key' = [key EXCEPT ![j] = k]
    BY <1>1 DEF TimelyStart
  <2>2. pc[j] = "idle" /\ pc' = [pc EXCEPT ![j] = "gate"]
        /\ UNCHANGED <<cache, issued, lost>>
    BY <1>1 DEF TimelyStart, Start, server, history
  <2> QED
    BY <1>0, <2>1, <2>2 DEF FlightInv, SingleFlight
<1>2. ASSUME NEW j \in Calls, NEW q, LookUp(j, q), UNCHANGED <<key, server, history>>
      PROVE  FlightInv'
  <2>1. UNCHANGED <<key, cache, issued, lost>>
    BY <1>2 DEF LookUp, server, history
  <2>2. \/ pc' = [pc EXCEPT ![j] = "call"]
        \/ pc' = [pc EXCEPT ![j] = "auth"] /\ cache[key[j]] = 0
    BY <1>2 DEF LookUp, Post
  <2> QED
    BY <1>0, <2>1, <2>2 DEF FlightInv, SingleFlight
<1>3. ASSUME NEW j \in Calls, NEW x \in {"gate", "token", "call", "sleep", "done"},
             pc' = [pc EXCEPT ![j] = x], UNCHANGED <<key, cache, issued, lost>>
      PROVE  FlightInv'
  BY <1>0, <1>3 DEF FlightInv, SingleFlight
<1>4. ASSUME NEW j \in Calls, Enter(j)  PROVE FlightInv'
  <2>1. UNCHANGED <<key, server, history>>
    BY <1>4 DEF Enter
  <2>2. CASE LookUp(j, <<j>>)
    BY <2>1, <2>2, <1>2
  <2>3. CASE pc' = [pc EXCEPT ![j] = "token"] /\ UNCHANGED <<token, cache>>
    BY <2>1, <2>3, <1>3 DEF server, history
  <2> QED
    BY <1>4, <2>2, <2>3 DEF Enter
<1>5. ASSUME NEW j \in Calls, Acquire(j)  PROVE FlightInv'
  BY <1>5, <1>2 DEF Acquire
<1>6. ASSUME NEW j \in Calls, Authenticated(j)  PROVE FlightInv'
  <2> DEFINE k == key[j]
  <2>1. k \in Keys /\ cache[k] = 0
    BY <1>6, <1>0 DEF Authenticated, FlightInv
  <2>2. /\ issued' = [issued EXCEPT ![k] = issued[k] + 1]
        /\ cache' = [cache EXCEPT ![k] = issued[k] + 1]
        /\ pc' = [pc EXCEPT ![j] = "call"]
        /\ UNCHANGED <<key, lost>>
    BY <1>6, <1>0, <2>1 DEF Authenticated, Post, history
  <2>3. \A i \in Calls : pc'[i] # "auth"
    BY <1>6, <1>0, <2>2, AskerHolds DEF Authenticated
  <2>4. SingleFlight'
    BY <1>0, <2>1, <2>2 DEF FlightInv, SingleFlight
  <2> QED
    BY <2>3, <2>4 DEF FlightInv
<1>7. ASSUME NEW k \in Keys, Evict(k), UNCHANGED <<key, issued>>,
             \A i \in Calls : pc'[i] = "auth" => pc[i] = "auth"
      PROVE  FlightInv'
  <2>1. /\ cache' = [cache EXCEPT ![k] = 0]
        /\ lost' = IF cache[k] = 0 THEN lost ELSE [lost EXCEPT ![k] = lost[k] + 1]
    BY <1>7, <1>0 DEF Evict
  <2>2. SingleFlight'
    BY <1>0, <1>7, <2>1 DEF FlightInv, SingleFlight
  <2>3. \A i \in Calls : pc'[i] = "auth" => cache'[key'[i]] = 0
    BY <1>0, <1>7, <2>1 DEF FlightInv
  <2> QED
    BY <2>2, <2>3 DEF FlightInv
<1>8. ASSUME NEW j \in Calls, Denied(j)  PROVE FlightInv'
  <2>1. key[j] \in Keys /\ Evict(key[j]) /\ UNCHANGED <<key, issued>>
        /\ pc' = [pc EXCEPT ![j] = "done"]
    BY <1>8, <1>0 DEF Denied, Return, server
  <2> QED
    BY <1>0, <1>7, <2>1
<1>9. ASSUME NEW j \in Calls,
             \/ NotAuthenticated(j) \/ Accepted(j) \/ Limited(j) \/ Unanswered(j)
             \/ (Refused(j) \/ Wake(j)) /\ UNCHANGED tokens
      PROVE  FlightInv'
  <2>1. UNCHANGED <<key, cache, issued, lost>>
    BY <1>9 DEF NotAuthenticated, Accepted, Limited, Unanswered, UnlessDenied, tokens,
                server, history
  <2>2. \E x \in {"gate", "sleep", "done"} : pc' = [pc EXCEPT ![j] = x]
    BY <1>9 DEF NotAuthenticated, Accepted, Success, Limited, Unanswered, Failure,
                Refused, Wake, Return, Retry
  <2> QED
    BY <2>1, <2>2, <1>3
<1>10. ASSUME NEW k \in Keys, Expire(k) \/ Outdate(k)  PROVE FlightInv'
  <2>1. CASE Outdate(k)
    BY <2>1, <1>7 DEF Outdate, vars, calls, server
  <2>2. CASE Expire(k)
    BY <2>2 DEF Expire, FlightInv, SingleFlight, vars, calls, history
  <2> QED
    BY <1>10, <2>1, <2>2
<1>11. CASE Tick /\ UNCHANGED tokens
  BY <1>11 DEF Tick, tokens, server, history, FlightInv, SingleFlight
<1>12. CASE UNCHANGED timelyVars
  BY <1>12 DEF timelyVars, vars, calls, tokens, server, history, FlightInv, SingleFlight
<1> QED
  BY <1>1, <1>4, <1>5, <1>6, <1>8, <1>9, <1>10, <1>11, <1>12
     DEF TimelyNext, TimelyAdvance

\* The server is asked for a token of a key once for each that was lost.
THEOREM OneAuthentication == TimelySpec => []SingleFlight
<1>1. TimelyInit => FlightInv
  BY DEF TimelyInit, Init, FlightInv, SingleFlight
<1>2. FlightInv => SingleFlight
  BY DEF FlightInv
<1> QED
  BY InitLock, NextLock, InitToken, NextToken, <1>1, NextFlight, <1>2, PTL DEF TimelySpec

-----------------------------------------------------------------------------
(* The contract with the pipeline.                                         *)

\* With a token to get and a lock shared with every other call, a call of this
\* client too is one step to one outcome for the pipeline.
THEOREM TimelyMeetsContract == TimelySpec => Contract!Spec
<1>1. TimelyInit => Contract!Init
  BY DEF TimelyInit, Init, Phase, Contract!Init
<1>2. CarriedInv /\ [TimelyNext]_timelyVars => [Contract!Next]_(Contract!vars)
  <2> SUFFICES ASSUME CarriedInv, [TimelyNext]_timelyVars
               PROVE  [Contract!Next]_(Contract!vars)
    OBVIOUS
  <2>0. pc \in [Calls -> {"idle", "gate", "token", "auth", "call", "sleep", "done"}]
    BY DEF CarriedInv
  <2>1. ASSUME NEW j \in Calls, TimelyStart(j)  PROVE Contract!Next
    BY <2>0, <2>1, StartBegins DEF TimelyStart
  <2>2. ASSUME NEW j \in Calls,
               \/ Enter(j) \/ Acquire(j) \/ Authenticated(j)
               \/ Wake(j) /\ UNCHANGED tokens
        PROVE  UNCHANGED Contract!vars
    <3>1. pc[j] \notin {"idle", "done"} /\ UNCHANGED outcome
      BY <2>2 DEF Enter, Acquire, Authenticated, Wake
    <3>2. \E x \in {"gate", "token", "auth", "call"} : pc' = [pc EXCEPT ![j] = x]
      BY <2>2 DEF Enter, Acquire, LookUp, Authenticated, Post, Wake
    <3> QED
      BY <2>0, <3>1, <3>2, StepUnseen
  <2>3. ASSUME NEW j \in Calls,
               \/ NotAuthenticated(j) \/ Accepted(j) \/ Denied(j) \/ Limited(j)
               \/ Unanswered(j) \/ (Refused(j) /\ UNCHANGED tokens)
        PROVE  [Contract!Next]_(Contract!vars)
    <3>1. pc[j] \notin {"idle", "done"} /\ (Retry(j) \/ \E o \in Outcomes : Return(j, o))
      BY <2>3 DEF NotAuthenticated, Accepted, Success, Denied, Limited, Unanswered,
                  Failure, Refused, Outcomes
    <3> QED
      BY <2>0, <3>1, RetryContract, ReturnEnds
  <2>4. ASSUME NEW k \in Keys, Expire(k) \/ Outdate(k)  PROVE UNCHANGED Contract!vars
    BY <2>4 DEF Expire, Outdate, vars, calls, Phase, Contract!vars
  <2>5. CASE Tick \/ UNCHANGED timelyVars
    BY <2>5 DEF Tick, timelyVars, vars, calls, Phase, Contract!vars
  <2>6. ASSUME NEW j \in Calls, TimelyAdvance(j)
        PROVE  [Contract!Next]_(Contract!vars)
    <3>1. CASE \/ Enter(j) \/ Acquire(j) \/ Authenticated(j)
               \/ Wake(j) /\ UNCHANGED tokens
      BY <2>2, <3>1
    <3>2. CASE \/ NotAuthenticated(j) \/ Accepted(j) \/ Denied(j) \/ Limited(j)
               \/ Unanswered(j) \/ (Refused(j) /\ UNCHANGED tokens)
      BY <2>3, <3>2
    <3> QED
      BY <2>6, <3>1, <3>2 DEF TimelyAdvance
  <2>7. CASE \E j \in Calls : TimelyStart(j) \/ TimelyAdvance(j)
    BY <2>1, <2>6, <2>7
  <2>8. CASE (\E k \in Keys : Expire(k) \/ Outdate(k)) \/ Tick \/ UNCHANGED timelyVars
    BY <2>4, <2>5, <2>8
  <2> QED
    BY <2>7, <2>8 DEF TimelyNext
<1> QED
  BY InitToken, NextToken, <1>1, <1>2, PTL DEF TimelySpec, Contract!Spec

-----------------------------------------------------------------------------
(* The breaker.                                                            *)

\* The breaker and its history agree here too, although a call that has passed
\* is_open sends its request only once it has a token, and perhaps after the
\* breaker has opened: only what the answers do counts.
THEOREM TimelyBreaker == TimelySpec => []BreakerInv
<1>1. TimelyInit => BreakerInv
  BY InitBreaker DEF TimelyInit
<1>2. BreakerInv /\ [TimelyNext]_timelyVars => BreakerInv'
  <2> SUFFICES ASSUME BreakerInv, [TimelyNext]_timelyVars  PROVE BreakerInv'
    OBVIOUS
  <2>1. ASSUME UNCHANGED breaker  PROVE BreakerInv'
    BY <2>1 DEF BreakerInv, OpenHasCause, breaker
  <2>2. ASSUME NEW j \in Calls,
               \/ TimelyStart(j) \/ Acquire(j) \/ Authenticated(j)
               \/ NotAuthenticated(j) \/ Denied(j) \/ Limited(j)
               \/ ((Refused(j) \/ Wake(j)) /\ UNCHANGED tokens)
        PROVE  BreakerInv'
    BY <2>1, <2>2 DEF TimelyStart, Start, Acquire, Authenticated, NotAuthenticated,
                      Denied, Limited, Refused, Wake
  <2>3. ASSUME NEW j \in Calls, Enter(j)  PROVE BreakerInv'
    BY <2>3, ClientAssumption DEF Enter, Open, BreakerInv, OpenHasCause, Reached, Seconds
  <2>4. ASSUME NEW j \in Calls, Accepted(j) \/ Unanswered(j)  PROVE BreakerInv'
    BY <2>4, ClientAssumption
       DEF Accepted, Success, RecordSuccess, Unanswered, Failure, RecordFailure,
           BreakerInv, OpenHasCause, Reached, Seconds
  <2>5. CASE Tick
    BY <2>5, ClientAssumption DEF Tick, Later, BreakerInv, OpenHasCause, Reached, Seconds
  <2>6. ASSUME NEW k \in Keys, Expire(k) \/ Outdate(k)  PROVE BreakerInv'
    BY <2>1, <2>6 DEF Expire, Outdate, vars
  <2>7. CASE UNCHANGED timelyVars
    BY <2>1, <2>7 DEF timelyVars, vars
  <2> QED
    BY <2>2, <2>3, <2>4, <2>5, <2>6, <2>7 DEF TimelyNext, TimelyAdvance
<1> QED
  BY <1>1, <1>2, PTL DEF TimelySpec
=============================================================================
