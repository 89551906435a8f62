---------------------------- MODULE TimelyClient ----------------------------
(***************************************************************************)
(* generate_with_retry of timely_client.py.  Between the breaker's gate    *)
(* and the request it needs an access token: _token_cache keeps one per    *)
(* API key, and _token_lock, one lock for all keys, is held while a token  *)
(* is looked up or asked for.  The breaker, the attempts and the back-off  *)
(* are LlmClient's.  A token is its number in the order in which the       *)
(* server issues tokens for a key; the server stops accepting them in that *)
(* order.                                                                  *)
(***************************************************************************)
EXTENDS LlmClient, Sequences

CONSTANTS
  Keys,     \* API keys that callers pass
  GoodKeys  \* the ones that the server knows

ASSUME TimelyAssumption == GoodKeys \subseteq Keys /\ None \notin Keys

VARIABLES
  key,     \* call -> the caller's API key
  token,   \* call -> the token of its request, or 0
  queue,   \* the calls at _token_lock: its holder, then the waiters
  cache,   \* key -> the token in _token_cache, or 0
  issued,  \* key -> tokens the server has issued
  expired, \* key -> tokens up to this one are refused by the server
  refused, \* key -> the last token that a call was refused for (history)
  lost     \* key -> how often the cache lost a token (history)

server == <<issued, expired>>
history == <<refused, lost>>
tokens == <<key, token, queue, cache, server, history>>
timelyVars == <<vars, tokens>>

TimelyInit ==
  /\ Init
  /\ key = [j \in Calls |-> None]
  /\ token = [j \in Calls |-> 0]
  /\ queue = <<>>
  /\ cache = [k \in Keys |-> 0]
  /\ issued = [k \in Keys |-> 0] /\ expired = [k \in Keys |-> 0]
  /\ refused = [k \in Keys |-> 0] /\ lost = [k \in Keys |-> 0]

-----------------------------------------------------------------------------
(* The token.                                                              *)

\* j sends its request with token n.
Post(j, n) ==
  /\ pc' = [pc EXCEPT ![j] = "call"]
  /\ token' = [token EXCEPT ![j] = n]

\* Mutant: a call that waited for the lock does not look into the cache again.
MutLookUp(j, q) ==
  /\ UNCHANGED cache
  /\ \/ /\ pc[j] = "gate" /\ cache[key[j]] # 0
        /\ Post(j, cache[key[j]])
        /\ queue' = Tail(q)
     \/ /\ pc[j] = "token" \/ cache[key[j]] = 0
        /\ pc' = [pc EXCEPT ![j] = "auth"]
        /\ queue' = q
        /\ UNCHANGED token

\* The holder j of the lock, at the head of q, finds a token in the cache or
\* keeps the lock and asks the server for one.
LookUp(j, q) ==
  /\ UNCHANGED cache
  /\ \/ /\ cache[key[j]] # 0
        /\ Post(j, cache[key[j]])
        /\ queue' = Tail(q)
     \/ /\ cache[key[j]] = 0
        /\ pc' = [pc EXCEPT ![j] = "auth"]
        /\ queue' = q
        /\ UNCHANGED token

\* The end of the async with block, however it is left: the lock goes to the
\* first waiter, whoever it was that held it.
Release == queue' = Tail(queue)

\* The breaker lets the call pass; the lock is free or has waiters.
Enter(j) ==
  /\ pc[j] = "gate"
  /\ ~Open
  /\ age' = None
  /\ \/ queue = <<>> /\ LookUp(j, <<j>>)
     \/ /\ queue # <<>>
        /\ pc' = [pc EXCEPT ![j] = "token"]
        /\ queue' = Append(queue, j)
        /\ UNCHANGED <<token, cache>>
  /\ UNCHANGED <<failures, since, attempt, wait, outcome, key, server, history>>

\* The first waiter gets the lock.  The breaker is not looked at again.
Acquire(j) ==
  /\ pc[j] = "token"
  /\ Head(queue) = j
  /\ LookUp(j, queue)
  /\ UNCHANGED <<breaker, attempt, wait, outcome, key, server, history>>

Authenticated(j) ==
  LET k == key[j] IN
  /\ pc[j] = "auth"
  /\ k \in GoodKeys
  /\ issued' = [issued EXCEPT ![k] = @ + 1]
  /\ cache' = [cache EXCEPT ![k] = issued'[k]]
  /\ Post(j, issued'[k])
  /\ Release
  /\ UNCHANGED <<breaker, attempt, wait, outcome, key, expired, history>>

\* Mutant: an exception leaves the lock taken.
MutNotAuthenticated(j) ==
  /\ pc[j] = "auth"
  /\ \/ key[j] \notin GoodKeys /\ Return(j, "401")
     \/ Return(j, "raised")
     \/ Retry(j)
  /\ UNCHANGED <<breaker, key, token, queue, cache, server, history>>

\* A key the server does not know, an answer that is no JSON, or a timeout, no
\* connection, an error status, no token: the breaker counts none of them.
NotAuthenticated(j) ==
  /\ pc[j] = "auth"
  /\ \/ key[j] \notin GoodKeys /\ Return(j, "401")
     \/ Return(j, "raised")
     \/ Retry(j)
  /\ Release
  /\ UNCHANGED <<breaker, key, token, cache, server, history>>

-----------------------------------------------------------------------------
(* The request.                                                            *)

\* The answer has come: the token is of no more use to the call.
Drop(j) == token' = [token EXCEPT ![j] = 0]
UnlessDenied == UNCHANGED <<key, queue, cache, server, history>>

\* Mutant: the cached token outlives its refusal.
MutEvict(k) == UNCHANGED <<cache, lost>>

\* _token_cache.pop, without the lock: whatever token is there by now.
Evict(k) ==
  /\ cache' = [cache EXCEPT ![k] = 0]
  /\ lost' = IF cache[k] = 0 THEN lost ELSE [lost EXCEPT ![k] = @ + 1]

Accepted(j) ==
  /\ pc[j] = "call"
  /\ token[j] > expired[key[j]]
  /\ Success(j)
  /\ Drop(j) /\ UnlessDenied

Denied(j) ==
  LET k == key[j] IN
  /\ pc[j] = "call"
  /\ token[j] <= expired[k]
  /\ Return(j, "401")
  /\ Evict(k)
  /\ refused' = [refused EXCEPT ![k] = IF token[j] > @ THEN token[j] ELSE @]
  /\ Drop(j)
  /\ UNCHANGED <<breaker, key, queue, server>>

\* The rate limit, no credit, or an exception nothing names.
Limited(j) ==
  /\ pc[j] = "call"
  /\ \E o \in {"429", "503", "raised"} : Return(j, o)
  /\ Drop(j) /\ UnlessDenied
  /\ UNCHANGED breaker

Unanswered(j) == Failure(j) /\ Drop(j) /\ UnlessDenied

-----------------------------------------------------------------------------
TimelyStart(j) ==
  /\ Start(j)
  /\ \E k \in Keys : key' = [key EXCEPT ![j] = k]
  /\ UNCHANGED <<token, queue, cache, server, history>>

TimelyAdvance(j) ==
  \/ Enter(j) \/ Acquire(j) \/ Authenticated(j) \/ NotAuthenticated(j)
  \/ Accepted(j) \/ Denied(j) \/ Limited(j) \/ Unanswered(j)
  \/ (Refused(j) \/ Wake(j)) /\ UNCHANGED tokens

\* A token runs out at the server: the oldest first.
Expire(k) ==
  /\ expired[k] < issued[k]
  /\ expired' = [expired EXCEPT ![k] = @ + 1]
  /\ UNCHANGED <<vars, key, token, queue, cache, issued, history>>

\* An entry's 55 minutes are over: it counts as none from now on.
Outdate(k) ==
  /\ cache[k] # 0
  /\ Evict(k)
  /\ UNCHANGED <<vars, key, token, queue, server, refused>>

TimelyNext ==
  \/ \E j \in Calls : TimelyStart(j) \/ TimelyAdvance(j)
  \/ \E k \in Keys : Expire(k) \/ Outdate(k)
  \/ Tick /\ UNCHANGED tokens

TimelySpec == TimelyInit /\ [][TimelyNext]_timelyVars

-----------------------------------------------------------------------------
(* What the client promises.                                               *)

\* A token that the server has refused is not handed to another call: neither
\* a late eviction nor an authentication under way puts it back.  Every cached
\* token was issued for its key, and the server refuses only what ran out.
TokenInv ==
  /\ key \in [Calls -> Keys \cup {None}]
  /\ \A j \in Calls : pc[j] \notin {"idle", "done"} => key[j] \in Keys
  /\ token \in [Calls -> Nat]
  /\ cache \in [Keys -> Nat] /\ issued \in [Keys -> Nat]
  /\ expired \in [Keys -> Nat] /\ refused \in [Keys -> Nat]
  /\ lost \in [Keys -> Nat]
  /\ \A k \in Keys : /\ cache[k] <= issued[k]
                     /\ refused[k] <= expired[k] /\ expired[k] <= issued[k]
                     /\ cache[k] # 0 => cache[k] > refused[k]

\* However many calls of a key wait for a token, the server is asked for one
\* only when the last was lost: each waiter looks into the cache again.
SingleFlight ==
  \A k \in Keys : issued[k] = lost[k] + (IF cache[k] = 0 THEN 0 ELSE 1)

\* The lock is never left behind: whoever is at its head is there to take it or
\* is waiting for the server, which answers or times out, and everyone behind
\* waits once.  So no failure of one call blocks the others for good.
LockServed ==
  /\ \A n \in DOMAIN queue :
       pc[queue[n]] \in (IF n = 1 THEN {"token", "auth"} ELSE {"token"})
  /\ \A j \in Calls : pc[j] \in {"token", "auth"} =>
       \E n \in DOMAIN queue : queue[n] = j
  /\ \A m, n \in DOMAIN queue : queue[m] = queue[n] => m = n
=============================================================================
