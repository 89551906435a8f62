------------------------------ MODULE JwksCache ------------------------------
(***************************************************************************)
(* Authentication of a request (core/auth.py): tokens signed with a key    *)
(* pair are verified against the issuer's published keys, which are cached *)
(* in the process for an hour and fetched again for a key id they lack.    *)
(*                                                                         *)
(* The fetch is a synchronous httpx.get inside a coroutine: it stops the   *)
(* event loop, so no other request is handled until it is over.  The clock *)
(* and the issuer go on meanwhile: it publishes and withdraws keys before  *)
(* it replies and while its reply is on its way, or is out of reach.  All  *)
(* tokens are of one issuer; one without an "iss" counts as malformed.     *)
(***************************************************************************)
EXTENDS Naturals

CONSTANTS
  Kids,       \* key ids of the issuer
  Ttl,        \* _JWKS_TTL_SECONDS, in ticks of the model's clock
  MaxFetch,   \* the longest a fetch takes (httpx's timeouts)
  MaxTime,    \* the clock's bound
  HasSecret,  \* SUPABASE_JWT_SECRET is set
  None

ASSUME JwksAssumption ==
  /\ Ttl \in Nat /\ MaxFetch \in Nat /\ MaxFetch < Ttl
  /\ MaxTime \in Nat
  /\ HasSecret \in BOOLEAN
  /\ \A K \in SUBSET Kids : None # K
  /\ None \notin Nat

\* What an Authorization header holds: nothing, no Bearer token, or a token
\* with an algorithm, a key id and a signature and date that verify or not.
Algs == {"absent", "malformed", "asymmetric", "HS256", "other"}
Token == [alg : Algs, kid : Kids, good : BOOLEAN]

\* The fetch under way: the token it is for, the time it began, the keys of
\* the issuer's reply, and whether it is the second for that token.
Fetches ==
  [tok : {t \in Token : t.alg = "asymmetric"}, started : Nat,
   reply : {None} \cup SUBSET Kids, second : BOOLEAN]

VARIABLES
  published,  \* the key ids the issuer serves now
  withdrawn,  \* key id -> when the issuer last stopped serving it (history)
  lasting,    \* the key ids served ever since the last request came (history)
  now,        \* time.time()
  keys,       \* _JWKS_CACHE["keys"]: a set of key ids or None
  fetched,    \* _JWKS_CACHE["fetched_at"]
  pending,    \* the fetch under way
  answer      \* the answer just given: the token and the outcome

issuer == <<published, withdrawn>>
cache == <<keys, fetched>>
vars == <<issuer, lasting, now, cache, pending, answer>>

ASSUME NoToken ==
  /\ None \notin Token /\ None \notin Fetches
  /\ None \notin [tok : Token, code : 0..599]

Outcomes == {0, 200, 401, 500, 503}  \* 0: a guest

Init ==
  /\ published \in SUBSET Kids
  /\ withdrawn = [k \in Kids |-> None]
  /\ lasting = published
  /\ now = 0
  /\ keys = None
  /\ fetched = 0
  /\ pending = None
  /\ answer = None

-----------------------------------------------------------------------------
Answer(tok, code) == answer' = [tok |-> tok, code |-> code]

\* Mutant: the age is not looked at.
MutUsable == keys # None

\* The cached keys are used without a fetch.
Usable == keys # None /\ now - fetched < Ttl

\* jwt.decode with the key found accepts or refuses the token.  Claims without
\* a sub, or an asymmetric algorithm that jose has no key for, make it raise
\* what nothing catches.
Decode(tok) ==
  \/ Answer(tok, IF tok.good THEN 200 ELSE 401)
  \/ (tok.good \/ tok.alg = "asymmetric") /\ Answer(tok, 500)

\* _get_jwks reads the clock and asks the issuer.
Ask(tok, second) ==
  /\ pending' = [tok |-> tok, started |-> now, reply |-> None, second |-> second]
  /\ answer' = None

\* Mutant: the clock is read when the reply is there.
MutFetched ==
  /\ keys' = pending.reply
  /\ fetched' = now

\* The reply is cached under the time at which the fetch began.
Fetched ==
  /\ keys' = pending.reply
  /\ fetched' = pending.started

\* Mutant: the key is missing for good.
MutMiss(tok) == Answer(tok, 401) /\ pending' = None /\ UNCHANGED keys

\* The key is not among the keys: they are dropped and fetched again.
Miss(tok) == keys' = None /\ Ask(tok, TRUE)

\* _verify_asymmetric up to its answer or its first fetch.
Verify(tok) ==
  /\ tok.alg = "asymmetric"
  /\ \/ /\ Usable /\ tok.kid \in keys
        /\ Decode(tok)
        /\ UNCHANGED <<cache, pending>>
     \/ Usable /\ tok.kid \notin keys /\ Miss(tok) /\ UNCHANGED fetched
     \/ ~Usable /\ Ask(tok, FALSE) /\ UNCHANGED cache

\* The other headers need no key set.  A malformed one may hold an algorithm
\* or an issuer that is no string, which nothing catches.
Other(tok) ==
  /\ \/ tok.alg = "absent" /\ Answer(tok, 0)
     \/ tok.alg = "other" /\ Answer(tok, 401)
     \/ tok.alg = "malformed" /\ \E code \in {401, 500} : Answer(tok, code)
     \/ tok.alg = "HS256" /\ HasSecret /\ Decode(tok)
     \/ tok.alg = "HS256" /\ ~HasSecret /\ Answer(tok, 500)
  /\ UNCHANGED <<cache, pending>>

\* get_current_user; with a fetch under way the event loop stands still.
GetCurrentUser(tok) ==
  /\ pending = None
  /\ lasting' = published
  /\ Verify(tok) \/ Other(tok)
  /\ UNCHANGED <<issuer, now>>

\* The reply has the key of the token it was asked for.
Found == pending.tok.kid \in pending.reply

\* The reply is there; at the first fetch, a missing key means a second one.
Receive ==
  /\ pending # None /\ pending.reply # None
  /\ \/ Found /\ Fetched /\ pending' = None /\ Decode(pending.tok)
     \/ /\ ~Found /\ ~pending.second
        /\ Miss(pending.tok) /\ fetched' = pending.started
     \/ /\ ~Found /\ pending.second
        /\ Fetched /\ pending' = None /\ Answer(pending.tok, 401)
  /\ UNCHANGED <<issuer, lasting, now>>

\* httpx.get failed: 503; or the body was not JSON, which nothing catches.
FetchFails ==
  /\ pending # None
  /\ \E code \in {503, 500} : Answer(pending.tok, code)
  /\ pending' = None
  /\ UNCHANGED <<issuer, lasting, now, cache>>

-----------------------------------------------------------------------------
(* The issuer and the clock, also while a fetch is under way.              *)

\* The issuer makes its reply.
Serve ==
  /\ pending # None /\ pending.reply = None
  /\ pending' = [pending EXCEPT !.reply = published]
  /\ answer' = None
  /\ UNCHANGED <<issuer, lasting, now, cache>>

Publish(k) ==
  /\ published' = published \cup {k}
  /\ answer' = None
  /\ UNCHANGED <<withdrawn, lasting, now, cache, pending>>

Withdraw(k) ==
  /\ k \in published
  /\ published' = published \ {k}
  /\ withdrawn' = [withdrawn EXCEPT ![k] = now]
  /\ lasting' = lasting \ {k}
  /\ answer' = None
  /\ UNCHANGED <<now, cache, pending>>

\* A fetch is over in time: it has failed by then, if it has no reply.
Tick ==
  /\ now < MaxTime
  /\ pending # None => now - pending.started < MaxFetch
  /\ now' = now + 1
  /\ answer' = None
  /\ UNCHANGED <<issuer, lasting, cache, pending>>

Next ==
  \/ \E tok \in Token : GetCurrentUser(tok)
  \/ Receive
  \/ FetchFails
  \/ Serve
  \/ \E k \in Kids : Publish(k) \/ Withdraw(k)
  \/ Tick

Spec == Init /\ [][Next]_vars

-----------------------------------------------------------------------------
\* Every variable has its type.
TypeOK ==
  /\ published \in SUBSET Kids
  /\ withdrawn \in [Kids -> Nat \cup {None}]
  /\ lasting \in SUBSET Kids
  /\ now \in Nat
  /\ keys \in {None} \cup SUBSET Kids
  /\ fetched \in Nat
  /\ pending \in Fetches \cup {None}
  /\ answer \in [tok : Token, code : Outcomes] \cup {None}

\* Served at time n or later.
ServedSince(k, n) ==
  k \in published \/ (withdrawn[k] # None /\ withdrawn[k] >= n)

\* A cached key was served when, or after, the fetch that cached it began,
\* although the reply was made later and the issuer may have changed its keys
\* before it arrived.
CacheInv ==
  /\ fetched <= now
  /\ keys # None => \A k \in keys : ServedSince(k, fetched)

\* The same of a reply that is on its way; and it holds every key that has been
\* served since the request came.
FetchInv ==
  /\ lasting \subseteq published
  /\ pending # None =>
       /\ pending.started <= now /\ now - pending.started <= MaxFetch
       /\ pending.reply # None =>
            /\ lasting \subseteq pending.reply
            /\ \A k \in pending.reply : ServedSince(k, pending.started)

\* What makes the two properties below inductive.
IInv == TypeOK /\ CacheInv /\ FetchInv

\* A user whose token is signed with a key that the issuer serves throughout
\* the request is not turned away as unauthorized, however old the cache is
\* and whenever the keys were rotated: the answer is the user or, if the
\* issuer cannot be reached or the claims are unusable, a server's error.
CurrentKeyAccepted ==
  (answer # None /\ answer.tok.alg = "asymmetric" /\ answer.tok.good
     /\ answer.tok.kid \in lasting) => answer.code \in {200, 500, 503}

\* A key that the issuer has withdrawn is accepted for less than the TTL.
RevokedKeysExpire ==
  (answer # None /\ answer.tok.alg = "asymmetric" /\ answer.code = 200) =>
    \/ answer.tok.kid \in published
    \/ withdrawn[answer.tok.kid] # None /\ now - withdrawn[answer.tok.kid] < Ttl
=============================================================================
