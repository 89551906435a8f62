--------------------------- MODULE JwksCacheProofs ---------------------------
(***************************************************************************)
(* Theorems about JwksCache, for any keys, lifetime, clock and length of a *)
(* fetch below the lifetime.                                               *)
(***************************************************************************)
EXTENDS JwksCache, TLAPS

\* What is shown of every step at once.
Right == IInv /\ CurrentKeyAccepted /\ RevokedKeysExpire

LEMMA InitRight == Init => Right
<1> SUFFICES ASSUME Init PROVE Right
  OBVIOUS
<1>1. TypeOK
  BY DEF Init, TypeOK
<1> QED  BY <1>1 DEF Init, Right, IInv, CacheInv, FetchInv, CurrentKeyAccepted,
                     RevokedKeysExpire

\* A key that was served at time n or later, which is less than the lifetime
\* ago, is served now or was until less than the lifetime ago.
LEMMA LatelyServed ==
  ASSUME TypeOK, NEW k \in Kids, NEW n \in Nat, now - n < Ttl, ServedSince(k, n)
  PROVE  k \in published \/ (withdrawn[k] # None /\ now - withdrawn[k] < Ttl)
<1>1. now \in Nat /\ withdrawn[k] \in Nat \cup {None}
  BY DEF TypeOK
<1> QED  BY <1>1, JwksAssumption DEF ServedSince

\* An answer that is given while the issuer's keys stand still is right if it
\* is 200 only for a key lately served, and 401 only for one not served since
\* the request came.
LEMMA RightAnswer ==
  ASSUME TypeOK, NEW tok \in Token, NEW code \in Outcomes, Answer(tok, code),
         UNCHANGED <<issuer, now>>,
         tok.alg = "asymmetric" =>
           /\ code \in {200, 401, 500, 503}
           /\ code = 200 =>
                \/ tok.kid \in published
                \/ /\ withdrawn[tok.kid] # None
                   /\ now - withdrawn[tok.kid] < Ttl
           /\ code = 401 => ~tok.good \/ tok.kid \notin lasting'
  PROVE  /\ answer' \in [tok : Token, code : Outcomes]
         /\ CurrentKeyAccepted' /\ RevokedKeysExpire'
<1>1. answer' = [tok |-> tok, code |-> code]
  BY DEF Answer
<1>2. answer'.tok = tok /\ answer'.code = code
  BY <1>1
<1>3. answer' \in [tok : Token, code : Outcomes]
  BY <1>1
<1>4. CurrentKeyAccepted'
  BY <1>2 DEF CurrentKeyAccepted
<1>5. RevokedKeysExpire'
  BY <1>2 DEF RevokedKeysExpire, issuer
<1> QED  BY <1>3, <1>4, <1>5

\* So is the answer of jwt.decode with a key that was lately served.
LEMMA RightDecode ==
  ASSUME TypeOK, NEW tok \in Token, Decode(tok), UNCHANGED <<issuer, now>>,
         \/ tok.alg # "asymmetric"
         \/ tok.kid \in published
         \/ withdrawn[tok.kid] # None /\ now - withdrawn[tok.kid] < Ttl
  PROVE  /\ answer' \in [tok : Token, code : Outcomes]
         /\ CurrentKeyAccepted' /\ RevokedKeysExpire'
<1>1. PICK code \in {200, 401, 500} : Answer(tok, code) /\ (code = 401 => ~tok.good)
  BY DEF Decode, Token
<1> QED  BY <1>1, RightAnswer DEF Outcomes

\* Without an answer there is nothing to be wrong about.
LEMMA NoAnswer ==
  ASSUME answer' = None
  PROVE  CurrentKeyAccepted' /\ RevokedKeysExpire'
  BY DEF CurrentKeyAccepted, RevokedKeysExpire

\* A fetch that begins now has no reply yet.
LEMMA FetchBegins ==
  ASSUME TypeOK, FetchInv, NEW tok \in Token, tok.alg = "asymmetric",
         NEW second \in BOOLEAN, Ask(tok, second), UNCHANGED <<issuer, now>>,
         lasting' \subseteq published
  PROVE  pending' \in Fetches /\ FetchInv' /\ answer' = None
<1>1. pending' = [tok |-> tok, started |-> now, reply |-> None, second |-> second]
  BY DEF Ask
<1>2. now \in Nat /\ now' = now /\ published' = published
  BY DEF TypeOK, issuer
<1>3. pending' \in Fetches
  BY <1>1, <1>2 DEF Fetches
<1>4. pending'.started = now /\ pending'.reply = None
  BY <1>1
<1>5. now - now <= MaxFetch
  BY <1>2, JwksAssumption
<1> QED  BY <1>2, <1>3, <1>4, <1>5 DEF FetchInv, Ask

\* A request without a fetch, or up to its first one.
LEMMA RequestRight ==
  ASSUME Right, NEW tok \in Token, GetCurrentUser(tok)
  PROVE  Right'
<1>1. /\ TypeOK /\ CacheInv /\ FetchInv /\ pending = None
      /\ tok.kid \in Kids /\ tok.good \in BOOLEAN
      /\ UNCHANGED <<issuer, now>> /\ lasting' = published
  BY DEF Right, IInv, GetCurrentUser, Token
<1>2. now' = now /\ published' = published /\ withdrawn' = withdrawn
  BY <1>1 DEF issuer
<1>3. lasting' \in SUBSET Kids /\ lasting' \subseteq published'
  BY <1>1, <1>2 DEF TypeOK
<1>4. CASE UNCHANGED <<cache, pending>>
  <2>1. keys' = keys /\ fetched' = fetched /\ pending' = None
    BY <1>1, <1>4 DEF cache
  <2>2. CacheInv' /\ FetchInv'
    BY <1>1, <1>2, <1>3, <2>1 DEF CacheInv, FetchInv, ServedSince
  <2>3. ASSUME NEW code \in Outcomes, Answer(tok, code), tok.alg # "asymmetric"
        PROVE  /\ answer' \in [tok : Token, code : Outcomes]
               /\ CurrentKeyAccepted' /\ RevokedKeysExpire'
    BY <1>1, <2>3, RightAnswer
  <2>4. /\ answer' \in [tok : Token, code : Outcomes]
        /\ CurrentKeyAccepted' /\ RevokedKeysExpire'
    <3>1. CASE Verify(tok)
      <4>1. CASE Usable /\ tok.kid \in keys /\ Decode(tok)
        <5>1. now - fetched < Ttl /\ ServedSince(tok.kid, fetched) /\ fetched \in Nat
          BY <1>1, <4>1 DEF Usable, CacheInv, TypeOK
        <5> QED  BY <1>1, <4>1, <5>1, LatelyServed, RightDecode
      <4>2. CASE Miss(tok) \/ Ask(tok, FALSE)
        <5>1. \E second \in BOOLEAN :
                pending' = [tok |-> tok, started |-> now, reply |-> None,
                            second |-> second]
          BY <4>2 DEF Miss, Ask
        <5>2. now \in Nat
          BY <1>1 DEF TypeOK
        <5>3. pending' \in Fetches
          BY <3>1, <5>1, <5>2 DEF Fetches, Verify
        <5> QED  BY <2>1, <5>3, NoToken
      <4> QED  BY <3>1, <4>1, <4>2 DEF Verify
    <3>2. CASE Other(tok)
      <4>1. CASE tok.alg = "HS256" /\ Decode(tok)
        BY <1>1, <4>1, RightDecode
      <4>2. CASE tok.alg # "asymmetric" /\ \E code \in Outcomes : Answer(tok, code)
        BY <2>3, <4>2
      <4> QED  BY <3>2, <4>1, <4>2 DEF Other, Outcomes
    <3> QED  BY <3>1, <3>2 DEF GetCurrentUser
  <2> QED  BY <1>1, <1>2, <1>3, <2>1, <2>2, <2>4 DEF Right, IInv, TypeOK
<1>5. CASE /\ tok.alg = "asymmetric"
           /\ \/ Miss(tok) /\ UNCHANGED fetched
              \/ Ask(tok, FALSE) /\ UNCHANGED cache
  <2>1. PICK second \in BOOLEAN : Ask(tok, second)
    BY <1>5 DEF Miss
  <2>2. pending' \in Fetches /\ FetchInv' /\ answer' = None
    BY <1>1, <1>2, <1>3, <1>5, <2>1, FetchBegins
  <2>3. keys' \in {None, keys} /\ fetched' = fetched
    BY <1>5 DEF Miss, cache
  <2>4. CacheInv'
    BY <1>1, <1>2, <2>3 DEF CacheInv, ServedSince
  <2> QED
    BY <1>1, <1>2, <1>3, <2>2, <2>3, <2>4, NoAnswer DEF Right, IInv, TypeOK
<1> QED  BY <1>4, <1>5 DEF GetCurrentUser, Verify, Other

\* What the reply holds is right to cache and to answer from.
LEMMA ReceiveRight ==
  ASSUME Right, Receive
  PROVE  Right'
<1>1. /\ TypeOK /\ CacheInv /\ FetchInv /\ pending # None /\ pending.reply # None
      /\ UNCHANGED <<issuer, now>> /\ lasting' = lasting
      /\ now' = now /\ published' = published /\ withdrawn' = withdrawn
  BY DEF Right, IInv, Receive, issuer
<1>2. /\ pending.tok \in Token /\ pending.tok.alg = "asymmetric" /\ pending.tok.kid \in Kids
      /\ pending.started \in Nat /\ pending.reply \in SUBSET Kids
  BY <1>1 DEF TypeOK, Fetches, Token
<1>3. /\ pending.started <= now /\ now - pending.started < Ttl
      /\ lasting \subseteq pending.reply
      /\ \A k \in pending.reply : ServedSince(k, pending.started)
  BY <1>1, <1>2, JwksAssumption DEF FetchInv, TypeOK
<1>4. lasting' \in SUBSET Kids /\ lasting' \subseteq published'
  BY <1>1 DEF TypeOK, FetchInv
<1>5. CASE /\ Fetched /\ pending' = None
           /\ \/ Found /\ Decode(pending.tok)
              \/ ~Found /\ Answer(pending.tok, 401)
  <2>1. keys' = pending.reply /\ fetched' = pending.started
    BY <1>5 DEF Fetched
  <2>2. CacheInv' /\ FetchInv'
    BY <1>1, <1>3, <1>4, <1>5, <2>1 DEF CacheInv, FetchInv, ServedSince
  <2>3. /\ answer' \in [tok : Token, code : Outcomes]
        /\ CurrentKeyAccepted' /\ RevokedKeysExpire'
    <3>1. CASE Found /\ Decode(pending.tok)
      <4>1. ServedSince(pending.tok.kid, pending.started)
        BY <1>3, <3>1 DEF Found
      <4>2. \/ pending.tok.kid \in published
            \/ withdrawn[pending.tok.kid] # None /\ now - withdrawn[pending.tok.kid] < Ttl
        BY <1>1, <1>2, <1>3, <4>1, LatelyServed
      <4> QED  BY <1>1, <1>2, <3>1, <4>2, RightDecode
    <3>2. CASE ~Found /\ Answer(pending.tok, 401)
      <4>1. pending.tok.kid \notin lasting'
        BY <1>1, <1>3, <3>2 DEF Found
      <4> QED  BY <1>1, <1>2, <3>2, <4>1, RightAnswer DEF Outcomes
    <3> QED  BY <1>5, <3>1, <3>2
  <2> QED
    BY <1>1, <1>2, <1>4, <1>5, <2>1, <2>2, <2>3 DEF Right, IInv, TypeOK
<1>6. CASE Miss(pending.tok) /\ fetched' = pending.started
  <2>1. pending' \in Fetches /\ FetchInv' /\ answer' = None
    BY <1>1, <1>2, <1>4, <1>6, FetchBegins DEF Miss
  <2>2. CacheInv'
    BY <1>1, <1>3, <1>6 DEF CacheInv, Miss
  <2>3. keys' = None /\ fetched' \in Nat
    BY <1>2, <1>6 DEF Miss
  <2>4. TypeOK'
    BY <1>1, <1>4, <2>1, <2>3 DEF TypeOK
  <2> QED
    BY <2>1, <2>2, <2>4, NoAnswer DEF Right, IInv
<1> QED  BY <1>5, <1>6 DEF Receive

\* A fetch that fails leaves the cache alone.
LEMMA FailRight ==
  ASSUME Right, FetchFails
  PROVE  Right'
<1>1. /\ TypeOK /\ CacheInv /\ FetchInv /\ pending \in Fetches
      /\ UNCHANGED <<issuer, now>> /\ lasting' = lasting
      /\ keys' = keys /\ fetched' = fetched /\ pending' = None
      /\ now' = now /\ published' = published /\ withdrawn' = withdrawn
  BY DEF Right, IInv, FetchFails, issuer, cache, TypeOK
<1>2. PICK code \in {503, 500} : Answer(pending.tok, code)
  BY DEF FetchFails
<1>3. pending.tok \in Token
  BY <1>1 DEF Fetches
<1>4. /\ answer' \in [tok : Token, code : Outcomes]
      /\ CurrentKeyAccepted' /\ RevokedKeysExpire'
  BY <1>1, <1>2, <1>3, RightAnswer DEF Outcomes
<1>5. CacheInv' /\ FetchInv'
  BY <1>1 DEF CacheInv, FetchInv, ServedSince
<1> QED  BY <1>1, <1>4, <1>5 DEF Right, IInv, TypeOK

\* The reply that is made now holds what has been served all the time.
LEMMA ServeRight ==
  ASSUME Right, Serve
  PROVE  Right'
<1>1. /\ TypeOK /\ CacheInv /\ FetchInv /\ pending \in Fetches /\ pending # None
      /\ lasting' = lasting /\ keys' = keys /\ fetched' = fetched
      /\ now' = now /\ published' = published /\ withdrawn' = withdrawn
      /\ pending' = [pending EXCEPT !.reply = published] /\ answer' = None
  BY DEF Right, IInv, Serve, issuer, cache, TypeOK
<1>2. pending' \in Fetches
  BY <1>1 DEF Fetches, TypeOK
<1>3. pending'.reply = published /\ pending'.started = pending.started
  BY <1>1 DEF Fetches
<1>4. CacheInv' /\ FetchInv'
  BY <1>1, <1>3 DEF CacheInv, FetchInv, ServedSince
<1> QED  BY <1>1, <1>2, <1>4, NoAnswer DEF Right, IInv, TypeOK

\* The issuer and the clock give no answer, and a key withdrawn now was served
\* when the cache was filled and when the fetch began.
LEMMA IssuerRight ==
  ASSUME Right, Tick \/ \E k \in Kids : Publish(k) \/ Withdraw(k)
  PROVE  Right'
<1>1. /\ TypeOK /\ CacheInv /\ FetchInv /\ answer' = None
      /\ keys' = keys /\ fetched' = fetched /\ pending' = pending
  BY DEF Right, IInv, Publish, Withdraw, Tick, cache
<1>2. pending # None => pending.started \in Nat /\ pending.reply \in {None} \cup SUBSET Kids
  BY <1>1 DEF TypeOK, Fetches
<1>3. CASE Tick
  <2>1. CacheInv' /\ FetchInv' /\ TypeOK'
    BY <1>1, <1>2, <1>3, JwksAssumption
       DEF CacheInv, FetchInv, ServedSince, TypeOK, Tick, issuer
  <2> QED  BY <1>1, <2>1, NoAnswer DEF Right, IInv
<1>4. ASSUME NEW k \in Kids, Publish(k) PROVE Right'
  <2>1. CacheInv' /\ FetchInv' /\ TypeOK'
    BY <1>1, <1>4 DEF CacheInv, FetchInv, ServedSince, TypeOK, Publish
  <2> QED  BY <1>1, <2>1, NoAnswer DEF Right, IInv
<1>5. ASSUME NEW k \in Kids, Withdraw(k) PROVE Right'
  <2>1. TypeOK'
    BY <1>1, <1>5 DEF TypeOK, Withdraw
  <2>2. ASSUME NEW j \in Kids, NEW n \in Nat, n <= now, ServedSince(j, n)
        PROVE  ServedSince(j, n)'
    BY <1>1, <1>5, <2>2, JwksAssumption DEF ServedSince, TypeOK, Withdraw
  <2>3. CacheInv'
    BY <1>1, <1>5, <2>2 DEF CacheInv, TypeOK, Withdraw
  <2>4. lasting' \subseteq published' /\ lasting' \subseteq lasting /\ now' = now
    BY <1>1, <1>5 DEF Withdraw, FetchInv
  <2>5. FetchInv'
    BY <1>1, <1>2, <2>2, <2>4 DEF FetchInv
  <2> QED  BY <1>1, <2>1, <2>3, <2>5, NoAnswer DEF Right, IInv
<1> QED  BY <1>3, <1>4, <1>5

LEMMA NextRight == Right /\ [Next]_vars => Right'
<1> SUFFICES ASSUME Right, [Next]_vars PROVE Right'
  OBVIOUS
<1>1. CASE UNCHANGED vars
  BY <1>1 DEF vars, issuer, cache, Right, IInv, TypeOK, CacheInv, FetchInv,
              ServedSince, CurrentKeyAccepted, RevokedKeysExpire
<1> QED
  BY <1>1, RequestRight, ReceiveRight, FailRight, ServeRight, IssuerRight DEF Next

LEMMA AlwaysRight == Spec => []Right
<1> QED  BY InitRight, NextRight, PTL DEF Spec

\* The cache and a reply hold keys that were served when the fetch began, or
\* later, and a reply every key that is served all along.
THEOREM CacheInvariance == Spec => []IInv
<1>1. Right => IInv
  BY DEF Right
<1> QED  BY <1>1, AlwaysRight, PTL

\* Nobody whose key is served throughout the request is turned away as
\* unauthorized.
THEOREM RotationIsSeen == Spec => []CurrentKeyAccepted
<1>1. Right => CurrentKeyAccepted
  BY DEF Right
<1> QED  BY <1>1, AlwaysRight, PTL

\* A withdrawn key is accepted for less than the lifetime of the cache.
THEOREM RevocationIsSeen == Spec => []RevokedKeysExpire
<1>1. Right => RevokedKeysExpire
  BY DEF Right
<1> QED  BY <1>1, AlwaysRight, PTL
=============================================================================
