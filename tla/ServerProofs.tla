---------------------------- MODULE ServerProofs ----------------------------
(***************************************************************************)
(* Proofs about Server, for any number of browsers, answers on their way,  *)
(* URLs and users, batches and tokens of any length, with lost answers and *)
(* a store that may fail.                                                  *)
(***************************************************************************)
EXTENDS Server, ShortenerProofs

-----------------------------------------------------------------------------
(***************************************************************************)
(* Records and short URLs.                                                 *)
(***************************************************************************)
LEMMA Records ==
    /\ \A rec \in URLRecords :
        /\ Tombstone(rec) \in URLRecords /\ rec # Absent /\ Tombstone(rec) # Absent
        /\ Tombstone(rec).isDeleted /\ Tombstone(rec).userID = rec.userID
        /\ Tombstone(rec).originalURL = rec.originalURL
    /\ \A url \in OriginalURLs, u \in UserIDs :
        [originalURL |-> url, userID |-> u, isDeleted |-> FALSE] \in URLRecords
<1>1. \A rec \in URLRecords :
        /\ Tombstone(rec) \in URLRecords
        /\ Tombstone(rec).isDeleted /\ Tombstone(rec).userID = rec.userID
        /\ Tombstone(rec).originalURL = rec.originalURL
  BY DEF URLRecords, Tombstone
<1>2. \A rec \in URLRecords : rec # Absent /\ Tombstone(rec) # Absent
  BY <1>1, RecordsArePresent
<1>3. \A url \in OriginalURLs, u \in UserIDs :
        [originalURL |-> url, userID |-> u, isDeleted |-> FALSE] \in URLRecords
  BY DEF URLRecords
<1> QED
  BY <1>1, <1>2, <1>3

LEMMA DifferentIDs ==
    /\ \A id \in IDs : Shorten(id) \in ShortURLs
    /\ \A a, b \in IDs : Shorten(a) = Shorten(b) => a = b
BY NumbersAreNat, ShortURLsDiffer DEF ShortURLs

\* The short URLs of the store are those of the numbers drawn.
StoreTyped ==
    /\ urls \in URLMaps
    /\ drawn \subseteq IDs
    /\ Bound(urls) = {Shorten(id) : id \in drawn}
    /\ \A s \in ShortURLs : maker[s] \in Browsers <=> s \in Bound(urls)

\* Nothing in the store is lost or changes hands; what is new in it is made by b,
\* for the user u.
Grows(b, u) ==
    /\ StoreTyped'
    /\ \A s \in Bound(urls) : /\ s \in Bound(urls') /\ maker'[s] = maker[s]
                              /\ urls'[s].userID = urls[s].userID
    /\ \A s \in Bound(urls') : s \notin Bound(urls) => maker'[s] = b /\ urls'[s].userID = u

\* A batch and the numbers drawn for it.
Drawn(batch, ids) ==
    /\ \A k \in DOMAIN ids : ids[k] \in IDs \ drawn /\ batch[k] \in OriginalURLs
    /\ \A k, l \in DOMAIN ids : ids[k] = ids[l] => k = l

LEMMA StoresGrow ==
    ASSUME StoreTyped, NEW b \in Browsers, NEW user, user.ID \in UserIDs,
           NEW batch, NEW ids, Drawn(batch, ids), Stores(b, user, ids, batch)
    PROVE  /\ Grows(b, user.ID)
           /\ \A k \in DOMAIN ids :
                /\ Shorten(ids[k]) \in Bound(urls')
                /\ maker'[Shorten(ids[k])] = b
                /\ urls'[Shorten(ids[k])] =
                    [originalURL |-> batch[k], userID |-> user.ID, isDeleted |-> FALSE]
<1> DEFINE row(k) == [originalURL |-> batch[k], userID |-> user.ID, isDeleted |-> FALSE]
           rows == [s \in ShortURLs |->
                      IF \E k \in DOMAIN ids : Shorten(ids[k]) = s
                      THEN row(CHOOSE k \in DOMAIN ids : Shorten(ids[k]) = s)
                      ELSE Absent]
<1>1. /\ urls' = Updated(urls, rows)
      /\ drawn' = drawn \cup Range(ids)
      /\ maker' = [s \in ShortURLs |-> IF rows[s] = Absent THEN maker[s] ELSE b]
  BY DEF Stores
<1>2. \A k \in DOMAIN ids : row(k) \in URLRecords /\ row(k) # Absent
  BY Records DEF Drawn
<1>3. \A k : row(k).userID = user.ID
  OBVIOUS
<1>4. ASSUME NEW k \in DOMAIN ids
      PROVE  Shorten(ids[k]) \in ShortURLs /\ rows[Shorten(ids[k])] = row(k)
  <2>1. Shorten(ids[k]) \in ShortURLs
    BY DifferentIDs DEF Drawn
  <2>2. \A l \in DOMAIN ids : Shorten(ids[l]) = Shorten(ids[k]) => l = k
    BY DifferentIDs DEF Drawn
  <2>3. (CHOOSE l \in DOMAIN ids : Shorten(ids[l]) = Shorten(ids[k])) = k
    BY <2>2
  <2> QED
    BY <2>1, <2>3
<1>5. \A s \in ShortURLs : (~ \E k \in DOMAIN ids : Shorten(ids[k]) = s) => rows[s] = Absent
  OBVIOUS
<1> HIDE DEF rows, row
<1>6. \A s \in ShortURLs : rows[s] = Absent \/ \E k \in DOMAIN ids : s = Shorten(ids[k]) /\ rows[s] = row(k)
  BY <1>4, <1>5
<1>7. \A s \in ShortURLs : urls'[s] = IF rows[s] = Absent THEN urls[s] ELSE rows[s]
  BY <1>1 DEF Updated
<1>8. urls' \in URLMaps
  BY <1>1, <1>2, <1>6, <1>7 DEF Updated, URLMaps, StoreTyped
<1>9. drawn' \subseteq IDs /\ drawn' = drawn \cup {ids[k] : k \in DOMAIN ids}
  BY <1>1 DEF Range, Drawn, StoreTyped
<1>10. \A k \in DOMAIN ids : Shorten(ids[k]) \notin Bound(urls)
  BY DifferentIDs DEF StoreTyped, Drawn
<1>11. \A s \in ShortURLs : s \in Bound(urls') <=> s \in Bound(urls) \/ \E k \in DOMAIN ids : s = Shorten(ids[k])
  BY <1>2, <1>4, <1>6, <1>7 DEF Bound
<1>12. Bound(urls') = {Shorten(id) : id \in drawn'}
  <2>1. \A s : s \in Bound(urls') => s \in {Shorten(id) : id \in drawn'}
    BY <1>9, <1>11 DEF Bound, StoreTyped
  <2>2. \A id \in drawn' : Shorten(id) \in Bound(urls')
    BY <1>9, <1>11, DifferentIDs DEF StoreTyped
  <2> QED
    BY <2>1, <2>2
<1>13. \A s \in ShortURLs : maker'[s] = IF rows[s] = Absent THEN maker[s] ELSE b
  BY <1>1
<1>14. ASSUME NEW s \in ShortURLs
       PROVE  maker'[s] \in Browsers <=> s \in Bound(urls')
  BY <1>2, <1>4, <1>6, <1>11, <1>13 DEF StoreTyped
<1>15. ASSUME NEW s \in Bound(urls)
       PROVE  s \in Bound(urls') /\ urls'[s] = urls[s] /\ maker'[s] = maker[s]
  <2>1. s \in ShortURLs /\ rows[s] = Absent
    BY <1>6, <1>10 DEF Bound
  <2> QED
    BY <1>7, <1>11, <1>13, <2>1
<1>16. ASSUME NEW k \in DOMAIN ids
       PROVE  /\ Shorten(ids[k]) \in Bound(urls') /\ maker'[Shorten(ids[k])] = b
              /\ urls'[Shorten(ids[k])] = row(k)
  BY <1>2, <1>4, <1>7, <1>11, <1>13
<1>17. ASSUME NEW s \in Bound(urls'), s \notin Bound(urls)
       PROVE  maker'[s] = b /\ urls'[s].userID = user.ID
  <2>1. PICK k \in DOMAIN ids : s = Shorten(ids[k])
    BY <1>11, <1>17 DEF Bound
  <2> QED
    BY <1>3, <1>16, <2>1
<1> QED
  BY <1>8, <1>9, <1>12, <1>14, <1>15, <1>16, <1>17 DEF Grows, StoreTyped, row

-----------------------------------------------------------------------------
(***************************************************************************)
(* The inductive invariant.  What a browser has made, holds, is about to   *)
(* get or has asked for ties it to user IDs: no two browsers to the same.  *)
(***************************************************************************)
\* What ties a browser to a user ID: a cookie it holds, one on its way, a short
\* URL it has made, a deletion it has asked for.
Knows(b, u) ==
    \/ jar[b] # Nothing /\ jar[b].userID = u
    \/ \E d \in inFlight : d.browser = b /\ d.cookie # Nothing /\ d.cookie.userID = u
    \/ \E s \in Bound(urls) : maker[s] = b /\ urls[s].userID = u
    \/ \E r \in removals : r.browser = b /\ r.userID = u

\* A user ID that somebody knows is used, and known to one browser.
IdentitiesAreOwn ==
    \A b \in Browsers, u \in UserIDs : Knows(b, u) =>
        expires[u] # 0 /\ \A c \in Browsers : Knows(c, u) => c = b

\* A cookie says when the token of its user ID expires.
CookiesAreIssued ==
    /\ \A b \in Browsers : jar[b] # Nothing => jar[b].expires = expires[jar[b].userID]
    /\ \A d \in inFlight : d.cookie # Nothing => d.cookie.expires = expires[d.cookie.userID]

\* What an answer on its way says was created was, for the browser it goes to.
CreationsAreTrue ==
    \A d \in inFlight : \A s \in d.creates : s \in Bound(urls) /\ maker[s] = d.browser

\* Who has waited for his answers has one of them on its way.
OneAnswerEach ==
    \A d, e \in inFlight : d.browser = e.browser /\ d.browser \notin raced => d = e

\* The cookie a browser has once an answer has arrived.
CookieAfter(d) == IF d.cookie = Nothing THEN jar[d.browser] ELSE d.cookie

\* An answer brings a cookie if the browser has no valid one, and what it says was
\* created is the user's whose cookie the browser will have then.
AnswersBringIdentity ==
    \A d \in inFlight : d.browser \notin raced =>
        /\ d.cookie # Nothing =>
            jar[d.browser] = Nothing \/ jar[d.browser].expires <= now
        /\ \A s \in d.creates :
            CookieAfter(d) # Nothing /\ CookieAfter(d).userID = urls[s].userID

\* Who has waited for his answers has the identity that what he was told of was
\* created with, until it expires.
IdentitiesAreKept ==
    \A s \in told :
        \/ maker[s] \in raced
        \/ expires[urls[s].userID] <= now
        \/ jar[maker[s]] # Nothing /\ jar[maker[s]].userID = urls[s].userID

HistoryInv == /\ IdentitiesAreOwn /\ CookiesAreIssued /\ CreationsAreTrue /\ OneAnswerEach
              /\ AnswersBringIdentity /\ IdentitiesAreKept

SayablePairs == [ShortURL : ShortURLs, OriginalURL : OriginalURLs \cup Locations \cup {NoURL}]

\* TypeOK, and what it says of the last answer.
AnswerTyped ==
    answer # Nothing =>
        /\ answer.browser \in Browsers
        /\ answer.status \in {200, 201, 202, 204, 307, 400, 401, 403, 404, 409, 410, 500}
        /\ answer.says \subseteq SayablePairs

StateTyped ==
    /\ StoreTyped
    /\ removals \subseteq [key : Bound(urls), userID : UserIDs, browser : Browsers]
    /\ expires \in [UserIDs -> 0..(MaxTime + TokenExp)]
    /\ now \in 0..MaxTime
    /\ jar \in [Browsers -> Cookies \cup {Nothing}]
    /\ inFlight \subseteq Deliveries
    /\ told \subseteq Bound(urls)
    /\ raced \subseteq Browsers

LEMMA TypeParts == TypeOK <=> StateTyped /\ AnswerTyped
BY DEF TypeOK, StateTyped, StoreTyped, AnswerTyped, SayablePairs

\* Who asks: a user ID never used, or the one in the browser's valid cookie.
LEMMA Requesters ==
    ASSUME StateTyped, NEW b \in Browsers, NEW user \in createOrGetUserID(b)
    PROVE  /\ user.ID \in UserIDs /\ user.IsNew \in BOOLEAN
           /\ user.IsNew => expires[user.ID] = 0 /\ ~HasValidToken(b)
           /\ ~user.IsNew => HasValidToken(b) /\ user.ID = jar[b].userID
<1>1. CASE HasValidToken(b)
  <2>1. user = [ID |-> jar[b].userID, IsNew |-> FALSE] /\ jar[b] \in Cookies
    BY <1>1 DEF createOrGetUserID, HasValidToken, StateTyped
  <2> QED
    BY <1>1, <2>1 DEF Cookies
<1>2. CASE ~HasValidToken(b)
  <2>1. PICK u \in UserIDs : expires[u] = 0 /\ user = [ID |-> u, IsNew |-> TRUE]
    BY <1>2 DEF createOrGetUserID, NewUsers
  <2> QED
    BY <1>2, <2>1
<1> QED
  BY <1>1, <1>2

-----------------------------------------------------------------------------
(***************************************************************************)
(* Any request behind the Auth middleware keeps the invariant, if what it  *)
(* adds to the store and to the deletions is the user's.                   *)
(***************************************************************************)
LEMMA RequestsKeepHistory ==
    ASSUME StateTyped, HistoryInv,
           NEW b \in Browsers, NEW user \in createOrGetUserID(b),
           NEW status, NEW says, NEW failed, RespondTo(b, user, status, says, failed),
           Grows(b, user.ID),
           status = 201 => \A pair \in says : /\ pair.ShortURL \in Bound(urls')
                                              /\ maker'[pair.ShortURL] = b
                                              /\ urls'[pair.ShortURL].userID = user.ID,
           removals' \subseteq removals \cup
                [key : Bound(urls), userID : {user.ID}, browser : {b}]
    PROVE  StateTyped' /\ HistoryInv'
<1> DEFINE u == user.ID
           until == now + TokenExp
           ck == IF user.IsNew THEN [userID |-> u, expires |-> until] ELSE Nothing
           cr == IF status = 201 THEN {pair.ShortURL : pair \in says} ELSE {}
           d0 == [browser |-> b, cookie |-> ck, creates |-> cr]
<1>1. /\ u \in UserIDs /\ user.IsNew \in BOOLEAN
      /\ user.IsNew => expires[u] = 0 /\ ~HasValidToken(b)
      /\ ~user.IsNew => HasValidToken(b) /\ u = jar[b].userID
  BY Requesters
<1>2. until \in 1..(MaxTime + TokenExp) /\ until > now /\ now \in Nat
  BY NumbersAreNat DEF StateTyped
<1>3. expires' = IF user.IsNew THEN [expires EXCEPT ![u] = until] ELSE expires
  BY DEF RespondTo
<1>4. \A v \in UserIDs : expires'[v] = IF user.IsNew /\ v = u THEN until ELSE expires[v]
  BY <1>1, <1>3 DEF StateTyped
<1>5. expires' \in [UserIDs -> 0..(MaxTime + TokenExp)]
  BY <1>1, <1>2, <1>3 DEF StateTyped
<1>6. inFlight' = inFlight \/ inFlight' = inFlight \cup {d0}
  BY DEF RespondTo, Respond
<1>7. raced' = IF \E d \in inFlight : d.browser = b THEN raced \cup {b} ELSE raced
  BY DEF RespondTo, Respond
<1>8. now' = now /\ jar' = jar /\ told' = told
  BY DEF RespondTo, Respond
<1>9. /\ user.IsNew => ck # Nothing /\ ck.userID = u /\ ck.expires = until /\ ck \in Cookies
      /\ ~user.IsNew => ck = Nothing
  BY <1>1, <1>2, NothingIsNothing DEF Cookies
<1>10. \A s \in cr : s \in Bound(urls') /\ maker'[s] = b /\ urls'[s].userID = u
  OBVIOUS
<1>11. cr \subseteq ShortURLs
  BY <1>10 DEF Bound
<1>12. d0.browser = b /\ d0.cookie = ck /\ d0.creates = cr /\ d0 \in Deliveries
  BY <1>9, <1>11 DEF Deliveries
<1> HIDE DEF d0, cr, ck, until
<1>13. \A d \in inFlight' : d \in inFlight \/ d = d0
  BY <1>6
<1>14. StateTyped'
  <2>1. removals' \subseteq [key : Bound(urls'), userID : UserIDs, browser : Browsers]
    <3> SUFFICES ASSUME NEW r \in removals'
                 PROVE  r \in [key : Bound(urls'), userID : UserIDs, browser : Browsers]
      OBVIOUS
    <3>1. r \in [key : Bound(urls), userID : UserIDs, browser : Browsers]
      BY <1>1 DEF StateTyped
    <3> QED
      BY <3>1 DEF Grows
  <2>2. inFlight' \subseteq Deliveries /\ told' \subseteq Bound(urls') /\ raced' \subseteq Browsers
    BY <1>6, <1>7, <1>8, <1>12 DEF StateTyped, Grows
  <2> QED
    BY <1>5, <1>8, <2>1, <2>2 DEF StateTyped, Grows
<1>15. \A c \in Browsers, v \in UserIDs : Knows(c, v)' => Knows(c, v) \/ (c = b /\ v = u)
  <2> SUFFICES ASSUME NEW c \in Browsers, NEW v \in UserIDs, Knows(c, v)'
               PROVE  Knows(c, v) \/ (c = b /\ v = u)
    OBVIOUS
  <2>1. CASE jar'[c] # Nothing /\ jar'[c].userID = v
    BY <1>8, <2>1 DEF Knows
  <2>2. CASE \E d \in inFlight' : d.browser = c /\ d.cookie # Nothing /\ d.cookie.userID = v
    BY <1>9, <1>12, <1>13, <1>1, <2>2 DEF Knows
  <2>3. CASE \E s \in Bound(urls') : maker'[s] = c /\ urls'[s].userID = v
    BY <2>3 DEF Knows, Grows
  <2>4. CASE \E r \in removals' : r.browser = c /\ r.userID = v
    BY <2>4 DEF Knows
  <2> QED
    BY <2>1, <2>2, <2>3, <2>4 DEF Knows
<1>16. ~user.IsNew => Knows(b, u)
  BY <1>1 DEF Knows, HasValidToken
<1>17. user.IsNew => \A c \in Browsers : ~Knows(c, u)
  BY <1>1 DEF HistoryInv, IdentitiesAreOwn
<1>18. \A c \in Browsers : Knows(c, u) => c = b
  BY <1>1, <1>16, <1>17 DEF HistoryInv, IdentitiesAreOwn
<1>19. IdentitiesAreOwn'
  <2> SUFFICES ASSUME NEW c \in Browsers, NEW v \in UserIDs, Knows(c, v)'
               PROVE  expires'[v] # 0 /\ \A e \in Browsers : Knows(e, v)' => e = c
    BY DEF IdentitiesAreOwn
  <2>1. CASE v = u
    <3>1. expires'[v] # 0
      BY <1>1, <1>2, <1>4, <1>16, <2>1 DEF HistoryInv, IdentitiesAreOwn
    <3> QED
      BY <1>15, <1>18, <2>1, <3>1
  <2>2. CASE v # u
    BY <1>4, <1>15, <2>2 DEF HistoryInv, IdentitiesAreOwn
  <2> QED
    BY <2>1, <2>2
<1>20. \A c \in Browsers, v \in UserIDs : Knows(c, v) => expires'[v] = expires[v]
  BY <1>4, <1>17
<1>21. CookiesAreIssued'
  <2>1. ASSUME NEW c \in Browsers, jar'[c] # Nothing
        PROVE  jar'[c].expires = expires'[jar'[c].userID]
    <3>1. jar[c] \in Cookies /\ jar[c].userID \in UserIDs /\ jar[c].expires = expires[jar[c].userID]
      BY <1>8, <2>1 DEF StateTyped, HistoryInv, CookiesAreIssued, Cookies
    <3>2. Knows(c, jar[c].userID)
      BY <1>8, <2>1 DEF Knows
    <3> QED
      BY <1>8, <1>20, <3>1, <3>2
  <2>2. ASSUME NEW d \in inFlight', d.cookie # Nothing
        PROVE  d.cookie.expires = expires'[d.cookie.userID]
    <3>1. CASE d = d0
      BY <1>1, <1>4, <1>9, <1>12, <2>2, <3>1
    <3>2. CASE d \in inFlight
      <4>1. d.browser \in Browsers /\ d.cookie.userID \in UserIDs
        BY <2>2, <3>2 DEF StateTyped, Deliveries, Cookies
      <4>2. Knows(d.browser, d.cookie.userID)
        BY <2>2, <3>2 DEF Knows
      <4> QED
        BY <1>20, <2>2, <3>2, <4>1, <4>2 DEF HistoryInv, CookiesAreIssued
    <3> QED
      BY <1>13, <3>1, <3>2
  <2> QED
    BY <2>1, <2>2 DEF CookiesAreIssued
<1>22. CreationsAreTrue'
  BY <1>10, <1>12, <1>13 DEF CreationsAreTrue, HistoryInv, Grows
<1>23. OneAnswerEach'
  BY <1>7, <1>12, <1>13 DEF OneAnswerEach, HistoryInv
<1>24. AnswersBringIdentity'
  <2> SUFFICES ASSUME NEW d \in inFlight', d.browser \notin raced'
               PROVE  /\ d.cookie # Nothing => jar'[d.browser] = Nothing \/ jar'[d.browser].expires <= now'
                      /\ \A s \in d.creates : /\ CookieAfter(d)' # Nothing
                                              /\ CookieAfter(d)'.userID = urls'[s].userID
    BY DEF AnswersBringIdentity
  <2>1. CASE d = d0
    <3>1. d.cookie # Nothing => jar'[d.browser] = Nothing \/ jar'[d.browser].expires <= now'
      <4>1. jar[b] # Nothing => jar[b].expires \in Nat
        BY DEF StateTyped, Cookies
      <4> QED
        BY <1>1, <1>2, <1>8, <1>9, <1>12, <2>1, <4>1 DEF HasValidToken
    <3>2. CookieAfter(d)' # Nothing /\ CookieAfter(d)'.userID = u
      BY <1>1, <1>8, <1>9, <1>12, <2>1 DEF CookieAfter, HasValidToken
    <3> QED
      BY <1>10, <1>12, <2>1, <3>1, <3>2
  <2>2. CASE d \in inFlight
    <3>1. d.browser \notin raced
      BY <1>7
    <3>2. CookieAfter(d)' = CookieAfter(d)
      BY <1>8 DEF CookieAfter
    <3>3. \A s \in d.creates : urls'[s].userID = urls[s].userID
      BY <2>2 DEF HistoryInv, CreationsAreTrue, Grows
    <3> QED
      BY <1>8, <2>2, <3>1, <3>2, <3>3 DEF HistoryInv, AnswersBringIdentity
  <2> QED
    BY <1>13, <2>1, <2>2
<1>25. IdentitiesAreKept'
  <2> SUFFICES ASSUME NEW s \in told
               PROVE  \/ maker'[s] \in raced'
                      \/ expires'[urls'[s].userID] <= now
                      \/ jar[maker'[s]] # Nothing /\ jar[maker'[s]].userID = urls'[s].userID
    BY <1>8 DEF IdentitiesAreKept
  <2>1. s \in Bound(urls) /\ s \in ShortURLs /\ maker'[s] = maker[s] /\ urls'[s].userID = urls[s].userID
    BY DEF StateTyped, Grows, Bound
  <2>2. maker[s] \in Browsers /\ urls[s].userID \in UserIDs
    BY <2>1 DEF StateTyped, StoreTyped, Bound, URLMaps, URLRecords
  <2>3. expires'[urls[s].userID] = expires[urls[s].userID]
    <3>1. Knows(maker[s], urls[s].userID)
      BY <2>1 DEF Knows
    <3> QED
      BY <1>20, <2>2, <3>1
  <2> QED
    BY <1>7, <2>1, <2>3 DEF HistoryInv, IdentitiesAreKept
<1> QED
  BY <1>14, <1>19, <1>21, <1>22, <1>23, <1>24, <1>25 DEF HistoryInv

\* Steps that add nothing: requests nobody is authenticated for, answers that are
\* lost, the clock, the remover.
LEMMA QuietStepsKeepHistory ==
    ASSUME StateTyped, HistoryInv, StoreTyped', Bound(urls') = Bound(urls), maker' = maker,
           \A s \in Bound(urls) : urls'[s].userID = urls[s].userID,
           removals' \subseteq removals, expires' = expires, jar' = jar, told' = told,
           inFlight' \subseteq inFlight, raced \subseteq raced', raced' \subseteq Browsers,
           now' \in now..MaxTime
    PROVE  StateTyped' /\ HistoryInv'
<1>1. now \in Nat /\ now' \in Nat /\ now <= now' /\ now' \in 0..MaxTime
  BY NumbersAreNat DEF StateTyped
<1>2. StateTyped'
  BY <1>1 DEF StateTyped
<1>3. \A c \in Browsers, v \in UserIDs : Knows(c, v)' => Knows(c, v)
  <2> SUFFICES ASSUME NEW c \in Browsers, NEW v \in UserIDs, Knows(c, v)'
               PROVE  Knows(c, v)
    OBVIOUS
  <2>1. CASE jar'[c] # Nothing /\ jar'[c].userID = v
    BY <2>1 DEF Knows
  <2>2. CASE \E d \in inFlight' : d.browser = c /\ d.cookie # Nothing /\ d.cookie.userID = v
    BY <2>2 DEF Knows
  <2>3. CASE \E s \in Bound(urls') : maker'[s] = c /\ urls'[s].userID = v
    BY <2>3 DEF Knows
  <2>4. CASE \E r \in removals' : r.browser = c /\ r.userID = v
    BY <2>4 DEF Knows
  <2> QED
    BY <2>1, <2>2, <2>3, <2>4 DEF Knows
<1>4. IdentitiesAreOwn'
  BY <1>3 DEF HistoryInv, IdentitiesAreOwn
<1>5. CookiesAreIssued' /\ CreationsAreTrue' /\ OneAnswerEach'
  BY DEF HistoryInv, CookiesAreIssued, CreationsAreTrue, OneAnswerEach
<1>6. AnswersBringIdentity'
  <2> SUFFICES ASSUME NEW d \in inFlight', d.browser \notin raced'
               PROVE  /\ d.cookie # Nothing => jar[d.browser] = Nothing \/ jar[d.browser].expires <= now'
                      /\ \A s \in d.creates : /\ CookieAfter(d)' # Nothing
                                              /\ CookieAfter(d)'.userID = urls'[s].userID
    BY DEF AnswersBringIdentity
  <2>1. d \in inFlight /\ d.browser \notin raced /\ d.browser \in Browsers
    BY DEF StateTyped, Deliveries
  <2>2. CookieAfter(d)' = CookieAfter(d)
    BY DEF CookieAfter
  <2>3. jar[d.browser] # Nothing => jar[d.browser].expires \in Nat
    BY <2>1 DEF StateTyped, Cookies
  <2>4. \A s \in d.creates : urls'[s].userID = urls[s].userID
    BY <2>1 DEF HistoryInv, CreationsAreTrue
  <2> QED
    BY <1>1, <2>1, <2>2, <2>3, <2>4 DEF HistoryInv, AnswersBringIdentity
<1>7. IdentitiesAreKept'
  <2> SUFFICES ASSUME NEW s \in told
               PROVE  \/ maker[s] \in raced'
                      \/ expires[urls[s].userID] <= now'
                      \/ jar[maker[s]] # Nothing /\ jar[maker[s]].userID = urls[s].userID
    BY DEF IdentitiesAreKept, StateTyped
  <2>1. s \in ShortURLs /\ s \in Bound(urls)
    BY DEF StateTyped, Bound
  <2>2. expires[urls[s].userID] \in Nat
    BY <2>1 DEF StateTyped, StoreTyped, Bound, URLMaps, URLRecords
  <2> QED
    BY <1>1, <2>2 DEF HistoryInv, IdentitiesAreKept
<1> QED
  BY <1>2, <1>4, <1>5, <1>6, <1>7 DEF HistoryInv

\* An answer arrives: it brings what its browser needs to find what it has made.
LEMMA ReceiveKeepsHistory ==
    ASSUME StateTyped, HistoryInv, Receive
    PROVE  StateTyped' /\ HistoryInv'
<1>1. PICK d \in inFlight :
        /\ jar' = IF d.cookie = Nothing THEN jar ELSE [jar EXCEPT ![d.browser] = d.cookie]
        /\ told' = told \cup d.creates
        /\ inFlight' = inFlight \ {d}
  BY DEF Receive
<1>2. /\ UNCHANGED <<urls, drawn, maker, removals, expires, now, raced>>
      /\ Bound(urls') = Bound(urls)
  BY DEF Receive, store
<1>3. d.browser \in Browsers /\ d.cookie \in Cookies \cup {Nothing} /\ d.creates \subseteq ShortURLs
  BY DEF StateTyped, Deliveries
<1>4. \A c \in Browsers : jar'[c] = IF c = d.browser THEN CookieAfter(d) ELSE jar[c]
  BY <1>1, <1>3 DEF CookieAfter, StateTyped
<1>5. \A s \in d.creates : s \in Bound(urls) /\ maker[s] = d.browser
  BY DEF HistoryInv, CreationsAreTrue
<1>6. StateTyped'
  <2>1. StoreTyped' /\ told' \subseteq Bound(urls') /\ inFlight' \subseteq Deliveries
    BY <1>1, <1>2, <1>5 DEF StateTyped, StoreTyped
  <2>2. jar' \in [Browsers -> Cookies \cup {Nothing}]
    BY <1>1, <1>3 DEF StateTyped
  <2> QED
    BY <1>2, <2>1, <2>2 DEF StateTyped
<1>7. \A c \in Browsers, v \in UserIDs : Knows(c, v)' => Knows(c, v)
  <2> SUFFICES ASSUME NEW c \in Browsers, NEW v \in UserIDs, Knows(c, v)'
               PROVE  Knows(c, v)
    OBVIOUS
  <2>1. CASE jar'[c] # Nothing /\ jar'[c].userID = v
    BY <1>4, <2>1 DEF Knows, CookieAfter
  <2>2. CASE \E e \in inFlight' : e.browser = c /\ e.cookie # Nothing /\ e.cookie.userID = v
    BY <1>1, <2>2 DEF Knows
  <2>3. CASE \E s \in Bound(urls') : maker'[s] = c /\ urls'[s].userID = v
    BY <1>2, <2>3 DEF Knows
  <2>4. CASE \E r \in removals' : r.browser = c /\ r.userID = v
    BY <1>2, <2>4 DEF Knows
  <2> QED
    BY <2>1, <2>2, <2>3, <2>4 DEF Knows
<1>8. IdentitiesAreOwn'
  BY <1>2, <1>7 DEF HistoryInv, IdentitiesAreOwn
<1>9. CookiesAreIssued'
  BY <1>1, <1>2, <1>4 DEF HistoryInv, CookiesAreIssued, CookieAfter
<1>10. CreationsAreTrue' /\ OneAnswerEach'
  BY <1>1, <1>2 DEF HistoryInv, CreationsAreTrue, OneAnswerEach
<1>11. AnswersBringIdentity'
  <2> SUFFICES ASSUME NEW e \in inFlight', e.browser \notin raced
               PROVE  /\ e.cookie # Nothing => jar'[e.browser] = Nothing \/ jar'[e.browser].expires <= now
                      /\ \A s \in e.creates : /\ CookieAfter(e)' # Nothing
                                              /\ CookieAfter(e)'.userID = urls[s].userID
    BY <1>2 DEF AnswersBringIdentity
  <2>1. e \in inFlight /\ e # d /\ e.browser \in Browsers
    BY <1>1 DEF StateTyped, Deliveries
  <2>2. jar'[e.browser] = jar[e.browser]
    BY <1>4, <2>1 DEF HistoryInv, OneAnswerEach
  <2>3. CookieAfter(e)' = CookieAfter(e)
    BY <2>2 DEF CookieAfter
  <2> QED
    BY <2>1, <2>2, <2>3 DEF HistoryInv, AnswersBringIdentity
<1>12. IdentitiesAreKept'
  <2> SUFFICES ASSUME NEW s \in told', maker[s] \notin raced, ~(expires[urls[s].userID] <= now)
               PROVE  jar'[maker[s]] # Nothing /\ jar'[maker[s]].userID = urls[s].userID
    BY <1>2 DEF IdentitiesAreKept
  <2>1. CASE s \in d.creates
    <3>1. CookieAfter(d) # Nothing /\ CookieAfter(d).userID = urls[s].userID
      BY <1>5, <2>1 DEF HistoryInv, AnswersBringIdentity
    <3> QED
      BY <1>3, <1>4, <1>5, <2>1, <3>1
  <2>2. CASE s \in told
    <3>1. maker[s] \in Browsers
      BY <2>2 DEF StateTyped, StoreTyped, Bound
    <3>2. jar[maker[s]] # Nothing /\ jar[maker[s]].userID = urls[s].userID
      BY <2>2 DEF HistoryInv, IdentitiesAreKept
    <3>3. CASE maker[s] = d.browser /\ d.cookie # Nothing
      <4>1. jar[maker[s]].expires <= now
        BY <3>2, <3>3 DEF HistoryInv, AnswersBringIdentity
      <4>2. jar[maker[s]].expires = expires[urls[s].userID]
        BY <3>1, <3>2 DEF HistoryInv, CookiesAreIssued
      <4> QED
        BY <4>1, <4>2
    <3>4. CASE ~(maker[s] = d.browser /\ d.cookie # Nothing)
      BY <1>4, <3>1, <3>2, <3>4 DEF CookieAfter
    <3> QED
      BY <3>3, <3>4
  <2> QED
    BY <1>1, <2>1, <2>2
<1> QED
  BY <1>6, <1>8, <1>9, <1>10, <1>11, <1>12 DEF HistoryInv

-----------------------------------------------------------------------------
(***************************************************************************)
(* What the answers say.                                                   *)
(***************************************************************************)
Inv == /\ StateTyped /\ HistoryInv
       /\ AnswerTyped /\ AnswersAreTrue /\ OwnURLsOnly /\ DeletedIsGone
       /\ PatientBrowsersFindTheirURLs

\* Who has asked for a deletion knows the user it was asked for, and so does who
\* has made the short URL: if these are one user, they are one browser.
LEMMA DeletionsAreOwn ==
    ASSUME StateTyped', HistoryInv'
    PROVE  \A r \in removals' : urls'[r.key].userID = r.userID => r.browser = maker'[r.key]
<1> SUFFICES ASSUME NEW r \in removals', urls'[r.key].userID = r.userID
             PROVE  r.browser = maker'[r.key]
  OBVIOUS
<1>1. r.key \in Bound(urls') /\ r.userID \in UserIDs /\ r.browser \in Browsers
  BY DEF StateTyped
<1>2. PICK c \in Browsers : c = maker'[r.key]
  BY <1>1 DEF StateTyped, StoreTyped, Bound
<1>3. Knows(r.browser, r.userID)'
  BY DEF Knows
<1>4. Knows(c, r.userID)'
  BY <1>1, <1>2 DEF Knows
<1> QED
  BY <1>1, <1>2, <1>3, <1>4 DEF HistoryInv, IdentitiesAreOwn

\* A step that answers nobody.
LEMMA SilentSteps ==
    ASSUME StateTyped', HistoryInv', answer' = Nothing
    PROVE  Inv'
BY DeletionsAreOwn
DEF Inv, AnswerTyped, AnswersAreTrue, OwnURLsOnly, DeletedIsGone, PatientBrowsersFindTheirURLs

\* The statuses of answers that list nothing.
Statuses == {201, 202, 204, 307, 400, 401, 403, 404, 409, 410, 500}

\* URLs as JSON and as locations.
LEMMA WhatIsSaid ==
    /\ \A url \in OriginalURLs : AsText[url] \in OriginalURLs /\ Location[url] \in Locations
    /\ Location[NoURL] \in Locations
    /\ \A url : /\ Said(200, url) = AsText[url] /\ Said(307, url) = Location[url]
               /\ Said(201, url) = url /\ Said(409, url) = url
<1>1. \A url \in OriginalURLs \cup {NoURL} : Location[url] \in Locations
  BY DEF Locations
<1> QED
  BY <1>1, AsTextCoerces DEF Said

\* What an answer may say.
SaysTruly(status, says, failed) ==
    /\ says \subseteq SayablePairs
    /\ \A pair \in says : ~failed /\ status # 410 =>
        /\ urls[pair.ShortURL] # Absent
        /\ pair.OriginalURL = Said(status, urls[pair.ShortURL].originalURL)
        /\ status = 307 => ~urls[pair.ShortURL].isDeleted
    /\ \A pair \in says : ~failed /\ status = 410 =>
        /\ urls[pair.ShortURL] # Absent /\ urls[pair.ShortURL].isDeleted
        /\ pair.OriginalURL = NoURL
    /\ \A pair \in says : failed => status = 307 /\ pair.OriginalURL = Location[NoURL]

\* An answer that lists nothing.
LEMMA OtherAnswers ==
    ASSUME StateTyped', HistoryInv',
           NEW b \in Browsers, NEW says, NEW failed,
           NEW status \in Statuses,
           answer' = [browser |-> b, status |-> status, says |-> says, failed |-> failed],
           status \in {204, 401} => failed,
           SaysTruly(status, says, failed)'
    PROVE  Inv'
<1>1. /\ answer'.browser = b /\ answer'.status = status /\ answer'.says = says
      /\ answer'.failed = failed
  OBVIOUS
<1>2. answer'.status # 200 /\ (answer'.status \in {204, 401} => answer'.failed)
  BY <1>1 DEF Statuses
<1>3. AnswerTyped'
  BY <1>1 DEF AnswerTyped, Statuses, SaysTruly
<1>4. AnswersAreTrue' /\ DeletedIsGone'
  BY <1>1, <1>2 DEF AnswersAreTrue, DeletedIsGone, SaysTruly
<1>5. OwnURLsOnly' /\ PatientBrowsersFindTheirURLs'
  BY <1>2, DeletionsAreOwn DEF OwnURLsOnly, PatientBrowsersFindTheirURLs
<1> QED
  BY <1>3, <1>4, <1>5 DEF Inv

LEMMA Unchanged ==
    ASSUME StateTyped, UNCHANGED store
    PROVE  /\ StoreTyped' /\ Bound(urls') = Bound(urls)
           /\ \A b, u : Grows(b, u)
BY DEF StateTyped, StoreTyped, Grows, store, Bound

LEMMA Answered ==
    ASSUME NEW b, NEW user, NEW status, NEW says, NEW failed,
           RespondTo(b, user, status, says, failed)
    PROVE  answer' = [browser |-> b, status |-> status, says |-> says, failed |-> failed]
BY DEF RespondTo, Respond

\* A request behind the Auth middleware that is not answered with a list.
LEMMA TrueAnswers ==
    ASSUME Inv, NEW b \in Browsers, NEW user \in createOrGetUserID(b),
           NEW status \in Statuses, NEW says, NEW failed,
           RespondTo(b, user, status, says, failed),
           status \in {204, 401} => failed,
           SaysTruly(status, says, failed)',
           Grows(b, user.ID),
           status = 201 => \A pair \in says : /\ pair.ShortURL \in Bound(urls')
                                              /\ maker'[pair.ShortURL] = b
                                              /\ urls'[pair.ShortURL].userID = user.ID,
           removals' \subseteq removals \cup
                [key : Bound(urls), userID : {user.ID}, browser : {b}]
    PROVE  Inv'
<1>1. StateTyped' /\ HistoryInv'
  BY RequestsKeepHistory DEF Inv
<1>2. answer' = [browser |-> b, status |-> status, says |-> says, failed |-> failed]
  BY Answered
<1> QED
  BY <1>1, <1>2, OtherAnswers

\* One that is told nothing.
LEMMA EmptyAnswers ==
    ASSUME Inv, NEW b \in Browsers, NEW user \in createOrGetUserID(b),
           NEW status \in Statuses \ {204, 401}, NEW failed,
           RespondTo(b, user, status, {}, failed), Grows(b, user.ID),
           removals' \subseteq removals \cup
                [key : Bound(urls), userID : {user.ID}, browser : {b}]
    PROVE  Inv'
<1> DEFINE says == {}
<1>1. RespondTo(b, user, status, says, failed) /\ \A pair : pair \notin says
  OBVIOUS
<1> HIDE DEF says
<1>2. SaysTruly(status, says, failed)'
  BY <1>1 DEF SaysTruly
<1> QED
  BY <1>1, <1>2, TrueAnswers

-----------------------------------------------------------------------------
(***************************************************************************)
(* shorten, shortenAPI, shortenURLs.                                       *)
(***************************************************************************)
LEMMA AcceptedBatches ==
    \A batch \in Accepted : /\ batch \in Seq(OriginalURLs \cup {NoURL})
                            /\ \A k \in DOMAIN batch : batch[k] \in OriginalURLs
<1> SUFFICES ASSUME NEW batch \in Accepted
             PROVE  /\ batch \in Seq(OriginalURLs \cup {NoURL})
                    /\ \A k \in DOMAIN batch : batch[k] \in OriginalURLs
  OBVIOUS
<1>1. PICK m \in Nat : batch \in [1..m -> OriginalURLs \cup {NoURL}]
  <2>1. batch \in Batches
    BY DEF Accepted
  <2>2. Texts \subseteq OriginalURLs
    BY AsTextCoerces DEF Texts
  <2>3. CASE batch \in BoundedSeq(Texts \cup {NoURL}, MaxCount)
    <3>1. PICK m \in 0..MaxCount : batch \in [1..m -> Texts \cup {NoURL}]
      BY <2>3 DEF BoundedSeq, SeqOf
    <3>2. m \in Nat /\ batch \in [1..m -> OriginalURLs \cup {NoURL}]
      BY <2>2, <3>1, NumbersAreNat
    <3> QED
      BY <3>2
  <2>4. CASE batch \in [1..(MaxCount + 1) -> {NoURL}]
    <3>1. MaxCount + 1 \in Nat /\ batch \in [1..(MaxCount + 1) -> OriginalURLs \cup {NoURL}]
      BY <2>4, NumbersAreNat
    <3> QED
      BY <3>1
  <2> QED
    BY <2>1, <2>3, <2>4 DEF Batches
<1>2. NoURL \notin ToSet(batch)
  BY DEF Accepted, StatusOf
<1>3. batch \in Seq(OriginalURLs \cup {NoURL})
  BY <1>1
<1>4. DOMAIN batch = 1..m /\ \A k \in 1..m : batch[k] \in OriginalURLs \cup {NoURL}
  BY <1>1
<1>5. \A k \in DOMAIN batch : batch[k] # NoURL
  BY <1>2 DEF ToSet
<1> QED
  BY <1>3, <1>4, <1>5

LEMMA PartsOfBatches ==
    \A part \in Parts : \A k \in DOMAIN part : part[k] \in OriginalURLs
<1> SUFFICES ASSUME NEW part \in Parts
             PROVE  \A k \in DOMAIN part : part[k] \in OriginalURLs
  OBVIOUS
<1>1. PICK batch \in Accepted : \E n \in 0..Len(batch) : part = SubSeq(batch, 1, n)
  BY DEF Parts
<1>2. /\ batch \in Seq(OriginalURLs \cup {NoURL})
      /\ \A k \in 1..Len(batch) : batch[k] \in OriginalURLs
  BY AcceptedBatches
<1>3. PICK n \in 0..Len(batch) : part = SubSeq(batch, 1, n)
  BY <1>1
<1>4. n \in Nat /\ \A k \in 1..n : batch[k] \in OriginalURLs
  BY <1>2
<1>5. part \in Seq(OriginalURLs)
  BY <1>3, <1>4, SubSeqProperties
<1> QED
  BY <1>5

LEMMA DrawnIDs ==
    ASSUME NEW batch, \A k \in DOMAIN batch : batch[k] \in OriginalURLs,
           NEW ids \in Draws(batch)
    PROVE  Drawn(batch, ids) /\ DOMAIN ids = DOMAIN batch
BY DEF Draws, Drawn, IsInjective

\* One number and one URL.
LEMMA OneIsDrawn ==
    ASSUME NEW id \in IDs \ drawn, NEW url \in OriginalURLs
    PROVE  Drawn(<<url>>, <<id>>) /\ DOMAIN <<id>> = {1}
<1>1. DOMAIN <<id>> = {1} /\ <<id>>[1] = id /\ <<url>>[1] = url
  OBVIOUS
<1> QED
  BY <1>1 DEF Drawn

\* The store takes a batch of which the client is told all pairs.
LEMMA CreatedAnswers ==
    ASSUME Inv, NEW b \in Browsers, NEW user \in createOrGetUserID(b),
           NEW batch, NEW ids, Drawn(batch, ids), Stores(b, user, ids, batch),
           NEW says, says = {PairOf(ids[k], batch[k]) : k \in DOMAIN ids},
           NEW status, NEW failed, status = 201, ~failed,
           RespondTo(b, user, status, says, failed), removals' = removals
    PROVE  Inv'
<1>1. user.ID \in UserIDs
  BY Requesters DEF Inv
<1>2. /\ Grows(b, user.ID)
      /\ \A k \in DOMAIN ids :
            /\ Shorten(ids[k]) \in Bound(urls')
            /\ maker'[Shorten(ids[k])] = b
            /\ urls'[Shorten(ids[k])] =
                [originalURL |-> batch[k], userID |-> user.ID, isDeleted |-> FALSE]
  BY <1>1, StoresGrow DEF Inv, StateTyped
<1>3. ASSUME NEW pair \in says
      PROVE  /\ pair \in SayablePairs
             /\ pair.ShortURL \in Bound(urls') /\ maker'[pair.ShortURL] = b
             /\ urls'[pair.ShortURL].userID = user.ID
             /\ urls'[pair.ShortURL] # Absent
             /\ pair.OriginalURL = Said(status, urls'[pair.ShortURL].originalURL)
  <2>1. PICK k \in DOMAIN ids : pair = PairOf(ids[k], batch[k])
    OBVIOUS
  <2>2. batch[k] \in OriginalURLs
    BY DEF Drawn
  <2>3. /\ Shorten(ids[k]) \in Bound(urls') /\ maker'[Shorten(ids[k])] = b
        /\ urls'[Shorten(ids[k])] =
            [originalURL |-> batch[k], userID |-> user.ID, isDeleted |-> FALSE]
    BY <1>2
  <2> QED
    BY <2>1, <2>2, <2>3, WhatIsSaid DEF PairOf, Bound, SayablePairs
<1>4. SaysTruly(status, says, failed)'
  <2>1. status # 410 /\ status # 307 /\ ~failed
    OBVIOUS
  <2> QED
    BY <1>3, <2>1 DEF SaysTruly
<1>5. status \in Statuses /\ status \notin {204, 401}
  BY DEF Statuses
<1> QED
  BY <1>2, <1>3, <1>4, <1>5, TrueAnswers

\* The store takes a batch and fails, or fails having taken part of it.
LEMMA FailedAnswers ==
    ASSUME Inv, NEW b \in Browsers, NEW user \in createOrGetUserID(b),
           NEW batch, NEW ids, Drawn(batch, ids), Stores(b, user, ids, batch),
           NEW status, NEW failed, status = 500,
           RespondTo(b, user, status, {}, failed), removals' = removals
    PROVE  Inv'
<1>1. user.ID \in UserIDs
  BY Requesters DEF Inv
<1>2. Grows(b, user.ID)
  BY <1>1, StoresGrow DEF Inv, StateTyped
<1>3. status \in Statuses \ {204, 401}
  BY DEF Statuses
<1> QED
  BY <1>2, <1>3, EmptyAnswers

LEMMA HandlersKeepInv ==
    ASSUME Inv, NEW b \in Browsers, NEW user \in createOrGetUserID(b), Handler(b, user),
           ~GetUserURLs(b, user)
    PROVE  Inv'
<1>1. ASSUME NEW status \in Statuses \ {204, 401}, NEW failed,
             RespondTo(b, user, status, {}, failed), UNCHANGED store, removals' \subseteq removals \cup
                [key : Bound(urls), userID : {user.ID}, browser : {b}]
      PROVE  Inv'
  <2>1. Grows(b, user.ID)
    BY <1>1, Unchanged DEF Inv
  <2> QED
    BY <1>1, <2>1, EmptyAnswers
<1>2. {400, 403, 202} \subseteq Statuses \ {204, 401}
  BY DEF Statuses
<1>3. ASSUME ShortenRefuses(b, user) \/ DeleteRefuses(b, user) PROVE Inv'
  <2>1. PICK status, failed : status = 400 /\ RespondTo(b, user, status, {}, failed)
    BY <1>3, Zenon DEF ShortenRefuses, DeleteRefuses, Answers
  <2>2. UNCHANGED <<store, removals>>
    BY <1>3, Zenon DEF ShortenRefuses, DeleteRefuses
  <2> QED
    BY <1>1, <1>2, <2>1, <2>2
<1>4. ASSUME ShortenURLsRefuses(b, user) PROVE Inv'
  <2>1. PICK status \in Refusals : \E failed : RespondTo(b, user, status, {}, failed)
    BY <1>4, Zenon DEF ShortenURLsRefuses, Answers
  <2>2. status \in {400, 403}
    BY DEF Refusals, Accepted, StatusOf
  <2>3. UNCHANGED <<store, removals>>
    BY <1>4, Zenon DEF ShortenURLsRefuses
  <2> QED
    BY <1>1, <1>2, <2>1, <2>2, <2>3
<1>5. ASSUME DeleteUserURLs(b, user) PROVE Inv'
  <2>1. PICK status, failed : status = 202 /\ RespondTo(b, user, status, {}, failed)
    BY <1>5, Zenon DEF DeleteUserURLs, Answers
  <2>2. PICK s \in Bound(urls) : removals' = {[key |-> s, userID |-> user.ID, browser |-> b]}
    BY <1>5, Zenon DEF DeleteUserURLs
  <2>3. UNCHANGED store
    BY <1>5, Zenon DEF DeleteUserURLs
  <2>4. removals' \subseteq [key : Bound(urls), userID : {user.ID}, browser : {b}]
    BY <2>2
  <2> QED
    BY <1>1, <1>2, <2>1, <2>3, <2>4
<1>6. ASSUME ShortenCreates(b, user) PROVE Inv'
  <2>1. PICK id \in IDs \ drawn, url \in OriginalURLs :
          /\ RespondTo(b, user, 201, {PairOf(id, url)}, FALSE)
          /\ Stores(b, user, <<id>>, <<url>>)
    BY <1>6, Zenon DEF ShortenCreates, Answers
  <2> DEFINE ids == <<id>>
             batch == <<url>>
             says == {PairOf(id, url)}
  <2>2. Drawn(batch, ids) /\ DOMAIN ids = {1} /\ ids[1] = id /\ batch[1] = url
    BY OneIsDrawn
  <2>3. PICK status, failed : /\ status = 201 /\ ~failed
                              /\ RespondTo(b, user, status, says, failed)
    BY <2>1, Zenon
  <2>4. Stores(b, user, ids, batch)
    BY <2>1
  <2>5. \A p : p \in says <=> p = PairOf(id, url)
    OBVIOUS
  <2> HIDE DEF ids, batch, says
  <2>6. says = {PairOf(ids[k], batch[k]) : k \in DOMAIN ids}
    BY <2>2, <2>5
  <2>7. removals' = removals
    BY <1>6, Zenon DEF ShortenCreates
  <2> QED
    BY <2>2, <2>3, <2>4, <2>6, <2>7, CreatedAnswers
<1>7. ASSUME ShortenURLsCreates(b, user) PROVE Inv'
  <2>1. PICK batch \in Accepted : \E ids \in Draws(batch) :
          /\ RespondTo(b, user, 201, Correlated(batch, ids), FALSE)
          /\ Stores(b, user, ids, batch)
    BY <1>7, Zenon DEF ShortenURLsCreates, Answers
  <2>2. PICK ids \in Draws(batch) :
          /\ \E status, failed :
                /\ status = 201 /\ ~failed
                /\ RespondTo(b, user, status, Correlated(batch, ids), failed)
          /\ Stores(b, user, ids, batch)
    BY <2>1, Zenon
  <2>3. Drawn(batch, ids) /\ DOMAIN ids = DOMAIN batch
    BY AcceptedBatches, DrawnIDs
  <2>4. Correlated(batch, ids) = {PairOf(ids[k], batch[k]) : k \in DOMAIN ids}
    BY <2>3 DEF Correlated
  <2>5. removals' = removals
    BY <1>7, Zenon DEF ShortenURLsCreates
  <2> QED
    BY <2>2, <2>3, <2>4, <2>5, CreatedAnswers
<1>8. ASSUME ShortenConflicts(b, user) PROVE Inv'
  <2>1. PICK url \in OriginalURLs, s \in ShortURLs :
          /\ s \in ShortURLsOf(urls, url)
          /\ RespondTo(b, user, 409, {[ShortURL |-> s, OriginalURL |-> url]}, FALSE)
    BY <1>8, Zenon DEF ShortenConflicts, Answers
  <2> DEFINE pairs == {[ShortURL |-> s, OriginalURL |-> url]}
  <2>2. UNCHANGED <<store, removals>>
    BY <1>8, Zenon DEF ShortenConflicts
  <2>3. urls'[s] # Absent /\ urls'[s].originalURL = url
    BY <2>1, <2>2 DEF store, ShortURLsOf, Bound
  <2>4. PICK status, says, failed : /\ status = 409 /\ says = pairs /\ ~failed
                                    /\ RespondTo(b, user, status, says, failed)
    BY <2>1, Zenon
  <2>5. SaysTruly(status, says, failed)'
    <3>1. \A pair \in says : /\ pair \in SayablePairs /\ urls'[pair.ShortURL] # Absent
                             /\ pair.OriginalURL = urls'[pair.ShortURL].originalURL
      BY <2>3, <2>4 DEF SayablePairs
    <3>2. \A o : Said(status, o) = o /\ status # 307 /\ status # 410 /\ ~failed
      BY <2>4, WhatIsSaid
    <3> QED
      BY <3>1, <3>2 DEF SaysTruly
  <2>6. status \in Statuses /\ status \notin {201, 204, 401}
    BY <2>4 DEF Statuses
  <2>7. Grows(b, user.ID)
    BY <2>2, Unchanged DEF Inv
  <2> QED
    BY <2>2, <2>4, <2>5, <2>6, <2>7, TrueAnswers
<1>9. ASSUME ShortenFails(b, user) PROVE Inv'
  <2>1. /\ \E status, failed : status = 500 /\ RespondTo(b, user, status, {}, failed)
        /\ removals' = removals
    BY <1>9, Zenon DEF ShortenFails, Fails
  <2>2. CASE UNCHANGED store
    <3>1. PICK status, failed : status = 500 /\ RespondTo(b, user, status, {}, failed)
      BY <2>1, Zenon
    <3>2. status \in Statuses \ {204, 401} /\ Grows(b, user.ID)
      BY <2>2, <3>1, Unchanged DEF Inv, Statuses
    <3> QED
      BY <2>1, <3>1, <3>2, EmptyAnswers
  <2>3. ASSUME NEW url \in OriginalURLs, NEW id \in IDs \ drawn, Stores(b, user, <<id>>, <<url>>)
        PROVE  Inv'
    <3>1. Drawn(<<url>>, <<id>>)
      BY OneIsDrawn
    <3> QED
      BY <2>1, <2>3, <3>1, FailedAnswers
  <2>4. \/ UNCHANGED store
        \/ \E url \in OriginalURLs, id \in IDs \ drawn : Stores(b, user, <<id>>, <<url>>)
    BY <1>9, Zenon DEF ShortenFails
  <2> QED
    BY <2>2, <2>3, <2>4, Zenon
<1>10. ASSUME ShortenURLsFails(b, user) PROVE Inv'
  <2>1. /\ \E status, failed : status = 500 /\ RespondTo(b, user, status, {}, failed)
        /\ removals' = removals
    BY <1>10, Zenon DEF ShortenURLsFails, Fails
  <2>2. PICK part \in Parts : \E ids \in Draws(part) : Stores(b, user, ids, part)
    BY <1>10, Zenon DEF ShortenURLsFails
  <2>3. PICK ids \in Draws(part) : Stores(b, user, ids, part)
    BY <2>2
  <2>4. Drawn(part, ids)
    BY PartsOfBatches, DrawnIDs
  <2> QED
    BY <2>1, <2>3, <2>4, FailedAnswers
<1> QED
  BY <1>3, <1>4, <1>5, <1>6, <1>7, <1>8, <1>9, <1>10, Zenon DEF Handler

-----------------------------------------------------------------------------
(***************************************************************************)
(* getUserURLs: the list shows what the browser has made, and if it has    *)
(* waited for its answers, all of it that is not deleted.                  *)
(***************************************************************************)
LEMMA ListedAnswers ==
    ASSUME Inv, NEW b \in Browsers, NEW user \in createOrGetUserID(b),
           NEW status \in {200, 204, 401}, NEW says, NEW failed,
           RespondTo(b, user, status, says, failed), UNCHANGED <<store, removals>>,
           says = IF user.IsNew THEN {} ELSE ListedPairs(user.ID),
           status # 200 => says = {}, ~failed
    PROVE  Inv'
<1>1. /\ user.ID \in UserIDs /\ user.IsNew \in BOOLEAN
      /\ user.IsNew => expires[user.ID] = 0 /\ ~HasValidToken(b)
      /\ ~user.IsNew => HasValidToken(b) /\ user.ID = jar[b].userID
  BY Requesters DEF Inv
<1>2. Grows(b, user.ID)
  BY Unchanged DEF Inv
<1>3. StateTyped' /\ HistoryInv'
  BY <1>2, RequestsKeepHistory DEF Inv
<1>4. /\ answer'.browser = b /\ answer'.status = status /\ answer'.says = says
      /\ answer'.failed = failed
  BY Answered
<1>5. /\ urls' = urls /\ maker' = maker /\ removals' = removals
      /\ now' = now /\ jar' = jar /\ told' = told /\ raced \subseteq raced'
  BY DEF store, RespondTo, Respond
<1>6. ASSUME NEW pair \in says
      PROVE  /\ pair.ShortURL \in Bound(urls) /\ ~user.IsNew
             /\ urls[pair.ShortURL].userID = user.ID /\ ~urls[pair.ShortURL].isDeleted
             /\ pair = [ShortURL |-> pair.ShortURL,
                        OriginalURL |-> AsText[urls[pair.ShortURL].originalURL]]
             /\ status = 200
  <2>1. ~user.IsNew /\ pair \in ListedPairs(user.ID)
    BY <1>1
  <2>2. PICK s \in Bound(urls) : /\ Lists(urls[s], user.ID)
                                 /\ pair = [ShortURL |-> s,
                                            OriginalURL |-> AsText[urls[s].originalURL]]
    BY <2>1 DEF ListedPairs
  <2> QED
    BY <2>1, <2>2 DEF Lists
<1>7. \A s \in Bound(urls) : s \in ShortURLs /\ urls[s] \in URLRecords /\ urls[s] # Absent
  BY DEF Inv, StateTyped, StoreTyped, Bound, URLMaps
<1>8. AnswerTyped'
  <2>1. \A pair \in says : pair \in SayablePairs
    <3> SUFFICES ASSUME NEW pair \in says
                 PROVE  pair \in SayablePairs
      OBVIOUS
    <3>1. urls[pair.ShortURL].originalURL \in OriginalURLs /\ pair.ShortURL \in ShortURLs
      BY <1>6, <1>7 DEF URLRecords
    <3>2. AsText[urls[pair.ShortURL].originalURL] \in OriginalURLs
      BY <3>1, WhatIsSaid
    <3> QED
      BY <1>6, <3>1, <3>2 DEF SayablePairs
  <2> QED
    BY <1>4, <2>1 DEF AnswerTyped
<1>9. AnswersAreTrue' /\ DeletedIsGone'
  <2>1. ASSUME NEW pair \in says
        PROVE  /\ urls[pair.ShortURL] # Absent /\ ~urls[pair.ShortURL].isDeleted
               /\ pair.OriginalURL = Said(status, urls[pair.ShortURL].originalURL)
               /\ status # 410 /\ ~failed
    <3>1. /\ pair.ShortURL \in Bound(urls) /\ ~urls[pair.ShortURL].isDeleted
          /\ pair = [ShortURL |-> pair.ShortURL,
                     OriginalURL |-> AsText[urls[pair.ShortURL].originalURL]]
          /\ status = 200
      BY <1>6
    <3> QED
      BY <1>7, <3>1, WhatIsSaid
  <2> QED
    BY <1>4, <1>5, <2>1 DEF AnswersAreTrue, DeletedIsGone
<1>10. ASSUME NEW s \in Bound(urls)
       PROVE  maker[s] \in Browsers /\ urls[s].userID \in UserIDs /\ Knows(maker[s], urls[s].userID)
  <2>1. maker[s] \in Browsers
    BY <1>7 DEF Inv, StateTyped, StoreTyped
  <2>2. urls[s].userID \in UserIDs
    BY <1>7 DEF URLRecords
  <2> QED
    BY <2>1, <2>2 DEF Knows
<1>11. OwnURLsOnly'
  <2>1. ASSUME NEW pair \in says
        PROVE  maker[pair.ShortURL] = b
    <3>1. Knows(b, user.ID)
      BY <1>1, <1>6 DEF HasValidToken, Knows
    <3> QED
      BY <1>6, <1>10, <3>1 DEF Inv, HistoryInv, IdentitiesAreOwn
  <2> QED
    BY <1>3, <1>4, <1>5, <2>1, DeletionsAreOwn DEF OwnURLsOnly
<1>12. PatientBrowsersFindTheirURLs'
  <2> SUFFICES ASSUME NEW s \in told, maker[s] = b, b \notin raced', ~urls[s].isDeleted,
                      ~(expires'[urls[s].userID] <= now)
               PROVE  s \in {pair.ShortURL : pair \in says}
    BY <1>4, <1>5 DEF PatientBrowsersFindTheirURLs
  <2> DEFINE u == urls[s].userID
  <2>1. s \in Bound(urls) /\ u \in UserIDs /\ Knows(b, u)
    BY <1>10 DEF Inv, StateTyped
  <2>2. expires[u] # 0
    BY <2>1 DEF Inv, HistoryInv, IdentitiesAreOwn
  <2>3. expires'[u] = expires[u]
    <3>1. expires' = IF user.IsNew THEN [expires EXCEPT ![user.ID] = now + TokenExp] ELSE expires
      BY DEF RespondTo
    <3>2. user.IsNew => u # user.ID
      BY <1>1, <2>2
    <3> QED
      BY <1>1, <2>1, <3>1, <3>2 DEF Inv, StateTyped
  <2>4. jar[b] # Nothing /\ jar[b].userID = u
    BY <1>5, <2>3 DEF Inv, HistoryInv, IdentitiesAreKept
  <2>5. HasValidToken(b)
    <3>1. jar[b].expires = expires[u]
      BY <2>4 DEF Inv, HistoryInv, CookiesAreIssued
    <3>2. expires[u] \in Nat /\ now \in Nat
      BY <2>1, NumbersAreNat DEF Inv, StateTyped
    <3> QED
      BY <2>3, <2>4, <3>1, <3>2 DEF HasValidToken
  <2>6. ~user.IsNew /\ Lists(urls[s], user.ID)
    BY <1>1, <2>4, <2>5 DEF Lists
  <2>7. [ShortURL |-> s, OriginalURL |-> AsText[urls[s].originalURL]] \in says
    BY <2>1, <2>6 DEF ListedPairs
  <2> QED
    BY <2>7
<1> QED
  BY <1>3, <1>8, <1>9, <1>11, <1>12 DEF Inv

LEMMA GetUserURLsKeepsInv ==
    ASSUME Inv, NEW b \in Browsers, NEW user \in createOrGetUserID(b), GetUserURLs(b, user)
    PROVE  Inv'
<1> DEFINE pairs == ListedPairs(user.ID)
<1>1. UNCHANGED store /\ UNCHANGED removals
  BY Zenon DEF GetUserURLs
<1>2. CASE user.IsNew /\ Answers(b, user, 401, {})
  <2>1. PICK status, says, failed : /\ status = 401 /\ says = {} /\ ~failed
                                    /\ RespondTo(b, user, status, says, failed)
    BY <1>2, Zenon DEF Answers
  <2>2. status \in {200, 204, 401} /\ says = {} /\ says = IF user.IsNew THEN {} ELSE pairs
    BY <1>2, <2>1
  <2> QED
    BY <1>1, <2>1, <2>2, ListedAnswers
<1>3. CASE ~user.IsNew /\ Answers(b, user, IF pairs = {} THEN 204 ELSE 200, pairs)
  <2>1. PICK status, says, failed : /\ status = IF pairs = {} THEN 204 ELSE 200
                                    /\ says = pairs /\ ~failed
                                    /\ RespondTo(b, user, status, says, failed)
    BY <1>3, Zenon DEF Answers
  <2>2. /\ status \in {200, 204, 401} /\ says = IF user.IsNew THEN {} ELSE pairs
        /\ status # 200 => says = {}
    BY <1>3, <2>1
  <2> QED
    BY <1>1, <2>1, <2>2, ListedAnswers
<1>4. CASE ~user.IsNew /\ Fails(b, user, 204)
  <2>1. PICK status, says, failed : /\ status = 204 /\ says = {} /\ failed
                                    /\ RespondTo(b, user, status, says, failed)
    BY <1>4, Zenon DEF Fails
  <2>2. SaysTruly(status, says, failed)'
    BY <2>1 DEF SaysTruly
  <2>3. status \in Statuses /\ status # 201 /\ Grows(b, user.ID)
    BY <1>1, <2>1, Unchanged DEF Statuses, Inv
  <2>4. removals' \subseteq removals \cup
            [key : Bound(urls), userID : {user.ID}, browser : {b}]
    BY <1>1
  <2>5. status \in {204, 401} => failed
    BY <2>1, Zenon
  <2>6. status = 201 => \A pair \in says : /\ pair.ShortURL \in Bound(urls')
                                           /\ maker'[pair.ShortURL] = b
                                           /\ urls'[pair.ShortURL].userID = user.ID
    BY <2>3
  <2>7. RespondTo(b, user, status, says, failed)
    BY <2>1, Zenon
  <2> QED
    BY <2>2, <2>3, <2>4, <2>5, <2>6, <2>7, TrueAnswers
<1> QED
  BY <1>2, <1>3, <1>4, Zenon DEF GetUserURLs

-----------------------------------------------------------------------------
(***************************************************************************)
(* redirect, the network, the remover and the clock.                       *)
(***************************************************************************)
LEMMA RedirectAnswers ==
    ASSUME Inv, NEW b \in Browsers, NEW status \in {307, 404, 410}, NEW says, NEW failed,
           Respond(b, Nothing, status, says, failed), UNCHANGED <<store, removals, expires>>,
           SaysTruly(status, says, failed)'
    PROVE  Inv'
<1>1. inFlight' = inFlight /\ raced \subseteq raced' /\ raced' \subseteq raced \cup {b}
  BY DEF Respond
<1>2. UNCHANGED <<now, jar, told>>
  BY DEF Respond
<1>3. UNCHANGED <<urls, maker>> /\ StoreTyped' /\ Bound(urls') = Bound(urls)
  BY Unchanged DEF store, Inv
<1>4. now' \in now..MaxTime
  BY <1>2, NumbersAreNat DEF Inv, StateTyped
<1>5. raced' \subseteq Browsers
  BY <1>1 DEF Inv, StateTyped
<1>6. StateTyped' /\ HistoryInv'
  BY <1>1, <1>2, <1>3, <1>4, <1>5, QuietStepsKeepHistory DEF Inv
<1>7. answer' = [browser |-> b, status |-> status, says |-> says, failed |-> failed]
  BY DEF Respond
<1>8. status \in Statuses /\ (status \in {204, 401} => failed)
  BY DEF Statuses
<1> QED
  BY <1>6, <1>7, <1>8, OtherAnswers

LEMMA RedirectKeepsInv ==
    ASSUME Inv, NEW b \in Browsers, Redirect(b) \/ RedirectFails(b)
    PROVE  Inv'
<1>1. UNCHANGED <<store, removals, expires>>
  BY Zenon DEF Redirect, RedirectFails
<1>2. UNCHANGED urls
  BY <1>1 DEF store
<1>3. CASE Redirect(b)
  <2> DEFINE st(key) == RedirectStatus(urls[key])
             loc(key) == IF st(key) = 307 THEN Location[urls[key].originalURL] ELSE NoURL
  <2>1. PICK key \in ShortURLs :
          Respond(b, Nothing, st(key), Expand(key, st(key), loc(key)), FALSE)
    BY <1>3, Zenon DEF Redirect
  <2> HIDE DEF st, loc
  <2>2. PICK status, location, says, failed :
          /\ status = st(key) /\ location = loc(key)
          /\ says = Expand(key, status, location) /\ ~failed
          /\ Respond(b, Nothing, status, says, failed)
    BY <2>1, Zenon
  <2>3. /\ status = RedirectStatus(urls[key])
        /\ location = IF status = 307 THEN Location[urls[key].originalURL] ELSE NoURL
    BY <2>2 DEF st, loc
  <2>4. says = Expand(key, status, location)
    BY <2>2
  <2>5. Respond(b, Nothing, status, says, failed)
    BY <2>2, Zenon
  <2>6. status \in {307, 404, 410}
    BY <2>3 DEF RedirectStatus
  <2>7. status = 307 => urls[key] \in URLRecords /\ urls[key] # Absent /\ ~urls[key].isDeleted
    BY <2>3 DEF RedirectStatus, Inv, StateTyped, StoreTyped, URLMaps
  <2>8. location \in Locations \cup {NoURL}
    <3>1. status = 307 => urls[key].originalURL \in OriginalURLs
      BY <2>7 DEF URLRecords
    <3> QED
      BY <2>3, <3>1, WhatIsSaid
  <2>9. \A pair \in says : /\ status # 404
                           /\ pair = [ShortURL |-> key, OriginalURL |-> location]
    BY <2>4 DEF Expand
  <2>10. SaysTruly(status, says, failed)'
    <3>1. says \subseteq SayablePairs
      BY <2>8, <2>9 DEF SayablePairs
    <3>2. ASSUME NEW pair \in says, status # 410
          PROVE  /\ urls[pair.ShortURL] # Absent
                 /\ pair.OriginalURL = Said(status, urls[pair.ShortURL].originalURL)
                 /\ ~urls[pair.ShortURL].isDeleted
      <4>1. status = 307 /\ pair.ShortURL = key /\ pair.OriginalURL = location
        BY <2>6, <2>9, <3>2
      <4>2. location = Location[urls[key].originalURL]
        BY <2>3, <4>1
      <4>3. Said(status, urls[key].originalURL) = Location[urls[key].originalURL]
        BY <4>1, WhatIsSaid
      <4>4. urls[key] # Absent /\ ~urls[key].isDeleted
        BY <2>7, <4>1
      <4> QED
        BY <4>1, <4>2, <4>3, <4>4
    <3>3. ASSUME NEW pair \in says, status = 410
          PROVE  /\ urls[pair.ShortURL] # Absent /\ urls[pair.ShortURL].isDeleted
                 /\ pair.OriginalURL = NoURL
      <4>1. pair.ShortURL = key /\ pair.OriginalURL = location
        BY <2>9, <3>3
      <4>2. location = NoURL
        BY <2>3, <3>3
      <4>3. urls[key] # Absent /\ urls[key].isDeleted
        BY <2>3, <3>3 DEF RedirectStatus
      <4> QED
        BY <4>1, <4>2, <4>3
    <3>4. ~failed
      BY <2>2
    <3> QED
      BY <1>2, <3>1, <3>2, <3>3, <3>4 DEF SaysTruly
  <2> QED
    BY <1>1, <2>5, <2>6, <2>10, RedirectAnswers
<1>4. CASE RedirectFails(b)
  <2>1. PICK key, status, says, failed :
          /\ key \in ShortURLs /\ status = 307 /\ says = Expand(key, 307, Location[NoURL]) /\ failed
          /\ Respond(b, Nothing, status, says, failed)
    BY <1>4, Zenon DEF RedirectFails
  <2>2. SaysTruly(status, says, failed)'
    BY <2>1, WhatIsSaid DEF SaysTruly, Expand, SayablePairs
  <2>3. status \in {307, 404, 410}
    BY <2>1
  <2>4. Respond(b, Nothing, status, says, failed)
    BY <2>1, Zenon
  <2> QED
    BY <1>1, <2>2, <2>3, <2>4, RedirectAnswers
<1> QED
  BY <1>3, <1>4

LEMMA OtherStepsKeepInv ==
    ASSUME Inv, Receive \/ Lose \/ Tick \/ Delete \/ DeleteFails
    PROVE  Inv'
<1>1. now \in Nat /\ now' = now => now' \in now..MaxTime
  BY NumbersAreNat DEF Inv, StateTyped
<1>2. now \in Nat /\ raced \subseteq Browsers
  BY NumbersAreNat DEF Inv, StateTyped
<1>3. UNCHANGED store => StoreTyped' /\ Bound(urls') = Bound(urls) /\ UNCHANGED <<urls, maker>>
  BY Unchanged DEF Inv, store
<1>4. CASE Receive
  <2>1. StateTyped' /\ HistoryInv'
    BY <1>4, ReceiveKeepsHistory DEF Inv
  <2> QED
    BY <1>4, <2>1, SilentSteps DEF Receive
<1>5. CASE Lose
  <2>1. StateTyped' /\ HistoryInv'
    BY <1>1, <1>2, <1>3, <1>5, QuietStepsKeepHistory DEF Inv, Lose
  <2> QED
    BY <1>5, <2>1, SilentSteps DEF Lose
<1>6. CASE Tick
  <2>1. now' \in now..MaxTime
    BY <1>2, <1>6, NumbersAreNat DEF Tick
  <2>2. StateTyped' /\ HistoryInv'
    BY <1>2, <1>3, <1>6, <2>1, QuietStepsKeepHistory DEF Inv, Tick
  <2> QED
    BY <1>6, <2>2, SilentSteps DEF Tick
<1>7. CASE DeleteFails
  <2>1. StateTyped' /\ HistoryInv'
    BY <1>1, <1>2, <1>3, <1>7, QuietStepsKeepHistory DEF Inv, DeleteFails
  <2> QED
    BY <1>7, <2>1, SilentSteps DEF DeleteFails
<1>8. CASE Delete
  <2>1. PICK r \in removals :
          /\ urls' = IF urls[r.key].userID = r.userID
                     THEN [urls EXCEPT ![r.key] = Tombstone(@)] ELSE urls
          /\ removals' = removals \ {r}
          /\ UNCHANGED <<drawn, maker, expires, now, jar, inFlight, told, raced>>
    BY <1>8, Zenon DEF Delete
  <2>2. r.key \in Bound(urls) /\ r.key \in ShortURLs /\ urls[r.key] \in URLRecords
    BY DEF Inv, StateTyped, StoreTyped, Bound, URLMaps
  <2>3. /\ urls' \in URLMaps
        /\ \A s \in ShortURLs : (urls'[s] # Absent) = (urls[s] # Absent)
        /\ \A s \in Bound(urls) : urls'[s].userID = urls[s].userID
    BY <2>1, <2>2, Records DEF Inv, StateTyped, StoreTyped, URLMaps
  <2>4. Bound(urls') = Bound(urls)
    BY <2>3 DEF Bound
  <2>5. StoreTyped'
    BY <2>1, <2>3, <2>4 DEF Inv, StateTyped, StoreTyped
  <2>6. StateTyped' /\ HistoryInv'
    BY <1>1, <1>2, <2>1, <2>3, <2>4, <2>5, QuietStepsKeepHistory DEF Inv
  <2>7. answer' = Nothing
    BY <1>8, Zenon DEF Delete
  <2> QED
    BY <2>6, <2>7, SilentSteps
<1> QED
  BY <1>4, <1>5, <1>6, <1>7, <1>8

-----------------------------------------------------------------------------
\* In every state the last answer is what it should be, and the browsers' cookies,
\* the answers on their way and the deletions accepted agree on who is who.
THEOREM Invariance == Spec => []Inv
<1>1. Init => Inv
  <2> SUFFICES ASSUME Init PROVE Inv
    OBVIOUS
  <2>1. Bound(urls) = {} /\ urls \in URLMaps
    BY DEF Init, Bound, EmptyMap, URLMaps
  <2>2. StateTyped
    <3>1. \A s \in ShortURLs : maker[s] \notin Browsers
      BY NothingIsNothing DEF Init
    <3>2. expires \in [UserIDs -> 0..(MaxTime + TokenExp)] /\ now \in 0..MaxTime
      BY NumbersAreNat DEF Init
    <3> QED
      BY <2>1, <3>1, <3>2 DEF Init, StateTyped, StoreTyped
  <2>3. HistoryInv
    <3>1. \A b \in Browsers, u \in UserIDs : ~Knows(b, u)
      BY <2>1 DEF Init, Knows
    <3> QED
      BY <3>1 DEF Init, HistoryInv, IdentitiesAreOwn, CookiesAreIssued, CreationsAreTrue,
                  OneAnswerEach, AnswersBringIdentity, IdentitiesAreKept
  <2> QED
    BY <2>2, <2>3 DEF Init, Inv, AnswerTyped, AnswersAreTrue, OwnURLsOnly, DeletedIsGone,
                      PatientBrowsersFindTheirURLs
<1>2. Inv /\ [Next]_vars => Inv'
  <2> SUFFICES ASSUME Inv, [Next]_vars PROVE Inv'
    OBVIOUS
  <2>1. ASSUME NEW b \in Browsers, NEW user \in createOrGetUserID(b), Handler(b, user)
        PROVE  Inv'
    BY <2>1, HandlersKeepInv, GetUserURLsKeepsInv
  <2>2. ASSUME NEW b \in Browsers, Redirect(b) \/ RedirectFails(b)
        PROVE  Inv'
    BY <2>2, RedirectKeepsInv
  <2>3. ASSUME Receive \/ Lose \/ Tick \/ Delete \/ DeleteFails
        PROVE  Inv'
    BY <2>3, OtherStepsKeepInv
  <2>4. CASE UNCHANGED vars
    BY <2>4
    DEF vars, store, Inv, StateTyped, StoreTyped, HistoryInv, IdentitiesAreOwn, Knows,
        CookiesAreIssued, CreationsAreTrue, OneAnswerEach, AnswersBringIdentity, CookieAfter,
        IdentitiesAreKept, AnswerTyped, AnswersAreTrue, OwnURLsOnly, DeletedIsGone,
        PatientBrowsersFindTheirURLs, Bound
  <2> QED
    BY <2>1, <2>2, <2>3, <2>4, Zenon DEF Next
<1> QED
  BY <1>1, <1>2, PTL DEF Spec

\* The variables of the server model keep their types.
THEOREM TypesAreRight == Spec => []TypeOK
<1>1. Inv => TypeOK
  BY TypeParts DEF Inv
<1> QED
  BY <1>1, Invariance, PTL

\* A pair a client is told of is in the store: one just created, one a conflict names,
\* one that is listed or redirected to, each URL of a batch. Only a redirect after a
\* failed read and the expansion of a deleted short URL name another URL, and which.
THEOREM ClientsAreToldTheTruth == Spec => []AnswersAreTrue
<1>1. Inv => AnswersAreTrue
  BY DEF Inv
<1> QED
  BY <1>1, Invariance, PTL

\* Nobody is listed what another browser has made, and a deletion that will be
\* carried out is one its maker has asked for.
THEOREM BrowsersAreKeptApart == Spec => []OwnURLsOnly
<1>1. Inv => OwnURLsOnly
  BY DEF Inv
<1> QED
  BY <1>1, Invariance, PTL

\* A deleted short URL is neither redirected nor listed.
THEOREM DeletedStaysGone == Spec => []DeletedIsGone
<1>1. Inv => DeletedIsGone
  BY DEF Inv
<1> QED
  BY <1>1, Invariance, PTL

\* A browser that waits for its answers is listed all it was told it has created,
\* until it is deleted or the token expires.
THEOREM WaitingIsRewarded == Spec => []PatientBrowsersFindTheirURLs
<1>1. Inv => PatientBrowsersFindTheirURLs
  BY DEF Inv
<1> QED
  BY <1>1, Invariance, PTL
=============================================================================
