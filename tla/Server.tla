------------------------------- MODULE Server -------------------------------
(***************************************************************************)
(* internal/server/server.go with the middleware that authenticates: what  *)
(* the handlers make of requests, cookies and the outcomes of a store.     *)
(*                                                                         *)
(* A browser sends requests, possibly several at a time, with the cookie   *)
(* it holds.  Decoding, authentication and handler are one step, because   *)
(* the store is called once and nothing before or after the call touches   *)
(* what another request could see; what the answer brings the browser is   *)
(* on its way until it arrives or is lost.  The store is the abstract one, *)
(* with every outcome the three stores can have in the life of a process.  *)
(* A deletion is carried out later, by the remover.                        *)
(*                                                                         *)
(* A URL changes on its way.  A body is taken as the bytes it is, while    *)
(* encoding/json, reading or writing, makes UTF-8 of them.  http.Redirect  *)
(* makes a URL without a scheme a path of this service ("foo.net" becomes  *)
(* "/foo.net", the empty URL "/") and escapes what is not ASCII.           *)
(***************************************************************************)
EXTENDS Shortener, SequencesExt, FiniteSets

CONSTANTS Browsers,     \* clients, each with its cookie
          OriginalURLs, \* URLs to shorten
          NoURL,        \* the empty URL; also a body that cannot be read
          AsText,       \* for each URL what encoding/json makes of it
          Location,     \* for each URL what http.Redirect makes of it
          UserIDs,      \* UUIDs handed out by NewUserID, each at most once
          IDs,          \* numbers uuid.New().ID() yields
          Absent,       \* no record under a short URL
          Nothing,      \* no answer, no cookie, no maker
          MaxCount,     \* shortenURLsMaxCount
          TokenExp,     \* tokenExp, in ticks of the clock
          MaxTime,      \* bound: the last tick
          MaxInFlight,  \* bound: answers on their way
          Faults        \* may the store fail?

ASSUME NumbersAreNat ==
    IDs \subseteq Nat /\ {MaxCount, TokenExp, MaxTime, MaxInFlight} \subseteq Nat \ {0}
ASSUME NoURLIsNone == NoURL \notin OriginalURLs
ASSUME FaultsIsBool == Faults \in BOOLEAN
ASSUME AsTextCoerces ==
    /\ AsText \in [OriginalURLs -> OriginalURLs]
    /\ \A o \in OriginalURLs : AsText[AsText[o]] = AsText[o]
ASSUME LocationsAreOfURLs == DOMAIN Location = OriginalURLs \cup {NoURL}

\* The URLs that come as JSON.
Texts == {AsText[o] : o \in OriginalURLs}

\* The Location headers there are.
Locations == {Location[url] : url \in OriginalURLs \cup {NoURL}}

ShortURLs == {Shorten(id) : id \in IDs}

INSTANCE Domain

VARIABLES urls,     \* the content of the store
          drawn,    \* numbers whose short URLs were given to the store
          removals, \* deletions accepted and not carried out yet, with who asked for them
          expires,  \* when the token of a user ID expires; 0 for an ID never used
          now,      \* the time
          jar,      \* the cookie a browser holds
          answer,   \* the answer the last step has given, if it gave one
          inFlight, \* what answers will bring their browsers
          maker,    \* history: the browser whose request stored a short URL
          told,     \* history: short URLs whose maker was told it has created them
          raced     \* history: browsers that did not wait for an answer

store == <<urls, drawn, maker>>
vars == <<store, removals, expires, now, jar, answer, inFlight, told, raced>>

Cookies == [userID : UserIDs, expires : 1..(MaxTime + TokenExp)]

ASSUME RecordsArePresent == Absent \notin URLRecords
ASSUME NothingIsNothing == Nothing \notin Browsers \cup Cookies

Deliveries == [browser : Browsers, cookie : Cookies \cup {Nothing}, creates : SUBSET ShortURLs]

TypeOK ==
    /\ urls \in URLMaps
    /\ drawn \subseteq IDs
    /\ Bound(urls) = {Shorten(id) : id \in drawn}
    /\ removals \subseteq [key : Bound(urls), userID : UserIDs, browser : Browsers]
    /\ expires \in [UserIDs -> 0..(MaxTime + TokenExp)]
    /\ now \in 0..MaxTime
    /\ jar \in [Browsers -> Cookies \cup {Nothing}]
    /\ answer # Nothing =>
        /\ answer.browser \in Browsers
        /\ answer.status \in {200, 201, 202, 204, 307, 400, 401, 403, 404, 409, 410, 500}
        /\ answer.says \subseteq [ShortURL : ShortURLs,
                                  OriginalURL : OriginalURLs \cup Locations \cup {NoURL}]
    /\ inFlight \subseteq Deliveries
    /\ \A s \in ShortURLs : maker[s] \in Browsers <=> s \in Bound(urls)
    /\ told \subseteq Bound(urls)
    /\ raced \subseteq Browsers

Init ==
    /\ urls = EmptyMap /\ drawn = {} /\ removals = {}
    /\ expires = [u \in UserIDs |-> 0]
    /\ now = 0
    /\ jar = [b \in Browsers |-> Nothing]
    /\ answer = Nothing
    /\ inFlight = {}
    /\ maker = [s \in ShortURLs |-> Nothing]
    /\ told = {} /\ raced = {}

-----------------------------------------------------------------------------
(***************************************************************************)
(* The client's side: an answer arrives, and its Set-Cookie replaces the   *)
(* cookie; or the connection breaks first.                                 *)
(***************************************************************************)
Receive ==
    /\ \E d \in inFlight :
        /\ jar' = IF d.cookie = Nothing THEN jar ELSE [jar EXCEPT ![d.browser] = d.cookie]
        /\ told' = told \cup d.creates
        /\ inFlight' = inFlight \ {d}
    /\ answer' = Nothing
    /\ UNCHANGED <<store, removals, expires, now, raced>>

Lose ==
    /\ \E d \in inFlight : inFlight' = inFlight \ {d}
    /\ answer' = Nothing
    /\ UNCHANGED <<store, removals, expires, now, jar, told, raced>>

Tick ==
    /\ now < MaxTime
    /\ now' = now + 1
    /\ answer' = Nothing
    /\ UNCHANGED <<store, removals, expires, jar, inFlight, told, raced>>

-----------------------------------------------------------------------------
(***************************************************************************)
(* middleware.Auth: the ID in a valid token, or else a new one, which the  *)
(* answer carries back in a cookie.                                        *)
(***************************************************************************)
\* ParseJWT. The browser sends the cookie it holds, also a stale one: an
\* expired token may have left the browser in time.
HasValidToken(b) == jar[b] # Nothing /\ now < jar[b].expires

NewUsers == {[ID |-> u, IsNew |-> TRUE] : u \in {v \in UserIDs : expires[v] = 0}}

\* Mutant: the error of GetUserID is ignored, and the ID it comes with used.
createOrGetUserID_IgnoresError(b) ==
    {[ID |-> IF HasValidToken(b) THEN jar[b].userID ELSE CHOOSE u \in UserIDs : TRUE,
      IsNew |-> FALSE]}

\* Mutant: every request gets a new ID.
createOrGetUserID_AlwaysNew(b) == NewUsers

\* The handler's caller, customctx.User.
createOrGetUserID(b) ==
    IF HasValidToken(b) THEN {[ID |-> jar[b].userID, IsNew |-> FALSE]} ELSE NewUsers

\* A request of the browser is answered: a status, the cookie of a new user,
\* and the pairs that the reader takes from the body. "failed", for the
\* properties, says whether the store returned an error.
Respond(b, cookie, status, says, failed) ==
    LET creates == IF status = 201 THEN {pair.ShortURL : pair \in says} ELSE {} IN
    /\ answer' = [browser |-> b, status |-> status, says |-> says, failed |-> failed]
    /\ inFlight' = IF cookie = Nothing /\ creates = {} THEN inFlight
                   ELSE inFlight \cup {[browser |-> b, cookie |-> cookie, creates |-> creates]}
    /\ raced' = IF \E d \in inFlight : d.browser = b THEN raced \cup {b} ELSE raced
    /\ UNCHANGED <<now, jar, told>>

\* The same behind the Auth middleware: CreateCookie and SetCookie.
RespondTo(b, user, status, says, failed) ==
    LET until == now + TokenExp IN
    /\ expires' = IF user.IsNew THEN [expires EXCEPT ![user.ID] = until] ELSE expires
    /\ Respond(b, IF user.IsNew THEN [userID |-> user.ID, expires |-> until] ELSE Nothing,
               status, says, failed)

Answers(b, user, status, says) == RespondTo(b, user, status, says, FALSE)

Fails(b, user, status) == Faults /\ RespondTo(b, user, status, {}, TRUE)

-----------------------------------------------------------------------------
(***************************************************************************)
(* shorten and shortenAPI.                                                 *)
(***************************************************************************)
PairOf(id, url) == [ShortURL |-> Shorten(id), OriginalURL |-> url]

\* The store takes pairs made of numbers nobody has drawn and of URLs.
Stores(b, user, ids, batch) ==
    LET rows == [s \in ShortURLs |->
            IF \E k \in DOMAIN ids : Shorten(ids[k]) = s
            THEN [originalURL |-> batch[CHOOSE k \in DOMAIN ids : Shorten(ids[k]) = s],
                  userID |-> user.ID, isDeleted |-> FALSE]
            ELSE Absent]
    IN  /\ urls' = Updated(urls, rows)
        /\ drawn' = drawn \cup Range(ids)
        /\ maker' = [s \in ShortURLs |-> IF rows[s] = Absent THEN maker[s] ELSE b]

\* uuid.New().ID() for every URL of a batch.
Draws(batch) == {ids \in [DOMAIN batch -> IDs \ drawn] : IsInjective(ids)}

ShortenRefuses(b, user) ==
    /\ Answers(b, user, 400, {})
    /\ UNCHANGED <<store, removals>>

ShortenCreates(b, user) ==
    /\ \E id \in IDs \ drawn, url \in OriginalURLs :
        /\ Answers(b, user, 201, {PairOf(id, url)})
        /\ Stores(b, user, <<id>>, <<url>>)
    /\ UNCHANGED removals

\* Mutant: the answer names the short URL just made, which the store has not taken.
ShortenConflicts_OwnShortURL(b, user) ==
    /\ \E url \in OriginalURLs, id \in IDs \ drawn :
        /\ ShortURLsOf(urls, url) # {}
        /\ Answers(b, user, 409, {PairOf(id, url)})
    /\ UNCHANGED <<store, removals>>

\* OriginalURLExistsError: the answer names the short URL of the error.
ShortenConflicts(b, user) ==
    /\ \E url \in OriginalURLs, s \in ShortURLs :
        /\ s \in ShortURLsOf(urls, url)
        /\ Answers(b, user, 409, {[ShortURL |-> s, OriginalURL |-> url]})
    /\ UNCHANGED <<store, removals>>

\* Any other error: the pair may be in the store all the same.
ShortenFails(b, user) ==
    /\ Fails(b, user, 500)
    /\ \/ UNCHANGED store
       \/ \E url \in OriginalURLs, id \in IDs \ drawn : Stores(b, user, <<id>>, <<url>>)
    /\ UNCHANGED removals

-----------------------------------------------------------------------------
(***************************************************************************)
(* shortenURLs.                                                            *)
(***************************************************************************)
isTooManyURLs(batch) == Len(batch) > MaxCount

\* Batches, also ones with an empty URL, an empty one, one that is too long.
Batches == BoundedSeq(Texts \cup {NoURL}, MaxCount) \cup [1..(MaxCount + 1) -> {NoURL}]

\* Mutant: the URLs of a batch are not looked at.
StatusOf_TakesEmpty(batch) ==
    IF batch = << >> THEN 400 ELSE IF isTooManyURLs(batch) THEN 403 ELSE 201

\* The handler's checks in their order, and 201 for a batch they let through.
StatusOf(batch) ==
    IF batch = << >> THEN 400
    ELSE IF isTooManyURLs(batch) THEN 403
    ELSE IF NoURL \in ToSet(batch) THEN 400
    ELSE 201

Accepted == {batch \in Batches : StatusOf(batch) = 201}

Refusals == {StatusOf(batch) : batch \in Batches \ Accepted}

ShortenURLsRefuses(b, user) ==
    /\ \E status \in Refusals :
        Answers(b, user, status, {})
    /\ UNCHANGED <<store, removals>>

\* What the client reads from the answer: it finds the URL it sent by the
\* correlation ID, here the URL's place in its request.
Correlated(batch, ids) == {PairOf(ids[c], batch[c]) : c \in DOMAIN batch}

ShortenURLsCreates(b, user) ==
    /\ \E batch \in Accepted :
        \E ids \in Draws(batch) :
            /\ Answers(b, user, 201, Correlated(batch, ids))
            /\ Stores(b, user, ids, batch)
    /\ UNCHANGED removals

\* After an error any first part of a batch may be in the store.
Parts == UNION {{SubSeq(batch, 1, n) : n \in 0..Len(batch)} : batch \in Accepted}

ShortenURLsFails(b, user) ==
    /\ Fails(b, user, 500)
    /\ \E part \in Parts : \E ids \in Draws(part) : Stores(b, user, ids, part)
    /\ UNCHANGED removals

-----------------------------------------------------------------------------
(***************************************************************************)
(* redirect, for which nobody is authenticated.  An error it does not know *)
(* leaves it with an empty URL, and it redirects to that.                  *)
(***************************************************************************)
\* Mutant: the error for a deleted URL is one of those it does not know.
RedirectStatus_Deleted(rec) == IF rec = Absent THEN 404 ELSE 307

RedirectStatus(rec) == IF rec = Absent THEN 404 ELSE IF rec.isDeleted THEN 410 ELSE 307

\* client.Expand: every status but 404 has a location, if an empty one.
Expand(key, status, location) ==
    IF status = 404 THEN {} ELSE {[ShortURL |-> key, OriginalURL |-> location]}

Redirect(b) ==
    /\ \E key \in ShortURLs :
        LET status == RedirectStatus(urls[key])
            location == IF status = 307 THEN Location[urls[key].originalURL] ELSE NoURL
        IN  Respond(b, Nothing, status, Expand(key, status, location), FALSE)
    /\ UNCHANGED <<store, removals, expires>>

RedirectFails(b) ==
    /\ Faults
    /\ \E key \in ShortURLs :
        Respond(b, Nothing, 307, Expand(key, 307, Location[NoURL]), TRUE)
    /\ UNCHANGED <<store, removals, expires>>

-----------------------------------------------------------------------------
(***************************************************************************)
(* getUserURLs.  Its store call may fail: the error is ignored.            *)
(***************************************************************************)
ListedPairs(u) ==
    {[ShortURL |-> s, OriginalURL |-> AsText[urls[s].originalURL]] :
        s \in {k \in Bound(urls) : Lists(urls[k], u)}}

GetUserURLs(b, user) ==
    /\ LET pairs == ListedPairs(user.ID) IN
        \/ user.IsNew /\ Answers(b, user, 401, {})
        \/ /\ ~user.IsNew
           /\ Answers(b, user, IF pairs = {} THEN 204 ELSE 200, pairs)
        \/ ~user.IsNew /\ Fails(b, user, 204)
    /\ UNCHANGED <<store, removals>>

-----------------------------------------------------------------------------
(***************************************************************************)
(* deleteUserURLs, and the remover that carries a deletion out.  Nobody    *)
(* asks to delete a short URL that does not exist yet.  Bound: one         *)
(* deletion waits at a time.                                               *)
(***************************************************************************)
DeleteRefuses(b, user) ==
    /\ Answers(b, user, 400, {})
    /\ UNCHANGED <<store, removals>>

DeleteUserURLs(b, user) ==
    /\ removals = {}
    /\ \E s \in Bound(urls) :
        /\ Answers(b, user, 202, {})
        /\ removals' = {[key |-> s, userID |-> user.ID, browser |-> b]}
    /\ UNCHANGED store

Delete ==
    \E r \in removals :
        /\ urls' = IF urls[r.key].userID = r.userID
                   THEN [urls EXCEPT ![r.key] = Tombstone(@)] ELSE urls
        /\ removals' = removals \ {r}
        /\ answer' = Nothing
        /\ UNCHANGED <<drawn, maker, expires, now, jar, inFlight, told, raced>>

\* The error is logged.
DeleteFails ==
    /\ Faults
    /\ \E r \in removals : removals' = removals \ {r}
    /\ answer' = Nothing
    /\ UNCHANGED <<store, expires, now, jar, inFlight, told, raced>>

Handler(b, user) ==
    \/ ShortenRefuses(b, user) \/ ShortenCreates(b, user)
    \/ ShortenConflicts(b, user) \/ ShortenFails(b, user)
    \/ ShortenURLsRefuses(b, user) \/ ShortenURLsCreates(b, user) \/ ShortenURLsFails(b, user)
    \/ GetUserURLs(b, user)
    \/ DeleteRefuses(b, user) \/ DeleteUserURLs(b, user)

Next ==
    \/ \E b \in Browsers :
        /\ Cardinality(inFlight) < MaxInFlight
        /\ \/ \E user \in createOrGetUserID(b) : Handler(b, user)
           \/ Redirect(b) \/ RedirectFails(b)
    \/ Receive \/ Lose
    \/ Delete \/ DeleteFails
    \/ Tick

Spec == Init /\ [][Next]_vars

-----------------------------------------------------------------------------
\* What an answer of that status can say of a URL of the store.
Said(status, url) ==
    CASE status = 307 -> Location[url]
      [] status = 200 -> AsText[url]
      [] OTHER -> url

(***************************************************************************)
(* A pair a client is told of is in the store: what was just created, what *)
(* a conflict names, what a list shows, each URL of a batch with its own,  *)
(* and what a redirect makes of the URL.  Two answers name a URL that      *)
(* nobody shortened, and no others do: a redirect that takes the failure   *)
(* of the store for success leads to the root of the service, and a        *)
(* deleted short URL, and no live one, expands to the empty URL.           *)
(***************************************************************************)
AnswersAreTrue ==
    answer # Nothing => \A pair \in answer.says :
        \/ /\ ~answer.failed /\ answer.status # 410
           /\ urls[pair.ShortURL] # Absent
           /\ pair.OriginalURL = Said(answer.status, urls[pair.ShortURL].originalURL)
        \/ /\ answer.failed /\ answer.status = 307
           /\ pair.OriginalURL = Location[NoURL]
        \/ /\ ~answer.failed /\ answer.status = 410
           /\ urls[pair.ShortURL] # Absent /\ urls[pair.ShortURL].isDeleted
           /\ pair.OriginalURL = NoURL

(***************************************************************************)
(* The identities the cookies carry keep browsers apart: none is shown     *)
(* what another has made, and a deletion that will be carried out is one   *)
(* the maker of the short URL has asked for.                               *)
(***************************************************************************)
OwnURLsOnly ==
    /\ \A r \in removals : urls[r.key].userID = r.userID => r.browser = maker[r.key]
    /\ answer # Nothing /\ answer.status = 200 =>
        \A pair \in answer.says : maker[pair.ShortURL] = answer.browser

(***************************************************************************)
(* A deleted short URL is neither redirected nor listed any more.          *)
(***************************************************************************)
DeletedIsGone ==
    answer # Nothing /\ answer.status \in {200, 307} /\ ~answer.failed =>
        \A pair \in answer.says : ~urls[pair.ShortURL].isDeleted

(***************************************************************************)
(* A browser that waits for its answers finds in the list every short URL  *)
(* it was told it created, until it is deleted or the token it was created *)
(* with expires.  A browser whose first requests run at the same time gets *)
(* an identity for each, and keeps one of them.                            *)
(***************************************************************************)
PatientBrowsersFindTheirURLs ==
    answer # Nothing /\ answer.status \in {200, 204, 401} /\ ~answer.failed =>
        \A s \in told :
            \/ maker[s] # answer.browser
            \/ answer.browser \in raced
            \/ urls[s].isDeleted
            \/ expires[urls[s].userID] <= now
            \/ s \in {pair.ShortURL : pair \in answer.says}
=============================================================================
