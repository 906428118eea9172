----------------------- MODULE TransactionalURLStore -----------------------
(***************************************************************************)
(* What the table of the PostgreSQL store promises, beyond URLStore: a     *)
(* call takes effect at once, all its rows or none; a step never mixes the *)
(* rows of two users; and an original URL has one short URL.               *)
(***************************************************************************)
EXTENDS Domain

VARIABLE urls

UniqueOriginals(map) ==
    \A s, t \in Bound(map) : map[s].originalURL = map[t].originalURL => s = t

TypeOK == urls \in URLMaps

Init == urls = EmptyMap

\* AddURL and AddURLs: new rows of one user, under short URLs nobody has.
Add(rows, u) ==
    /\ \A s \in Bound(rows) : urls[s] = Absent /\ rows[s].userID = u /\ ~rows[s].isDeleted
    /\ urls' = Updated(urls, rows)
    /\ UniqueOriginals(urls')

\* DeleteUserURLs: some rows of one user.
Delete(S, u) ==
    /\ \A s \in S : urls[s].userID = u
    /\ urls' = [s \in ShortURLs |-> IF s \in S THEN Tombstone(urls[s]) ELSE urls[s]]

Next ==
    \E u \in UserIDs :
        \/ \E rows \in URLMaps : Add(rows, u)
        \/ \E S \in SUBSET Bound(urls) : Delete(S, u)

Spec == Init /\ [][Next]_urls
=============================================================================
