------------------------------- MODULE Domain -------------------------------
(***************************************************************************)
(* The vocabulary of internal/domain shared by every store: URL pairs,     *)
(* user identifiers, the record a store keeps for a short URL, and the     *)
(* answers a store gives.                                                  *)
(*                                                                         *)
(* Short URLs, original URLs and users are uninterpreted values: the       *)
(* stores only ever compare them.                                          *)
(***************************************************************************)

CONSTANTS ShortURLs,     \* values shortener.Shorten can produce
          OriginalURLs,  \* non-empty bodies a client may ask to shorten
          UserIDs,       \* UUIDs handed out by NewUserID
          Absent         \* what a map lookup yields for a missing key

URLPairs == [ShortURL : ShortURLs, OriginalURL : OriginalURLs]

URLRecords == [originalURL : OriginalURLs, userID : UserIDs, isDeleted : BOOLEAN]

ASSUME AbsentIsNoRecord == Absent \notin URLRecords

\* A store's content: one record, or none, for each short URL.
URLMaps == [ShortURLs -> URLRecords \cup {Absent}]

EmptyMap == [s \in ShortURLs |-> Absent]

\* The record AddURL and AddURLs build for a pair; isDeleted is Go's zero value.
NewRecord(pair, u) ==
    [originalURL |-> pair.OriginalURL, userID |-> u, isDeleted |-> FALSE]

\* The record DeleteUserURLs writes back.
Tombstone(rec) == [rec EXCEPT !.isDeleted = TRUE]

Bound(map) == {s \in ShortURLs : map[s] # Absent}

\* The content after some rows have been written over it.
Updated(map, rows) == [s \in ShortURLs |-> IF rows[s] = Absent THEN map[s] ELSE rows[s]]

\* The loop body of GetUserURLs: a record of the user's that is not deleted.
Lists(rec, u) == rec.userID = u /\ ~rec.isDeleted

\* findShortURL: the keys it may return for an original URL. Map iteration
\* has no order in Go, so any of them may be the one.
ShortURLsOf(map, original) == {s \in Bound(map) : map[s].originalURL = original}
=============================================================================
