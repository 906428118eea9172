------------------------------ MODULE URLStore ------------------------------
(***************************************************************************)
(* What the URLStore interface promises about the life of a short URL,     *)
(* whatever the storage behind it: it is bound once to an original URL and *)
(* an owner, it keeps both, and the only later change is that it becomes   *)
(* deleted.  The stores of internal/persistance implement this             *)
(* specification step by step, one record at a time.                       *)
(***************************************************************************)
EXTENDS Domain

VARIABLE urls

TypeOK == urls \in URLMaps

Init == urls = EmptyMap

\* AddURL, and AddURLs one pair at a time.
Add(s, rec) ==
    /\ urls[s] = Absent
    /\ ~rec.isDeleted
    /\ urls' = [urls EXCEPT ![s] = rec]

\* DeleteUserURLs, one short URL at a time.
Delete(s) ==
    /\ urls[s] # Absent
    /\ urls' = [urls EXCEPT ![s] = Tombstone(@)]

Next ==
    \E s \in ShortURLs :
        \/ \E rec \in URLRecords : Add(s, rec)
        \/ Delete(s)

Spec == Init /\ [][Next]_urls

(***************************************************************************)
(* A binding is for ever: no step unbinds a short URL, gives it to another *)
(* original URL or another owner, or brings a deleted one back to life.    *)
(***************************************************************************)
BindingsArePermanent ==
    [][\A s \in Bound(urls) : urls'[s] \in {urls[s], Tombstone(urls[s])}]_urls
=============================================================================
