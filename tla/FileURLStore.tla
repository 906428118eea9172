---------------------------- MODULE FileURLStore ----------------------------
(***************************************************************************)
(* internal/persistance/file: the store that keeps a map in memory and     *)
(* appends every change to a file of JSON values, opened with O_APPEND     *)
(* and read back, record by record, when the process starts.               *)
(*                                                                         *)
(* Every method holds the mutex from its first line to its return.  What   *)
(* can come between its steps is an error of the file and the end of the   *)
(* process, after which a new process loads the file.  A process that is   *)
(* killed loses its memory, not what it has written: write(2) returned.    *)
(*                                                                         *)
(* The map holds the strings it is given, the file what JSON makes of      *)
(* them: encoding/json replaces bytes that are not UTF-8 by U+FFFD.  Short *)
(* URLs and user IDs are text; an original URL is any body a client sends. *)
(***************************************************************************)
EXTENDS Domain, SequencesExt

CONSTANTS AsText,      \* for each original URL the text JSON writes for it
          Procs,       \* request goroutines
          NoProc,      \* nobody holds the mutex
          Torn,        \* a JSON value cut short
          WriteErrors, \* may a write to the file fail?
          TornWrites,  \* may a write that fails or is interrupted be partial?
          MaxBatch,    \* bound on the length of the batch AddURLs is given
          MaxDeletes,  \* bound on the length of the list DeleteUserURLs is given
          MaxRecords,  \* no writing call starts when the file is this long
          MaxCrashes   \* bound on the crashes

ASSUME BoundsAreNats == {MaxBatch, MaxDeletes, MaxRecords, MaxCrashes} \subseteq Nat
ASSUME SwitchesAreBools == {WriteErrors, TornWrites} \subseteq BOOLEAN
ASSUME NoProcIsNoProc == NoProc \notin Procs

\* Text is written as it is.
ASSUME AsTextCoerces ==
    /\ AsText \in [OriginalURLs -> OriginalURLs]
    /\ \A o \in OriginalURLs : AsText[AsText[o]] = AsText[o]

Texts == {AsText[o] : o \in OriginalURLs}

TextRecords == {rec \in URLRecords : rec.originalURL \in Texts}

\* A line of the file.
StoredURLs == [ShortURL : ShortURLs, rec : TextRecords]

\* What the file keeps of a record.
Stored(rec) == [rec EXCEPT !.originalURL = AsText[@]]

\* What a restart would read of a map, were it all written.
AsRead(map) == [s \in ShortURLs |-> IF map[s] = Absent THEN Absent ELSE Stored(map[s])]

ASSUME TornIsNoRecord == Torn \notin StoredURLs

VARIABLES file,      \* the lines of the file
          phase,     \* of the process: it loads the file, serves, or has given up
          pos,       \* the line readURLs decodes next
          m,         \* the map
          encErr,    \* the json.Encoder has failed, and keeps failing
          mu,        \* who holds the mutex
          pc, call, i, answer,  \* of each goroutine
          promised,  \* history: what the answers told the clients
          crashes    \* history: how many there were

vars == <<file, phase, pos, m, encErr, mu, pc, call, i, answer, promised, crashes>>

NoCall == [op |-> "none"]

AddURLCalls == [op : {"AddURL"}, userID : UserIDs, pairs : [1..1 -> URLPairs]]

\* A batch has come as JSON, and has been read as text.
AddURLsCalls == [op : {"AddURLs"}, userID : UserIDs,
                 pairs : BoundedSeq({pair \in URLPairs : pair.OriginalURL \in Texts},
                                    MaxBatch) \ {<< >>}]

DeleteUserURLsCalls == [op : {"DeleteUserURLs"}, userID : UserIDs,
                        shortURLs : BoundedSeq(ShortURLs, MaxDeletes)]

\* GetOriginalURL and GetUserURLs: they only read, with the mutex held.
GetCalls == {[op |-> "Get"]}

AddCalls == AddURLCalls \cup AddURLsCalls

Calls == {NoCall} \cup AddCalls \cup DeleteUserURLsCalls \cup GetCalls

Adds(c) == c.op \in {"AddURL", "AddURLs"}

\* The short URLs of the pairs a call was given.
IDsOf(c) == IF Adds(c) THEN {c.pairs[k].ShortURL : k \in DOMAIN c.pairs} ELSE {}

\* The labels of a goroutine inside the critical section.
Locked == {"find", "add", "encode", "delete", "read", "unlock"}

WellTyped ==
    /\ file \in Seq(StoredURLs \cup {Torn})
    /\ phase \in {"loading", "serving", "failed"}
    /\ pos \in Nat \ {0}
    /\ m \in URLMaps
    /\ encErr \in BOOLEAN
    /\ mu \in Procs \cup {NoProc}
    /\ pc \in [Procs -> {"idle", "lock"} \cup Locked]
    /\ call \in [Procs -> Calls]
    /\ i \in [Procs -> Nat \ {0}]
    /\ answer \in [Procs -> {"ok", "exists", "error"}]
    /\ promised \in URLMaps
    /\ crashes \in 0..MaxCrashes
    /\ \A p \in Procs :
        /\ pc[p] = "idle" <=> call[p] = NoCall
        /\ pc[p] = "find" => call[p] \in AddURLCalls
        /\ pc[p] = "add" => call[p] \in AddCalls
        /\ pc[p] = "delete" => call[p] \in DeleteUserURLsCalls
        /\ pc[p] = "encode" =>
            \/ call[p] \in AddCalls /\ i[p] \in DOMAIN call[p].pairs
            \/ /\ call[p] \in DeleteUserURLsCalls
               /\ i[p] \in DOMAIN call[p].shortURLs

\* Who is between Lock and Unlock holds the mutex: one goroutine at a time.
OneIsLocked == \A p \in Procs : pc[p] \in Locked <=> mu = p

TypeOK == WellTyped /\ OneIsLocked

Init ==
    /\ file = << >>
    /\ phase = "loading"
    /\ pos = 1
    /\ m = EmptyMap
    /\ encErr = FALSE
    /\ mu = NoProc
    /\ pc = [p \in Procs |-> "idle"]
    /\ call = [p \in Procs |-> NoCall]
    /\ i = [p \in Procs |-> 1]
    /\ answer = [p \in Procs |-> "ok"]
    /\ promised = EmptyMap
    /\ crashes = 0

process == <<phase, pos, encErr>>      \* what only the life cycle changes
history == <<promised, crashes>>

-----------------------------------------------------------------------------
(***************************************************************************)
(* Opening: readURLs decodes line after line.  A line that cannot be       *)
(* decoded, or that gives a known original URL a new short URL, is an      *)
(* error of New, on which newFileStore ends the process.                   *)
(***************************************************************************)
\* Mutant: a second line of the same short URL counts as a duplicate.
Duplicates_Updates(line) == ShortURLsOf(m, line.rec.originalURL) # {}

Duplicates(line) ==
    m[line.ShortURL] = Absent /\ ShortURLsOf(m, line.rec.originalURL) # {}

\* Mutant: the first line of a short URL wins, not the last.
LoadRecord_FirstWins ==
    /\ phase = "loading"
    /\ pos \in DOMAIN file
    /\ file[pos] # Torn
    /\ ~Duplicates(file[pos])
    /\ m' = IF m[file[pos].ShortURL] = Absent
            THEN [m EXCEPT ![file[pos].ShortURL] = file[pos].rec]
            ELSE m
    /\ pos' = pos + 1
    /\ UNCHANGED <<file, phase, encErr, mu, pc, call, i, answer, history>>

LoadRecord ==
    /\ phase = "loading"
    /\ pos \in DOMAIN file
    /\ file[pos] # Torn
    /\ ~Duplicates(file[pos])
    /\ m' = [m EXCEPT ![file[pos].ShortURL] = file[pos].rec]
    /\ pos' = pos + 1
    /\ UNCHANGED <<file, phase, encErr, mu, pc, call, i, answer, history>>

LoadFails ==
    /\ phase = "loading"
    /\ pos \in DOMAIN file
    /\ file[pos] # Torn => Duplicates(file[pos])
    /\ phase' = "failed"
    /\ UNCHANGED <<file, pos, m, encErr, mu, pc, call, i, answer, history>>

\* dec.More() is false: the server starts.
LoadEnd ==
    /\ phase = "loading"
    /\ pos \notin DOMAIN file
    /\ phase' = "serving"
    /\ UNCHANGED <<file, pos, m, encErr, mu, pc, call, i, answer, history>>

-----------------------------------------------------------------------------
\* The handlers give every pair a short URL nobody has: a random number.
FreshIDs(c) ==
    /\ \A s \in IDsOf(c) :
        /\ m[s] = Absent /\ promised[s] = Absent
        /\ \A k \in DOMAIN file : file[k] # Torn => file[k].ShortURL # s
        /\ \A p \in Procs : s \notin IDsOf(call[p])
    /\ \A j, k \in DOMAIN c.pairs : c.pairs[j].ShortURL = c.pairs[k].ShortURL => j = k

Begin(p, c) ==
    /\ phase = "serving"
    /\ pc[p] = "idle"
    /\ pc' = [pc EXCEPT ![p] = "lock"]
    /\ call' = [call EXCEPT ![p] = c]
    /\ UNCHANGED <<file, m, mu, i, answer, process, history>>

BeginAdd(p) ==
    /\ Len(file) < MaxRecords
    /\ \E c \in AddCalls : FreshIDs(c) /\ Begin(p, c)

BeginDeleteUserURLs(p) ==
    /\ Len(file) < MaxRecords
    /\ \E c \in DeleteUserURLsCalls : Begin(p, c)

BeginGet(p) == \E c \in GetCalls : Begin(p, c)

FirstLabel(c) ==
    CASE c.op = "AddURL" -> "find"
      [] c.op = "AddURLs" -> "add"
      [] c.op = "DeleteUserURLs" -> "delete"
      [] c.op = "Get" -> "read"

\* Mutant: the method does not wait for the mutex.
Lock_DoesNotWait(p) ==
    /\ pc[p] = "lock"
    /\ mu' = p
    /\ pc' = [pc EXCEPT ![p] = FirstLabel(call[p])]
    /\ UNCHANGED <<file, m, call, i, answer, process, history>>

Lock(p) ==
    /\ pc[p] = "lock"
    /\ mu = NoProc
    /\ mu' = p
    /\ pc' = [pc EXCEPT ![p] = FirstLabel(call[p])]
    /\ UNCHANGED <<file, m, call, i, answer, process, history>>

\* The goroutine moves on to label inside the critical section.
Goto(p, label) ==
    /\ pc' = [pc EXCEPT ![p] = label]
    /\ UNCHANGED <<mu, call, process, history>>

-----------------------------------------------------------------------------
\* AddURL: findShortURL finds the original URL.
FindHit(p) ==
    /\ pc[p] = "find"
    /\ ShortURLsOf(m, call[p].pairs[1].OriginalURL) # {}
    /\ answer' = [answer EXCEPT ![p] = "exists"]
    /\ Goto(p, "unlock")
    /\ UNCHANGED <<file, m, i>>

\* Mutant: the search passes over deleted URLs.
FindMiss_SkipsDeleted(p) ==
    /\ pc[p] = "find"
    /\ \A s \in ShortURLsOf(m, call[p].pairs[1].OriginalURL) : m[s].isDeleted
    /\ Goto(p, "add")
    /\ UNCHANGED <<file, m, i, answer>>

FindMiss(p) ==
    /\ pc[p] = "find"
    /\ ShortURLsOf(m, call[p].pairs[1].OriginalURL) = {}
    /\ Goto(p, "add")
    /\ UNCHANGED <<file, m, i, answer>>

\* AddURL, and one turn of the loop of AddURLs: the map first, then the file.
Put(p) ==
    /\ pc[p] = "add"
    /\ i[p] \in DOMAIN call[p].pairs
    /\ LET pair == call[p].pairs[i[p]] IN
        m' = [m EXCEPT ![pair.ShortURL] = NewRecord(pair, call[p].userID)]
    /\ Goto(p, "encode")
    /\ UNCHANGED <<file, i, answer>>

AddEnd(p) ==
    /\ pc[p] = "add"
    /\ i[p] \notin DOMAIN call[p].pairs
    /\ Goto(p, "unlock")
    /\ UNCHANGED <<file, m, i, answer>>

\* DeleteUserURLs: one turn of its loop.
OwnedBy(s, u) == m[s] # Absent /\ m[s].userID = u

Skip(p) ==
    /\ pc[p] = "delete"
    /\ i[p] \in DOMAIN call[p].shortURLs
    /\ ~OwnedBy(call[p].shortURLs[i[p]], call[p].userID)
    /\ i' = [i EXCEPT ![p] = @ + 1]
    /\ Goto(p, "delete")
    /\ UNCHANGED <<file, m, answer>>

Mark(p) ==
    /\ pc[p] = "delete"
    /\ i[p] \in DOMAIN call[p].shortURLs
    /\ OwnedBy(call[p].shortURLs[i[p]], call[p].userID)
    /\ m' = [m EXCEPT ![call[p].shortURLs[i[p]]] = Tombstone(@)]
    /\ Goto(p, "encode")
    /\ UNCHANGED <<file, i, answer>>

DeleteEnd(p) ==
    /\ pc[p] = "delete"
    /\ i[p] \notin DOMAIN call[p].shortURLs
    /\ Goto(p, "unlock")
    /\ UNCHANGED <<file, m, i, answer>>

Read(p) ==
    /\ pc[p] = "read"
    /\ Goto(p, "unlock")
    /\ UNCHANGED <<file, m, i, answer>>

-----------------------------------------------------------------------------
(***************************************************************************)
(* u.encoder.Encode(rec): one write of one line, which holds the text of   *)
(* the record in the map.  A json.Encoder whose write failed answers every *)
(* later Encode with the same error and writes nothing more.               *)
(***************************************************************************)
Line(p) ==
    LET s == IF Adds(call[p]) THEN call[p].pairs[i[p]].ShortURL
                              ELSE call[p].shortURLs[i[p]]
    IN  [ShortURL |-> s, rec |-> Stored(m[s])]

\* What a write that does not succeed may leave: nothing, a part, all but the
\* newline.
Remains(p) ==
    {file, Append(file, Line(p))} \cup (IF TornWrites THEN {Append(file, Torn)} ELSE {})

Encode(p) ==
    /\ pc[p] = "encode"
    /\ ~encErr
    /\ file' = Append(file, Line(p))
    /\ i' = [i EXCEPT ![p] = @ + 1]
    /\ Goto(p, IF Adds(call[p]) THEN "add" ELSE "delete")
    /\ UNCHANGED <<m, answer>>

\* Mutant: the error is logged and the method returns nil.
EncodeFails_Swallowed(p) ==
    /\ pc[p] = "encode"
    /\ IF encErr THEN UNCHANGED file ELSE WriteErrors /\ file' \in Remains(p)
    /\ encErr' = TRUE
    /\ pc' = [pc EXCEPT ![p] = "unlock"]
    /\ UNCHANGED <<phase, pos, m, mu, call, i, answer, history>>

\* Mutant: the encoder is replaced after an error and writes again.
EncodeFails_NewEncoder(p) ==
    /\ pc[p] = "encode"
    /\ WriteErrors /\ file' \in Remains(p)
    /\ answer' = [answer EXCEPT ![p] = "error"]
    /\ pc' = [pc EXCEPT ![p] = "unlock"]
    /\ UNCHANGED <<phase, pos, m, encErr, mu, call, i, history>>

\* Mutant: the error path returns without unlocking.
EncodeFails_KeepsMutex(p) ==
    /\ pc[p] = "encode"
    /\ IF encErr THEN UNCHANGED file ELSE WriteErrors /\ file' \in Remains(p)
    /\ encErr' = TRUE
    /\ pc' = [pc EXCEPT ![p] = "idle"]
    /\ call' = [call EXCEPT ![p] = NoCall]
    /\ i' = [i EXCEPT ![p] = 1]
    /\ UNCHANGED <<phase, pos, m, mu, answer, history>>

\* The method returns the error; what it put into the map stays there.
EncodeFails(p) ==
    /\ pc[p] = "encode"
    /\ IF encErr THEN UNCHANGED file ELSE WriteErrors /\ file' \in Remains(p)
    /\ encErr' = TRUE
    /\ answer' = [answer EXCEPT ![p] = "error"]
    /\ pc' = [pc EXCEPT ![p] = "unlock"]
    /\ UNCHANGED <<phase, pos, m, mu, call, i, history>>

\* What a client that got the answer nil relies on from then on.
Promise(c, s) ==
    IF s \in IDsOf(c)
    THEN NewRecord(CHOOSE pair \in ToSet(c.pairs) : pair.ShortURL = s, c.userID)
    ELSE IF /\ c.op = "DeleteUserURLs" /\ s \in ToSet(c.shortURLs)
            /\ promised[s] # Absent /\ promised[s].userID = c.userID
         THEN Tombstone(promised[s])
         ELSE promised[s]

\* The deferred u.mu.Unlock(), and the answer.
Unlock(p) ==
    /\ pc[p] = "unlock"
    /\ mu' = NoProc
    /\ promised' = IF answer[p] = "ok"
                   THEN [s \in ShortURLs |-> Promise(call[p], s)]
                   ELSE promised
    /\ pc' = [pc EXCEPT ![p] = "idle"]
    /\ call' = [call EXCEPT ![p] = NoCall]
    /\ i' = [i EXCEPT ![p] = 1]
    /\ answer' = [answer EXCEPT ![p] = "ok"]
    /\ UNCHANGED <<file, m, process, crashes>>

-----------------------------------------------------------------------------
\* A new process opens the file.
Start ==
    /\ phase' = "loading"
    /\ pos' = 1
    /\ m' = EmptyMap
    /\ encErr' = FALSE
    /\ mu' = NoProc
    /\ pc' = [p \in Procs |-> "idle"]
    /\ call' = [p \in Procs |-> NoCall]
    /\ i' = [p \in Procs |-> 1]
    /\ answer' = [p \in Procs |-> "ok"]
    /\ UNCHANGED promised

\* The process ends at any moment of its service, maybe in the middle of a
\* write, and is started again.
Crash ==
    /\ phase = "serving"
    /\ crashes < MaxCrashes
    /\ \/ UNCHANGED file
       \/ \E p \in Procs : pc[p] = "encode" /\ ~encErr /\ file' \in Remains(p)
    /\ crashes' = crashes + 1
    /\ Start

\* Somebody tries again to start a process that could not open the file.
Retry ==
    /\ phase = "failed"
    /\ Start
    /\ UNCHANGED <<file, crashes>>

Load == LoadRecord \/ LoadFails \/ LoadEnd

Begins(p) == BeginAdd(p) \/ BeginDeleteUserURLs(p) \/ BeginGet(p)

Steps(p) ==
    \/ FindHit(p) \/ FindMiss(p) \/ Put(p) \/ AddEnd(p)
    \/ Skip(p) \/ Mark(p) \/ DeleteEnd(p) \/ Read(p)
    \/ Encode(p) \/ EncodeFails(p) \/ Unlock(p)

Next ==
    \/ Load
    \/ \E p \in Procs : Begins(p) \/ Lock(p) \/ Steps(p)
    \/ Crash
    \/ Retry

(***************************************************************************)
(* The scheduler runs every goroutine again, and sync.Mutex hands itself   *)
(* over to a goroutine that has waited for a millisecond: whoever finds it *)
(* free again and again gets it.  Nothing obliges a client to call, or the *)
(* process to crash.                                                       *)
(***************************************************************************)
Fairness == \A p \in Procs : WF_vars(Steps(p)) /\ SF_vars(Lock(p))

Spec == Init /\ [][Next]_vars

FairSpec == Spec /\ Fairness

-----------------------------------------------------------------------------
\* What the first n lines of the file say: for every short URL the last one.
LinesFor(s, n) == {k \in 1..n : file[k] # Torn /\ file[k].ShortURL = s}

LoadedFrom(n) ==
    [s \in ShortURLs |->
        IF LinesFor(s, n) = {} THEN Absent
        ELSE file[CHOOSE k \in LinesFor(s, n) : \A l \in LinesFor(s, n) : l <= k].rec]

Durable == LoadedFrom(Len(file))

(***************************************************************************)
(* What a client was told still holds whenever the store serves, also      *)
(* after crashes, restarts and failed writes: a URL whose AddURL or AddURLs*)
(* was answered without an error resolves to what it was added for, and is *)
(* deleted if its deletion was.  What comes back from the file is the text *)
(* of a URL, the URL itself if it was text.                                *)
(***************************************************************************)
PromisesAreKept ==
    phase = "serving" =>
        \A s \in Bound(promised) :
            \E rec \in {promised[s], Stored(promised[s])} : m[s] \in {rec, Tombstone(rec)}

(***************************************************************************)
(* Between two calls the map, as text, is what a restart would load, as    *)
(* long as no write has failed; after a failed write it still holds        *)
(* everything the file does, so that no restart shows a client a URL it    *)
(* never saw.                                                              *)
(***************************************************************************)
MapMatchesFile ==
    phase = "serving" =>
        /\ mu = NoProc /\ ~encErr => AsRead(m) = Durable
        /\ \A s \in Bound(Durable) : AsRead(m)[s] \in {Durable[s], Tombstone(Durable[s])}

(***************************************************************************)
(* readURLs gives up for a reason: a line is cut short, or two short URLs  *)
(* of the file share an original URL.                                      *)
(***************************************************************************)
FailsForAReason ==
    phase = "failed" =>
        \/ \E k \in DOMAIN file : file[k] = Torn
        \/ \E s, t \in Bound(Durable) :
            s # t /\ Durable[s].originalURL = Durable[t].originalURL

(***************************************************************************)
(* The file is append-only and its content implements the URLStore         *)
(* interface: across crashes and failed writes a binding, once in the      *)
(* file, is never lost or given to another, and it is in the file before   *)
(* its deletion is.                                                        *)
(***************************************************************************)
Abstract == INSTANCE URLStore WITH urls <- Durable

RefinesURLStore == Abstract!Spec

(***************************************************************************)
(* An original URL has one short URL: with the mutex held, nobody adds it  *)
(* between the search of AddURL and its write.                             *)
(***************************************************************************)
OriginalURLsAreUnique ==
    \A s, t \in Bound(m) : m[s].originalURL = m[t].originalURL => s = t

(***************************************************************************)
(* The store can open every file it has written.                           *)
(***************************************************************************)
StoreReopens == phase # "failed"

\* A text that is also written for something else.
IsCoerced(text) == \E o \in OriginalURLs : o # text /\ AsText[o] = text

(***************************************************************************)
(* Where only AddURL adds and no write is partial, the store opens every   *)
(* file it has written, but for bodies that were not text: two of them may *)
(* be one original URL in the file.                                        *)
(***************************************************************************)
FailsOnlyForCoercedURLs ==
    phase = "failed" =>
        \E s, t \in Bound(Durable) :
            /\ s # t /\ Durable[s].originalURL = Durable[t].originalURL
            /\ IsCoerced(Durable[s].originalURL)

(***************************************************************************)
(* Every call returns, or ends with its process: no path through a method  *)
(* keeps the mutex.                                                        *)
(***************************************************************************)
CallsReturn == \A p \in Procs : pc[p] = "lock" ~> pc[p] = "idle"
=============================================================================
