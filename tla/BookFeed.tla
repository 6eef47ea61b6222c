------------------------------ MODULE BookFeed ------------------------------
(***************************************************************************)
(* How a book reaches a screen (demo/src/lib/book-server.ts, useBook.ts):  *)
(* one server process with a cache per listing, reading the chain for any  *)
(* number of requests at once, and one page that polls it and may switch   *)
(* from one listing to another while an answer is on its way.              *)
(*                                                                         *)
(* A book is known by how long ago its reading began: no row in it is      *)
(* older.  Time is counted in ticks and only ages are kept, each up to the *)
(* age from which on nothing tells it apart.  JavaScript runs a callback   *)
(* to the end: every action is what runs between two awaits.               *)
(***************************************************************************)
EXTENDS Integers

CONSTANTS
    Symbol,     \* listings
    Live,       \* those the venue has markets for
    Visitor,    \* other requests under way at the server
    Slot,       \* places for the page's own requests
    Ttl,        \* TTL_MS in ticks
    Deadline    \* READ_DEADLINE_MS in ticks

ASSUME SymbolAssumption == Live \subseteq Symbol
ASSUME PlaceAssumption == Visitor \cap Slot = {}
ASSUME TimeAssumption == Ttl \in Nat \ {0} /\ Deadline \in Nat \ {0}

VARIABLES
    cache,      \* listing -> last good snapshot, with its age since it was set
    request,    \* what each request is doing
    symbol,     \* the page's listing
    ladder,     \* the listing whose rows the page shows, or None
    busy,       \* the page's guard against a second load
    caughtUp    \* history: a load begun for this listing has been shown

vars == <<cache, request, symbol, ladder, busy, caughtUp>>
page == <<symbol, ladder, busy, caughtUp>>

Requester == Visitor \cup Slot

None == [age |-> -1, since |-> -1]
Idle == [at |-> "idle"]

Oldest == Ttl + Deadline
AgedBy(n, cap) == IF n < cap THEN n + 1 ELSE cap
Aged(e) == IF e = None THEN None
           ELSE [age |-> AgedBy(e.age, Ttl), since |-> AgedBy(e.since, Oldest)]

(* A cold process; the page shows nothing, or what was rendered into it. *)
Init ==
    /\ cache = [s \in Live |-> None]
    /\ request = [r \in Requester |-> Idle]
    /\ symbol \in Symbol
    /\ ladder \in {"none", symbol}
    /\ busy = FALSE /\ caughtUp = FALSE

---------------------------------------------------------------------------
(* The server *)

(* since: how old the rows sent may be; kind: fresh, stale, empty.  An     *)
(* empty ladder goes with "retrying" and with "unknown".                   *)
Answer(s, kind, since) == [at |-> "answered", symbol |-> s, kind |-> kind, since |-> since]

Fallback(s, hit) ==
    IF hit = None THEN Answer(s, "empty", 0) ELSE Answer(s, "stale", hit.since)

IsFresh(e) == e # None /\ e.age < Ttl

(* What readBook does up to its first await. *)
Started(s) ==
    IF s \notin Live THEN Answer(s, "empty", 0)
    ELSE IF IsFresh(cache[s]) THEN Answer(s, "fresh", cache[s].since)
    ELSE [at |-> "reading", symbol |-> s, hit |-> cache[s], age |-> 0]

(* The chain answered before the deadline.  The two sides are read one     *)
(* after the other: age counts from the first.                             *)
ReadDone(r) ==
    LET q == request[r] IN
    /\ q.at = "reading"
    /\ request' = [request EXCEPT ![r] = Answer(q.symbol, "fresh", q.age)]
    /\ cache' = [cache EXCEPT ![q.symbol] = [age |-> 0, since |-> q.age]]
    /\ UNCHANGED page

(* The same, but the old snapshot goes back into the cache as a new one. *)
ReadLostRestamped(r) ==
    LET q == request[r] IN
    /\ q.at = "reading"
    /\ request' = [request EXCEPT ![r] = Fallback(q.symbol, q.hit)]
    /\ cache' = [cache EXCEPT ![q.symbol] =
           IF q.hit = None THEN @ ELSE [q.hit EXCEPT !.age = 0]]
    /\ UNCHANGED page

(* Every endpoint failed, or the deadline struck: the snapshot found at    *)
(* the start is served, whatever the cache holds by now.  What the losing  *)
(* read returns later is dropped.                                          *)
ReadLost(r) ==
    LET q == request[r] IN
    /\ q.at = "reading"
    /\ request' = [request EXCEPT ![r] = Fallback(q.symbol, q.hit)]
    /\ UNCHANGED <<cache, page>>

(* Other pages, and pages rendered with a first snapshot in them. *)
Visit(v, s) ==
    /\ request[v] = Idle
    /\ request' = [request EXCEPT ![v] = Started(s)]
    /\ UNCHANGED <<cache, page>>

Leave(v) ==
    /\ request[v].at = "answered"
    /\ request' = [request EXCEPT ![v] = Idle]
    /\ UNCHANGED <<cache, page>>

---------------------------------------------------------------------------
(* The page *)

(* The guard forgotten. *)
MayLoadAnyway == TRUE

(* load's guard looks at nothing but one flag, shared by all listings. *)
MayLoad == ~busy

(* The poll, the tab coming back to the front, a trade's refresh. *)
Load(l) ==
    /\ MayLoad /\ request[l] = Idle
    /\ busy' = TRUE
    /\ request' = [request EXCEPT ![l] = Started(symbol)]
    /\ UNCHANGED <<cache, symbol, ladder, caughtUp>>

(* The reader picks another listing: the ladder is cleared, and loaded     *)
(* anew unless a load is under way.                                        *)
Switch(l, s) ==
    /\ s # symbol
    /\ symbol' = s /\ ladder' = "none" /\ caughtUp' = FALSE
    /\ \/ /\ MayLoad /\ request[l] = Idle
          /\ busy' = TRUE
          /\ request' = [request EXCEPT ![l] = Started(s)]
       \/ /\ ~MayLoad
          /\ UNCHANGED <<busy, request>>
    /\ UNCHANGED cache

(* The answer is shown, for whichever listing it was asked. *)
Show(l) ==
    LET q == request[l] IN
    /\ q.at = "answered"
    /\ ladder' = IF q.kind = "empty" THEN "none" ELSE q.symbol
    /\ caughtUp' = (caughtUp \/ q.symbol = symbol)
    /\ busy' = FALSE
    /\ request' = [request EXCEPT ![l] = Idle]
    /\ UNCHANGED <<cache, symbol>>

(* The guard released only by an answer. *)
LoadFailsBusy(l) ==
    /\ request[l].at = "answered"
    /\ request' = [request EXCEPT ![l] = Idle]
    /\ UNCHANGED <<cache, symbol, ladder, busy, caughtUp>>

(* The answer is lost or no JSON: an error is set, the ladder stays. *)
LoadFails(l) ==
    /\ request[l].at = "answered"
    /\ busy' = FALSE
    /\ request' = [request EXCEPT ![l] = Idle]
    /\ UNCHANGED <<cache, symbol, ladder, caughtUp>>

---------------------------------------------------------------------------
(* Time passes, but not beyond a deadline: its timer is run first. *)
Tick ==
    /\ \A r \in Requester : request[r].at = "reading" => request[r].age < Deadline
    /\ cache' = [s \in Live |-> Aged(cache[s])]
    /\ request' = [r \in Requester |->
           LET q == request[r] IN
           IF q.at = "reading" THEN [q EXCEPT !.age = @ + 1, !.hit = Aged(@)] ELSE q]
    /\ UNCHANGED page

Next ==
    \/ Tick
    \/ \E r \in Requester : ReadDone(r) \/ ReadLost(r)
    \/ \E v \in Visitor, s \in Symbol : Visit(v, s)
    \/ \E v \in Visitor : Leave(v)
    \/ \E l \in Slot : Load(l) \/ Show(l) \/ LoadFails(l)
    \/ \E l \in Slot, s \in Symbol : Switch(l, s)

Overdue(r) == request[r].at = "reading" /\ request[r].age = Deadline

(* Time passes, the deadline's timer is run, and a request that was        *)
(* answered ends at the page one way or the other.  That a read of the     *)
(* chain ever returns is not assumed.                                      *)
Fairness ==
    /\ WF_vars(Tick)
    /\ \A r \in Requester : WF_vars(Overdue(r) /\ ReadLost(r))
    /\ \A l \in Slot : WF_vars(Show(l) \/ LoadFails(l))

Spec == Init /\ [][Next]_vars
FairSpec == Spec /\ Fairness

---------------------------------------------------------------------------
Entry == [age : 0..Ttl, since : 0..Oldest] \cup {None}
Reading == [at : {"reading"}, symbol : Live, hit : Entry, age : 0..Deadline]
Answered == [at : {"answered"}, symbol : Symbol,
             kind : {"fresh", "stale", "empty"}, since : 0..Oldest]

(* The types of the variables: a listing's entry, a request's stage. *)
TypeOK ==
    /\ cache \in [Live -> Entry]
    /\ request \in [Requester -> {Idle} \cup Reading \cup Answered]
    /\ symbol \in Symbol /\ ladder \in Symbol \cup {"none"}
    /\ busy \in BOOLEAN /\ caughtUp \in BOOLEAN

(* A book served as fresh holds no row older than one cache life and one   *)
(* deadline together, however many requests read, fail and fill the cache  *)
(* around it: a losing read must not be cached, nor a fallback restamped   *)
(* (book-server.ts:102-121).                                               *)
FreshIsRecent ==
    \A r \in Requester :
        request[r].at = "answered" /\ request[r].kind = "fresh" => request[r].since < Oldest

(* Once the page has shown a load of the listing it is on, no answer to an *)
(* earlier listing's load can replace it (useBook.ts:50-67): with one load *)
(* at a time there is none left under way.                                 *)
OwnBookStays == caughtUp => ladder \in {"none", symbol}

(* The guard against a second load is always released again, however the   *)
(* load ends: polling never stops for good (useBook.ts:62-65), because the *)
(* server answers every request by its deadline (book-server.ts:111).      *)
EveryLoadEnds == busy ~> ~busy

(* useBook.ts:6 says "Switching symbols resets the book so a stale one is  *)
(* never shown".                                                           *)
NeverAnothersBook == ladder \in {"none", symbol}
=============================================================================
