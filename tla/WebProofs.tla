------------------------------ MODULE WebProofs ------------------------------
(***************************************************************************)
(* Proofs about the web side: the book feed, the panels, the terminal and  *)
(* the proxy, which share no state, each with an inductive invariant of    *)
(* its own.                                                                *)
(***************************************************************************)
EXTENDS BookFeed, Panels, Terminal, RpcProxy, FiniteSetTheorems, TLAPS

(***************************************************************************)
(* BookFeed.  For any listings, any number of requests at once, any cache  *)
(* life and any deadline: a book served as fresh is recent, and a page     *)
(* that has shown its own listing's load keeps to that listing.            *)
(*                                                                         *)
(* The first rests on what the cache holds: an entry that still counts as  *)
(* fresh is at most one deadline older than its stamp.  The second rests   *)
(* on the guard: loads under way are at most one, and once a load of this  *)
(* listing was shown, that one is of this listing too.                     *)
(***************************************************************************)

CacheIsRecent ==
    \A s \in Live : cache[s].age < Ttl => cache[s].since <= cache[s].age + Deadline

OneLoad ==
    \A l \in Slot : request[l] # Idle =>
        /\ busy
        /\ caughtUp => request[l].symbol = symbol
        /\ \A m \in Slot : request[m] # Idle => m = l

FeedInv == TypeOK /\ CacheIsRecent /\ FreshIsRecent /\ OneLoad /\ OwnBookStays

---------------------------------------------------------------------------
(* Ages *)

LEMMA AgedIsEntry ==
    ASSUME NEW e \in Entry
    PROVE  /\ Aged(e) \in Entry
           /\ Aged(e).age < Ttl /\ (e.age < Ttl => e.since <= e.age + Deadline)
                => Aged(e).since <= Aged(e).age + Deadline
<1>1. CASE e = None
  BY <1>1, TimeAssumption DEF Aged, None, Entry
<1>2. CASE e # None
  <2>1. /\ e \in [age : 0..Ttl, since : 0..Oldest]
        /\ Aged(e) = [age |-> AgedBy(e.age, Ttl), since |-> AgedBy(e.since, Oldest)]
    BY <1>2 DEF Aged, Entry
  <2>2. AgedBy(e.age, Ttl) \in 0..Ttl /\ AgedBy(e.since, Oldest) \in 0..Oldest
    BY <2>1, TimeAssumption DEF AgedBy, Oldest
  <2> QED BY <2>1, <2>2, TimeAssumption DEF AgedBy, Entry
<1> QED BY <1>1, <1>2

(* What a request is after its first step on the server. *)
LEMMA StartedIsStage ==
    ASSUME TypeOK, CacheIsRecent, NEW s \in Symbol
    PROVE  /\ Started(s) \in Reading \cup Answered
           /\ Started(s).symbol = s
           /\ Started(s).at = "answered" /\ Started(s).kind = "fresh"
                => Started(s).since < Oldest
<1> USE TimeAssumption
<1>1. CASE s \notin Live
  BY <1>1 DEF Started, Answer, Answered, Oldest
<1>2. CASE s \in Live /\ IsFresh(cache[s])
  <2>1. cache[s] \in [age : 0..Ttl, since : 0..Oldest] /\ cache[s].age < Ttl
    BY <1>2 DEF TypeOK, Entry, IsFresh
  <2>2. cache[s].since <= cache[s].age + Deadline
    BY <1>2, <2>1 DEF CacheIsRecent
  <2>3. cache[s].since \in 0..Oldest /\ cache[s].since < Oldest
    BY <2>1, <2>2 DEF Oldest
  <2> QED BY <1>2, <2>3 DEF Started, Answer, Answered
<1>3. CASE s \in Live /\ ~IsFresh(cache[s])
  <2>1. Started(s) = [at |-> "reading", symbol |-> s, hit |-> cache[s], age |-> 0]
    BY <1>3 DEF Started
  <2> QED BY <2>1, <1>3 DEF TypeOK, Reading
<1> QED BY <1>1, <1>2, <1>3

LEMMA FallbackIsAnswer ==
    ASSUME NEW s \in Live, NEW e \in Entry
    PROVE  /\ Fallback(s, e) \in Answered /\ Fallback(s, e).symbol = s
           /\ Fallback(s, e).kind # "fresh"
BY TimeAssumption, SymbolAssumption DEF Fallback, Answer, Answered, Entry, Oldest

---------------------------------------------------------------------------
LEMMA InitFeedInv == Init => FeedInv
<1> SUFFICES ASSUME Init PROVE FeedInv
  OBVIOUS
<1>1. TypeOK
  BY DEF Init, TypeOK, Entry
<1>2. CacheIsRecent
  BY TimeAssumption DEF Init, CacheIsRecent, None
<1>3. FreshIsRecent
  BY DEF Init, FreshIsRecent, Idle
<1>4. OneLoad
  BY DEF Init, OneLoad, Requester
<1>5. OwnBookStays
  BY DEF Init, OwnBookStays
<1> QED BY <1>1, <1>2, <1>3, <1>4, <1>5 DEF FeedInv

(* A request at work moves on, and the page stands still. *)
LEMMA ServerKeeps ==
    ASSUME FeedInv, NEW r \in Requester, NEW q \in Answered,
           request[r] # Idle, q.symbol = request[r].symbol,
           q.kind = "fresh" => q.since < Oldest,
           request' = [request EXCEPT ![r] = q], UNCHANGED page,
           cache' \in [Live -> Entry], CacheIsRecent'
    PROVE  FeedInv'
<1>1. TypeOK'
  BY DEF FeedInv, TypeOK, page
<1>2. FreshIsRecent'
  BY DEF FeedInv, TypeOK, FreshIsRecent, Answered
<1>3. OneLoad'
  BY DEF FeedInv, TypeOK, OneLoad, page, Requester
<1>4. OwnBookStays'
  BY DEF FeedInv, OwnBookStays, page
<1> QED BY <1>1, <1>2, <1>3, <1>4 DEF FeedInv

LEMMA ReadDoneKeeps == ASSUME FeedInv, NEW r \in Requester, ReadDone(r) PROVE FeedInv'
<1> USE TimeAssumption
<1>1. request[r] \in Reading
  BY DEF ReadDone, FeedInv, TypeOK, Answered, Idle
<1> DEFINE s == request[r].symbol
           q == Answer(s, "fresh", request[r].age)
           e == [age |-> 0, since |-> request[r].age]
<1>2. s \in Live /\ request[r].age \in 0..Deadline
  BY <1>1 DEF Reading
<1>3. q \in Answered /\ q.symbol = s /\ q.since < Oldest
  BY <1>2, SymbolAssumption DEF Answer, Answered, Oldest
<1>4. cache' = [cache EXCEPT ![s] = e] /\ e \in Entry
  BY <1>2 DEF ReadDone, Entry, Oldest
<1>5. cache' \in [Live -> Entry]
  BY <1>4 DEF FeedInv, TypeOK
<1>6. CacheIsRecent'
  BY <1>2, <1>4 DEF FeedInv, TypeOK, CacheIsRecent
<1>7. request[r] # Idle /\ request' = [request EXCEPT ![r] = q] /\ UNCHANGED page
  BY DEF ReadDone, Idle
<1> QED BY <1>3, <1>5, <1>6, <1>7, ServerKeeps

LEMMA ReadLostKeeps == ASSUME FeedInv, NEW r \in Requester, ReadLost(r) PROVE FeedInv'
<1>1. request[r] \in Reading
  BY DEF ReadLost, FeedInv, TypeOK, Answered, Idle
<1> DEFINE q == Fallback(request[r].symbol, request[r].hit)
<1>2. q \in Answered /\ q.symbol = request[r].symbol /\ q.kind # "fresh"
  BY <1>1, FallbackIsAnswer DEF Reading
<1>3. cache' \in [Live -> Entry] /\ CacheIsRecent'
  BY DEF ReadLost, FeedInv, TypeOK, CacheIsRecent
<1>4. request[r] # Idle /\ request' = [request EXCEPT ![r] = q] /\ UNCHANGED page
  BY DEF ReadLost, Idle
<1> QED BY <1>2, <1>3, <1>4, ServerKeeps

(* Requests of others are no business of the page. *)
LEMMA VisitorKeeps ==
    ASSUME FeedInv, NEW v \in Visitor, NEW s \in Symbol, Visit(v, s) \/ Leave(v)
    PROVE  FeedInv'
<1>1. PICK q \in {Idle} \cup Reading \cup Answered :
          /\ request' = [request EXCEPT ![v] = q]
          /\ q.at = "answered" /\ q.kind = "fresh" => q.since < Oldest
  BY StartedIsStage DEF Visit, Leave, FeedInv, Idle
<1>2. UNCHANGED <<cache, page>> /\ v \in Requester /\ v \notin Slot
  BY PlaceAssumption DEF Visit, Leave, Requester
<1>3. TypeOK' /\ CacheIsRecent' /\ OwnBookStays'
  BY <1>1, <1>2 DEF FeedInv, TypeOK, CacheIsRecent, OwnBookStays, page
<1>4. FreshIsRecent'
  BY <1>1, <1>2 DEF FeedInv, TypeOK, FreshIsRecent
<1>5. OneLoad'
  BY <1>1, <1>2 DEF FeedInv, TypeOK, OneLoad, page, Requester
<1> QED BY <1>3, <1>4, <1>5 DEF FeedInv

(* A load begins: it is the only one, and of the listing the page is on. *)
LEMMA BeginKeeps ==
    ASSUME FeedInv, NEW l \in Slot, MayLoad, NEW s \in Symbol,
           busy' = TRUE, symbol' = s, request' = [request EXCEPT ![l] = Started(s)],
           UNCHANGED cache,
           UNCHANGED <<symbol, ladder, caughtUp>> \/ (ladder' = "none" /\ caughtUp' = FALSE)
    PROVE  FeedInv'
<1>1. /\ Started(s) \in Reading \cup Answered /\ Started(s).symbol = s
      /\ Started(s).at = "answered" /\ Started(s).kind = "fresh" => Started(s).since < Oldest
  BY StartedIsStage DEF FeedInv
<1>2. l \in Requester /\ \A m \in Slot : request[m] = Idle
  BY DEF Requester, FeedInv, OneLoad, MayLoad
<1>3. TypeOK'
  BY <1>1, <1>2 DEF FeedInv, TypeOK
<1>6. CacheIsRecent' /\ OwnBookStays'
  BY DEF FeedInv, CacheIsRecent, OwnBookStays
<1>4. FreshIsRecent'
  BY <1>1, <1>2 DEF FeedInv, TypeOK, FreshIsRecent
<1>5. OneLoad'
  BY <1>1, <1>2 DEF FeedInv, TypeOK, OneLoad, Requester
<1> QED BY <1>3, <1>4, <1>5, <1>6 DEF FeedInv

LEMMA SwitchKeeps ==
    ASSUME FeedInv, NEW l \in Slot, NEW s \in Symbol, Switch(l, s)
    PROVE  FeedInv'
<1>1. CASE MayLoad
  BY <1>1, BeginKeeps DEF Switch
<1>2. CASE ~MayLoad
  <2>1. /\ symbol' = s /\ ladder' = "none" /\ caughtUp' = FALSE
        /\ UNCHANGED <<busy, request, cache>>
    BY <1>2 DEF Switch
  <2>2. TypeOK'
    BY <2>1 DEF FeedInv, TypeOK
  <2>3. CacheIsRecent' /\ FreshIsRecent' /\ OwnBookStays'
    BY <2>1 DEF FeedInv, CacheIsRecent, FreshIsRecent, OwnBookStays
  <2>4. OneLoad'
    BY <2>1 DEF FeedInv, OneLoad
  <2> QED BY <2>2, <2>3, <2>4 DEF FeedInv
<1> QED BY <1>1, <1>2

(* The only load under way ends; its answer may be shown. *)
LEMMA EndKeeps ==
    ASSUME FeedInv, NEW l \in Slot, Show(l) \/ LoadFails(l)
    PROVE  FeedInv'
<1>1. /\ request[l] \in Answered /\ request[l] # Idle /\ l \in Requester
      /\ request' = [request EXCEPT ![l] = Idle] /\ busy' = FALSE
      /\ UNCHANGED <<cache, symbol>>
  BY DEF Show, LoadFails, FeedInv, TypeOK, Reading, Idle, Requester
<1>2. /\ ladder' \in Symbol \cup {"none"} /\ caughtUp' \in BOOLEAN
      /\ OwnBookStays'
  <2>1. CASE Show(l)
    BY <2>1, <1>1 DEF Show, FeedInv, TypeOK, OneLoad, OwnBookStays, Answered
  <2>2. CASE LoadFails(l)
    BY <2>2, <1>1 DEF LoadFails, FeedInv, TypeOK, OwnBookStays
  <2> QED BY <2>1, <2>2
<1>3. TypeOK' /\ CacheIsRecent'
  BY <1>1, <1>2 DEF FeedInv, TypeOK, CacheIsRecent
<1>4. FreshIsRecent'
  BY <1>1 DEF FeedInv, TypeOK, FreshIsRecent, Idle
<1>5. OneLoad'
  BY <1>1 DEF FeedInv, TypeOK, OneLoad, Requester
<1> QED BY <1>2, <1>3, <1>4, <1>5 DEF FeedInv

LEMMA TickKeeps == ASSUME FeedInv, Tick PROVE FeedInv'
<1> USE TimeAssumption
<1>1. cache' \in [Live -> Entry] /\ CacheIsRecent'
  BY AgedIsEntry DEF Tick, FeedInv, TypeOK, CacheIsRecent
<1>2. ASSUME NEW r \in Requester
      PROVE  /\ request'[r] \in {Idle} \cup Reading \cup Answered
             /\ request[r].at # "reading" => request'[r] = request[r]
             /\ request[r].at = "reading" =>
                    request'[r] \in Reading /\ request'[r].symbol = request[r].symbol
  <2> DEFINE q == request[r]
  <2>1. CASE q.at = "reading"
    <3>1. q \in Reading
      BY <2>1 DEF FeedInv, TypeOK, Answered, Idle
    <3>4. q.age < Deadline
      BY <2>1 DEF Tick
    <3>2. request'[r] = [q EXCEPT !.age = @ + 1, !.hit = Aged(@)]
      BY <2>1 DEF Tick
    <3>3. q.age + 1 \in 0..Deadline /\ Aged(q.hit) \in Entry
      BY <3>1, <3>4, AgedIsEntry DEF Reading
    <3> QED BY <2>1, <3>1, <3>2, <3>3, <3>4 DEF Reading
  <2>2. CASE q.at # "reading"
    BY <2>2 DEF Tick, FeedInv, TypeOK
  <2> QED BY <2>1, <2>2
<1>3. request' \in [Requester -> {Idle} \cup Reading \cup Answered]
  BY <1>2 DEF Tick
<1>4. TypeOK' /\ OwnBookStays'
  BY <1>1, <1>3 DEF Tick, page, FeedInv, TypeOK, OwnBookStays
<1>5. FreshIsRecent'
  BY <1>2 DEF FeedInv, FreshIsRecent, Reading
<1>6. OneLoad'
  <2>1. \A l \in Slot : request'[l] # Idle => request[l] # Idle
                           /\ request'[l].symbol = request[l].symbol
    BY <1>2 DEF Requester, Reading, Idle
  <2> QED BY <2>1 DEF Tick, page, FeedInv, OneLoad
<1> QED BY <1>1, <1>4, <1>5, <1>6 DEF FeedInv

LEMMA FeedNextKeeps == FeedInv /\ [Next]_vars => FeedInv'
<1> SUFFICES ASSUME FeedInv, [Next]_vars PROVE FeedInv'
  OBVIOUS
<1>1. CASE Tick
  BY <1>1, TickKeeps
<1>2. ASSUME NEW r \in Requester, ReadDone(r) \/ ReadLost(r) PROVE FeedInv'
  BY <1>2, ReadDoneKeeps, ReadLostKeeps
<1>3. ASSUME NEW v \in Visitor, NEW s \in Symbol, Visit(v, s) PROVE FeedInv'
  BY <1>3, VisitorKeeps
<1>4. ASSUME NEW v \in Visitor, Leave(v) PROVE FeedInv'
  <2>1. symbol \in Symbol
    BY DEF FeedInv, TypeOK
  <2> QED BY <1>4, <2>1, VisitorKeeps
<1>5. ASSUME NEW l \in Slot, Load(l) PROVE FeedInv'
  <2>1. symbol \in Symbol
    BY DEF FeedInv, TypeOK
  <2> QED BY <1>5, <2>1, BeginKeeps DEF Load
<1>6. ASSUME NEW l \in Slot, Show(l) \/ LoadFails(l) PROVE FeedInv'
  BY <1>6, EndKeeps
<1>7. ASSUME NEW l \in Slot, NEW s \in Symbol, Switch(l, s) PROVE FeedInv'
  BY <1>7, SwitchKeeps
<1>8. CASE UNCHANGED vars
  BY <1>8 DEF vars, FeedInv, TypeOK, CacheIsRecent, FreshIsRecent, OneLoad, OwnBookStays
<1> QED BY <1>1, <1>2, <1>3, <1>4, <1>5, <1>6, <1>7, <1>8 DEF Next

LEMMA FeedInvHolds == Spec => []FeedInv
BY InitFeedInv, FeedNextKeeps, PTL DEF Spec

(* Every book served as fresh is younger than a cache life and a deadline  *)
(* together (book-server.ts:102-121).                                      *)
THEOREM FreshBooksAreRecent == Spec => []FreshIsRecent
<1>1. FeedInv => FreshIsRecent
  BY DEF FeedInv
<1> QED BY FeedInvHolds, <1>1, PTL

(* A page that has shown its own listing's load keeps to that listing      *)
(* (useBook.ts:50-67).                                                     *)
THEOREM PageKeepsItsBook == Spec => []OwnBookStays
<1>1. FeedInv => OwnBookStays
  BY DEF FeedInv
<1> QED BY FeedInvHolds, <1>1, PTL

---------------------------------------------------------------------------
(***************************************************************************)
(* Terminal.  For any listings, identities and terminals in a row: a       *)
(* cancel goes to the tree and vault its order is in, signed by the        *)
(* order's maker.                                                          *)
(***************************************************************************)

(* What is on display is of the listing picked, because a terminal's loads *)
(* are of its own listing and no other terminal's reach it.                *)
RowsAreOfListing == \A r \in rows : r.listing = listing

LoadsAreOfTheirTerminal ==
    \A f \in fetches :
        /\ f.mount \in Nat /\ f.mount <= mount
        /\ f.mount = mount => f.listing = listing

TerminalInv ==
    /\ mount \in Nat
    /\ RowsAreOfListing
    /\ LoadsAreOfTheirTerminal
    /\ CancelsNameTheirTree

---------------------------------------------------------------------------
LEMMA InitTerminalInv == TerminalInit => TerminalInv
BY DEF TerminalInit, TerminalInv, RowsAreOfListing, LoadsAreOfTheirTerminal, CancelsNameTheirTree

(* A load begun now is this terminal's, of the listing picked. *)
LEMMA RefreshKeeps ==
    ASSUME TerminalInv, Refresh \/ UNCHANGED fetches, UNCHANGED <<listing, mount>>
    PROVE  LoadsAreOfTheirTerminal'
BY DEF TerminalInv, LoadsAreOfTheirTerminal, Refresh

LEMMA FetchKeeps == ASSUME TerminalInv, Fetch PROVE TerminalInv'
<1>1. LoadsAreOfTheirTerminal'
  BY RefreshKeeps DEF Fetch
<1> QED BY <1>1 DEF TerminalInv, Fetch, state, RowsAreOfListing, CancelsNameTheirTree

LEMMA BookArrivesKeeps ==
    ASSUME TerminalInv, NEW f \in fetches, BookArrives(f)
    PROVE  TerminalInv'
<1>1. LoadsAreOfTheirTerminal'
  BY DEF TerminalInv, LoadsAreOfTheirTerminal, BookArrives
<1>2. RowsAreOfListing'
  <2>1. CASE UNCHANGED rows
    BY <2>1 DEF TerminalInv, RowsAreOfListing, BookArrives
  <2>2. CASE f.mount = mount /\ \E book \in SUBSET RowsOf(f.listing) : rows' = book
    <3>1. f.listing = listing
      BY <2>2 DEF TerminalInv, LoadsAreOfTheirTerminal
    <3> QED BY <2>2, <3>1 DEF RowsAreOfListing, RowsOf, BookArrives
  <2> QED BY <2>1, <2>2 DEF BookArrives
<1> QED BY <1>1, <1>2 DEF TerminalInv, BookArrives, CancelsNameTheirTree

(* A new terminal has a number that no load under way has. *)
LEMMA PickListingKeeps ==
    ASSUME TerminalInv, NEW s \in Listing, PickListing(s)
    PROVE  TerminalInv'
<1>1. LoadsAreOfTheirTerminal'
  BY DEF TerminalInv, LoadsAreOfTheirTerminal, PickListing
<1> QED BY <1>1 DEF TerminalInv, PickListing, RowsAreOfListing, CancelsNameTheirTree

LEMMA CancelOrderKeeps ==
    ASSUME TerminalInv, NEW r \in rows, CancelOrder(r)
    PROVE  TerminalInv'
<1>1. r.maker = Me /\ r.listing = listing
  BY DEF TerminalInv, RowsAreOfListing, CancelOrder, MayCancel, Mine
<1>2. CancelsNameTheirTree'
  BY <1>1 DEF TerminalInv, CancelsNameTheirTree, CancelOrder, Sent
<1> QED BY <1>2 DEF TerminalInv, CancelOrder, RowsAreOfListing, LoadsAreOfTheirTerminal

(* What else is sent is no cancel. *)
LEMMA OthersSentKeep == ASSUME TerminalInv, Submit \/ AskFaucet PROVE TerminalInv'
<1>1. CancelsNameTheirTree'
  BY DEF TerminalInv, CancelsNameTheirTree, Submit, AskFaucet, Sent
<1> QED BY <1>1 DEF TerminalInv, Submit, AskFaucet, RowsAreOfListing, LoadsAreOfTheirTerminal

LEMMA SettlesKeeps == ASSUME TerminalInv, NEW j \in jobs, Settles(j) PROVE TerminalInv'
<1>1. LoadsAreOfTheirTerminal'
  BY RefreshKeeps DEF Settles
<1> QED BY <1>1 DEF TerminalInv, Settles, RowsAreOfListing, CancelsNameTheirTree

(* Who acts does not matter to what is on its way. *)
LEMMA IdentityKeeps ==
    ASSUME TerminalInv, (\E t \in Trader : PickTrader(t)) \/ PickWallet \/ Connect \/ UNCHANGED terminalVars
    PROVE  TerminalInv'
BY DEF TerminalInv, PickTrader, PickWallet, Connect, terminalVars, state,
       RowsAreOfListing, LoadsAreOfTheirTerminal, CancelsNameTheirTree

---------------------------------------------------------------------------
(* No cancel is sent to another market's tree or vault, nor signed by      *)
(* another than the order's maker, however the reader switches listings    *)
(* and identities while books load (Terminal.tsx:68-93, Venue.tsx:77).     *)
THEOREM CancelsGoHome == TerminalSpec => []CancelsNameTheirTree
<1>1. TerminalInit => TerminalInv
  BY InitTerminalInv
<1>2. TerminalInv /\ [TerminalNext]_terminalVars => TerminalInv'
  BY FetchKeeps, BookArrivesKeeps, PickListingKeeps, CancelOrderKeeps, OthersSentKeep,
     SettlesKeeps, IdentityKeeps DEF TerminalNext
<1>3. TerminalInv => CancelsNameTheirTree
  BY DEF TerminalInv
<1> QED BY <1>1, <1>2, <1>3, PTL DEF TerminalSpec

---------------------------------------------------------------------------
(***************************************************************************)
(* Panels.  For any number of loads at once: a panel that has heard from a *)
(* load of the present pick never goes back to a former one's answer.      *)
(***************************************************************************)

(* A panel that is a new component for each pick has no former loads, and  *)
(* only such a panel does without the flag or keeps what a load leaves.    *)
PanelInv ==
    /\ panel \in {Balances, Reference, Inspector, Detail, View, Tape}
    /\ load \in [Place -> {"none", "former", "present"}]
    /\ panel.remounts => \A l \in Place : load[l] # "former"
    /\ PanelsKeepUp

LEMMA InitPanelInv == PanelsInit => PanelInv
BY DEF PanelsInit, PanelInv, PanelsKeepUp

LEMMA KindsOfPanel ==
    ASSUME PanelInv
    PROVE  /\ panel.remounts \/ (panel.flagged /\ panel.failed # "kept")
           /\ ~panel.remounts \/ ~panel.clears
           /\ panel.failed \in {"answer", "nothing", "kept"}
<1>1. CASE panel = Balances
  BY <1>1 DEF Balances
<1>2. CASE panel = Reference
  BY <1>2 DEF Reference
<1>3. CASE panel = Inspector
  BY <1>3 DEF Inspector
<1>4. CASE panel = Detail
  BY <1>4 DEF Detail
<1>5. CASE panel = View
  BY <1>5 DEF View
<1>6. CASE panel = Tape
  BY <1>6 DEF Tape
<1> QED BY <1>1, <1>2, <1>3, <1>4, <1>5, <1>6 DEF PanelInv

LEMMA PickKeeps == ASSUME PanelInv, Pick PROVE PanelInv'
<1> DEFINE ls == IF panel.remounts THEN [l \in Place |-> "none"] ELSE Former(load)
<1>1. PICK l \in Place : load' = [ls EXCEPT ![l] = "present"]
  BY DEF Pick, Loads
<1>2. ls \in [Place -> {"none", "former"}] /\ (panel.remounts => \A p \in Place : ls[p] = "none")
  BY KindsOfPanel DEF PanelInv, Former
<1>3. load' \in [Place -> {"none", "former", "present"}]
  BY <1>1, <1>2
<1>4. panel.remounts => \A p \in Place : load'[p] # "former"
  BY <1>1, <1>2
<1> QED BY <1>3, <1>4 DEF PanelInv, Pick, PanelsKeepUp

LEMMA UnpickKeeps == ASSUME PanelInv, Unpick PROVE PanelInv'
<1>1. ~panel.remounts
  BY KindsOfPanel DEF Unpick
<1>2. load' \in [Place -> {"none", "former", "present"}]
  BY DEF PanelInv, Unpick, Former
<1> QED BY <1>1, <1>2 DEF PanelInv, Unpick, PanelsKeepUp

LEMMA ReloadKeeps == ASSUME PanelInv, Reload PROVE PanelInv'
<1>1. PICK l \in Place : load' = [load EXCEPT ![l] = "present"]
  BY DEF Reload, Loads
<1>2. load' \in [Place -> {"none", "former", "present"}]
  BY <1>1 DEF PanelInv
<1>3. panel.remounts => \A p \in Place : load'[p] # "former"
  BY <1>1 DEF PanelInv
<1> QED BY <1>2, <1>3 DEF PanelInv, Reload, PanelsKeepUp

(* An answer that reaches the panel is of the present pick. *)
LEMMA OutcomesAreNotFormer ==
    ASSUME PanelInv, NEW l \in Place, load[l] # "none", Reaches(l)
    PROVE  /\ load[l] = "present"
           /\ \A o \in Outcomes(l) : o # "former" \/ (o = shown /\ panel.remounts)
<1>1. load[l] = "present"
  BY KindsOfPanel DEF PanelInv, Reaches
<1> QED BY <1>1, KindsOfPanel DEF Outcomes

LEMMA LoadEndsKeeps == ASSUME PanelInv, NEW l \in Place, LoadEnds(l) PROVE PanelInv'
<1>1. load' \in [Place -> {"none", "former", "present"}]
  BY DEF PanelInv, LoadEnds
<1>2. panel.remounts => \A p \in Place : load'[p] # "former"
  BY DEF PanelInv, LoadEnds
<1>3. PanelsKeepUp'
  <2>1. CASE Reaches(l)
    BY <2>1, OutcomesAreNotFormer DEF PanelInv, LoadEnds, PanelsKeepUp
  <2>2. CASE ~Reaches(l)
    <3>1. load[l] # "present"
      BY <2>2 DEF Reaches
    <3>2. (answered' <=> answered) /\ UNCHANGED <<shown, panel>>
      BY <2>2, <3>1 DEF LoadEnds
    <3> QED BY <3>2 DEF PanelInv, PanelsKeepUp
  <2> QED BY <2>1, <2>2
<1> QED BY <1>1, <1>2, <1>3 DEF PanelInv, LoadEnds

(* No panel shows what was asked for before, once a load for what is       *)
(* picked now has ended, though loads overlap and end in any order         *)
(* (Terminal.tsx:51-64, OracleStrip.tsx:41-53, Explorer.tsx:303-410).      *)
THEOREM PanelsNeverFallBack == PanelsSpec => []PanelsKeepUp
<1>1. PanelsInit => PanelInv
  BY InitPanelInv
<1>2. PanelInv /\ [PanelsNext]_panelVars => PanelInv'
  <2>1. PanelInv /\ UNCHANGED panelVars => PanelInv'
    BY DEF PanelInv, panelVars, PanelsKeepUp
  <2> QED BY <2>1, PickKeeps, UnpickKeeps, ReloadKeeps, LoadEndsKeeps DEF PanelsNext
<1>3. PanelInv => PanelsKeepUp
  BY DEF PanelInv
<1> QED BY <1>1, <1>2, <1>3, PTL DEF PanelsSpec

(***************************************************************************)
(* RpcProxy.  For any addresses, limits and length of the window: no       *)
(* stretch of a window's length sees more than twice the limit pass.       *)
(*                                                                         *)
(* Fixed windows of one address may lie anywhere in the stretch, so the    *)
(* invariant says how the open one cuts the calls let through: those since *)
(* it opened are within its count and the limit, and the older ones within *)
(* the limit, for they all fall in windows that ended.                     *)
(***************************************************************************)

(* Induction, from the finite sets: a number outside A would map the       *)
(* members of A up to it one to one into themselves, missing zero.         *)
LEMMA NatInductionOn ==
    ASSUME NEW A, 0 \in A, \A n \in Nat : n \in A => n + 1 \in A
    PROVE  \A n \in Nat : n \in A
<1> SUFFICES ASSUME NEW m \in Nat, m \notin A PROVE FALSE
  OBVIOUS
<1> DEFINE B == {n \in 0..m : n \in A}
           f == [n \in B |-> n + 1]
<1>1. IsFiniteSet(B)
  <2>1. IsFiniteSet(0..m)
    BY FS_Interval
  <2> QED BY <2>1, FS_Subset
<1>2. \A n \in B : n + 1 \in B
  OBVIOUS
<1>3. f \in [B -> B] /\ \A x, y \in B : f[x] = f[y] => x = y
  BY <1>2
<1>4. f \in Injection(B, B)
  BY <1>3 DEF Injection, IsInjective
<1>5. f \in Surjection(B, B)
  BY <1>1, <1>4, FS_Injection
<1>6. 0 \in B
  OBVIOUS
<1>7. PICK n \in B : f[n] = 0
  BY <1>5, <1>6 DEF Surjection
<1> QED BY <1>7

---------------------------------------------------------------------------
(* Calls by age *)

Ages == 0..Window
SinceRun(p, s) == s = [i \in Ages |-> p[i] + (IF i = 0 THEN 0 ELSE s[i - 1])]

LEMMA SinceRuns ==
    ASSUME NEW p
    PROVE  \E s : SinceRun(p, s) /\ \A t : Since(p, t) = s[t]
<1> DEFINE Step(s, i) == p[i] + (IF i = 0 THEN 0 ELSE s[i - 1])
           Upto(s, d) == s = [i \in Ages |-> s[i]] /\ \A i \in Ages : i <= d => s[i] = Step(s, i)
           A == {d \in Nat : \E s : Upto(s, d)}
<1>0. Window \in Nat
  BY ProxyAssumption
<1>1. 0 \in A
  <2> DEFINE s == [i \in Ages |-> Step([x \in {} |-> x], 0)]
  <2>1. s = [i \in Ages |-> s[i]] /\ \A i \in Ages : i <= 0 => i = 0 /\ s[i] = Step(s, 0)
    BY <1>0 DEF Ages
  <2> HIDE DEF s
  <2>2. Upto(s, 0)
    BY <2>1
  <2> QED BY <2>2
<1>2. ASSUME NEW d \in Nat, d \in A PROVE d + 1 \in A
  <2>1. PICK s : Upto(s, d)
    BY <1>2
  <2> DEFINE t == [i \in Ages |-> IF i = d + 1 THEN Step(s, i) ELSE s[i]]
  <2>2. t = [i \in Ages |-> t[i]] /\ \A i \in Ages : t[i] = IF i = d + 1 THEN Step(s, i) ELSE s[i]
    OBVIOUS
  <2> HIDE DEF t
  <2>3. ASSUME NEW i \in Ages, i <= d + 1 PROVE t[i] = Step(t, i)
    <3>1. i # 0 => i - 1 \in Ages /\ i - 1 # d + 1
      BY <1>0, <2>3 DEF Ages
    <3>2. i # 0 => t[i - 1] = s[i - 1]
      BY <2>2, <3>1
    <3>3. Step(t, i) = Step(s, i)
      BY <3>2
    <3>4. t[i] = Step(s, i)
      <4>1. i # d + 1 => i <= d
        BY <1>0, <2>3 DEF Ages
      <4> HIDE DEF Step
      <4> QED BY <2>1, <2>2, <4>1
    <3> QED BY <3>3, <3>4
  <2>4. Upto(t, d + 1)
    BY <2>2, <2>3
  <2> HIDE DEF Upto
  <2> QED BY <2>4
<1> HIDE DEF A
<1>3. Window \in A
  BY <1>0, <1>1, <1>2, NatInductionOn
<1>4. PICK s : Upto(s, Window)
  BY <1>3 DEF A
<1>5. SinceRun(p, s)
  <2>1. \A i \in Ages : i <= Window
    BY <1>0 DEF Ages
  <2>2. \A i \in Ages : s[i] = Step(s, i)
    <3> HIDE DEF Step
    <3> QED BY <1>4, <2>1
  <2> QED BY <1>4, <2>2 DEF SinceRun
<1> DEFINE c == CHOOSE c : SinceRun(p, c)
<1>6. SinceRun(p, c)
  BY <1>5
<1>7. \A t : Since(p, t) = c[t]
  BY Zenon DEF Since, SinceRun, Ages
<1> QED BY <1>6, <1>7

Calls == [Ages -> Nat]

LEMMA SinceSums ==
    ASSUME NEW p \in Calls
    PROVE  /\ Since(p, 0) = p[0]
           /\ \A t \in 1..Window : Since(p, t) = p[t] + Since(p, t - 1)
           /\ \A t \in Ages : Since(p, t) \in Nat
<1>0. Window \in Nat
  BY ProxyAssumption
<1>1. PICK s : SinceRun(p, s) /\ \A t : Since(p, t) = s[t]
  BY SinceRuns
<1>2. \A i \in Ages : p[i] \in Nat /\ s[i] = p[i] + (IF i = 0 THEN 0 ELSE s[i - 1])
  BY <1>1 DEF SinceRun, Calls
<1>3. s[0] = p[0] /\ s[0] \in Nat /\ \A t \in 1..Window : s[t] = p[t] + s[t - 1] /\ p[t] \in Nat
  <2>1. 0 \in Ages /\ \A t \in 1..Window : t \in Ages /\ t # 0
    BY <1>0 DEF Ages
  <2> QED BY <1>2, <2>1
<1> DEFINE A == {t \in Nat : t <= Window => s[t] \in Nat}
<1>4. 0 \in A
  BY <1>3
<1>5. ASSUME NEW t \in Nat, t \in A PROVE t + 1 \in A
  <2> SUFFICES ASSUME t + 1 <= Window PROVE s[t + 1] \in Nat
    OBVIOUS
  <2>1. t + 1 \in 1..Window /\ (t + 1) - 1 = t /\ s[t] \in Nat
    BY <1>0, <1>5
  <2> QED BY <1>3, <2>1
<1> HIDE DEF A
<1>6. \A t \in Nat : t \in A
  BY <1>4, <1>5, NatInductionOn
<1>7. \A t \in Ages : s[t] \in Nat
  BY <1>0, <1>6 DEF A, Ages
<1> QED BY <1>1, <1>3, <1>7

(* One more tick to look back shows no fewer calls. *)
LEMMA SinceGrows ==
    ASSUME NEW p \in Calls, NEW t \in 1..Window
    PROVE  Since(p, t - 1) <= Since(p, t)
<1>1. Window \in Nat /\ t \in Ages /\ t - 1 \in Ages
  BY ProxyAssumption DEF Ages
<1>2. p[t] \in Nat /\ Since(p, t - 1) \in Nat /\ Since(p, t) = p[t] + Since(p, t - 1)
  BY <1>1, SinceSums DEF Calls
<1> QED BY <1>2

(* New calls count whatever one looks back. *)
LEMMA SinceAdds ==
    ASSUME NEW p \in Calls, NEW n \in Nat, NEW q, q = [p EXCEPT ![0] = @ + n]
    PROVE  q \in Calls /\ \A t \in Ages : Since(q, t) = Since(p, t) + n
<1>0. Window \in Nat /\ 0 \in Ages /\ \A t \in 1..Window : t \in Ages /\ t # 0 /\ t - 1 \in Ages
  BY ProxyAssumption DEF Ages
<1>1. q \in Calls /\ q[0] = p[0] + n /\ \A t \in 1..Window : q[t] = p[t]
  BY <1>0 DEF Calls
<1>2. /\ Since(p, 0) = p[0] /\ Since(q, 0) = q[0]
      /\ \A t \in 1..Window : Since(p, t) = p[t] + Since(p, t - 1) /\ Since(q, t) = q[t] + Since(q, t - 1)
      /\ \A t \in Ages : Since(p, t) \in Nat /\ Since(q, t) \in Nat /\ p[t] \in Nat
  BY <1>1, SinceSums DEF Calls
<1> DEFINE A == {t \in Nat : t <= Window => Since(q, t) = Since(p, t) + n}
<1>3. 0 \in A
  BY <1>1, <1>2
<1>4. ASSUME NEW t \in Nat, t \in A PROVE t + 1 \in A
  <2> DEFINE u == t + 1
  <2> SUFFICES ASSUME u <= Window PROVE Since(q, u) = Since(p, u) + n
    OBVIOUS
  <2>1. u \in 1..Window /\ u - 1 = t /\ t <= Window
    BY <1>0
  <2>2. Since(q, t) = Since(p, t) + n
    BY <1>4, <2>1
  <2> HIDE DEF u
  <2>3. /\ Since(p, u) = p[u] + Since(p, t) /\ Since(q, u) = p[u] + Since(q, t)
        /\ Since(p, t) \in Nat /\ p[u] \in Nat
    BY <1>0, <1>1, <1>2, <2>1
  <2> QED BY <2>2, <2>3
<1> HIDE DEF A
<1>5. \A t \in Nat : t \in A
  BY <1>3, <1>4, NatInductionOn
<1>6. ASSUME NEW t \in Ages PROVE Since(q, t) = Since(p, t) + n
  <2>1. t \in Nat /\ t <= Window
    BY <1>0 DEF Ages
  <2>2. t \in A
    BY <1>5, <2>1
  <2> QED BY <2>1, <2>2 DEF A
<1> QED BY <1>1, <1>6

(* A tick on, the same calls are one tick older. *)
LEMMA SinceShifts ==
    ASSUME NEW p \in Calls, NEW q, q = [t \in Ages |-> IF t = 0 THEN 0 ELSE p[t - 1]]
    PROVE  q \in Calls /\ Since(q, 0) = 0 /\ \A t \in 1..Window : Since(q, t) = Since(p, t - 1)
<1>0. Window \in Nat /\ 0 \in Ages /\ \A t \in 1..Window : t \in Ages /\ t # 0 /\ t - 1 \in Ages
  BY ProxyAssumption DEF Ages
<1>1. q \in Calls /\ q[0] = 0 /\ \A t \in 1..Window : q[t] = p[t - 1]
  <2>1. \A t \in Ages : t = 0 \/ t - 1 \in Ages
    BY <1>0 DEF Ages
  <2> QED BY <1>0, <2>1 DEF Calls
<1>2. /\ Since(p, 0) = p[0] /\ Since(q, 0) = q[0]
      /\ \A t \in 1..Window : Since(p, t) = p[t] + Since(p, t - 1) /\ Since(q, t) = q[t] + Since(q, t - 1)
      /\ \A t \in Ages : Since(p, t) \in Nat /\ p[t] \in Nat
  BY <1>1, SinceSums DEF Calls
<1> DEFINE A == {t \in Nat : t + 1 <= Window => Since(q, t + 1) = Since(p, t)}
<1>3. 0 \in A
  <2> SUFFICES ASSUME 1 <= Window PROVE Since(q, 1) = Since(p, 0)
    OBVIOUS
  <2>1. 1 \in 1..Window /\ 1 - 1 = 0
    BY <1>0
  <2>2. Since(q, 1) = p[0] + 0
    BY <1>1, <1>2, <2>1
  <2> QED BY <1>0, <1>2, <2>2
<1>4. ASSUME NEW t \in Nat, t \in A PROVE t + 1 \in A
  <2> DEFINE u == t + 1
             v == u + 1
  <2> SUFFICES ASSUME v <= Window PROVE Since(q, v) = Since(p, u)
    OBVIOUS
  <2>1. u \in 1..Window /\ v \in 1..Window /\ u - 1 = t /\ v - 1 = u
    BY <1>0
  <2>2. Since(q, u) = Since(p, t)
    BY <1>0, <1>4, <2>1
  <2> HIDE DEF u, v
  <2>3. Since(q, v) = p[u] + Since(q, u) /\ Since(p, u) = p[u] + Since(p, t)
    BY <1>1, <1>2, <2>1
  <2> QED BY <2>2, <2>3
<1> HIDE DEF A
<1>5. \A t \in Nat : t \in A
  BY <1>3, <1>4, NatInductionOn
<1>6. ASSUME NEW t \in 1..Window PROVE Since(q, t) = Since(p, t - 1)
  <2>1. t - 1 \in Nat /\ (t - 1) + 1 = t /\ t <= Window
    BY <1>0
  <2>2. t - 1 \in A
    BY <1>5, <2>1
  <2> QED BY <2>1, <2>2 DEF A
<1> QED BY <1>1, <1>2, <1>6

---------------------------------------------------------------------------
(* The bound on what the proxy lets through *)

Windows == [n : 0..MaxPerWindow + 1, age : 0..Window + 1]

(* Between two windows no call is younger than this tick and the last      *)
(* window's are all there is; in one, its own calls stay within its count, *)
(* and those before it within one window's limit.                          *)
Bounded(w, p) ==
    /\ Opens(w) => p[0] = 0 /\ Since(p, Window) <= MaxPerWindow
    /\ ~Opens(w) => /\ Since(p, w.age) <= w.n
                    /\ Since(p, w.age) <= MaxPerWindow
                    /\ Since(p, Window) - Since(p, w.age) <= MaxPerWindow

Within(w, p) == w \in Windows /\ p \in Calls /\ Bounded(w, p)

LEMMA WithinStarts == Within(NoWindow, [t \in Ages |-> 0])
<1> DEFINE p == [t \in Ages |-> 0]
<1>0. Window \in Nat /\ Window > 0 /\ MaxPerWindow \in Nat /\ MaxPerWindow > 0
  BY ProxyAssumption
<1>1. p \in Calls /\ p[0] = 0 /\ p = [t \in Ages |-> IF t = 0 THEN 0 ELSE p[t - 1]]
  <2>1. \A t \in Ages : t = 0 \/ t - 1 \in Ages
    BY <1>0 DEF Ages
  <2>2. 0 \in Ages
    BY <1>0 DEF Ages
  <2> QED BY <2>1, <2>2 DEF Calls
<1> HIDE DEF p
<1>2. Since(p, 0) = 0 /\ \A t \in 1..Window : Since(p, t) = Since(p, t - 1)
  BY <1>1, SinceShifts
<1> DEFINE A == {t \in Nat : t <= Window => Since(p, t) = 0}
<1>3. 0 \in A
  BY <1>2
<1>4. ASSUME NEW t \in Nat, t \in A PROVE t + 1 \in A
  <2> SUFFICES ASSUME t + 1 <= Window PROVE Since(p, t + 1) = 0
    OBVIOUS
  <2>1. t + 1 \in 1..Window /\ (t + 1) - 1 = t /\ Since(p, t) = 0
    BY <1>0, <1>4
  <2> QED BY <1>2, <2>1
<1> HIDE DEF A
<1>5. Window \in A
  BY <1>0, <1>3, <1>4, NatInductionOn
<1>6. Since(p, Window) = 0
  BY <1>0, <1>5 DEF A
<1>7. NoWindow \in Windows /\ Opens(NoWindow)
  BY <1>0 DEF NoWindow, Windows, Opens
<1>8. Bounded(NoWindow, p)
  BY <1>0, <1>1, <1>6, <1>7 DEF Bounded
<1> QED BY <1>1, <1>7, <1>8 DEF Within, p

(* A call counted but not let through: over the limit, or in the cache. *)
LEMMA WithinCounts ==
    ASSUME NEW w, NEW p, Within(w, p), NEW n \in 0..MaxBatch
    PROVE  Within(Counts(w, n), p)
<1> DEFINE x == Counts(w, n)
<1>0. /\ Window \in Nat /\ Window > 0 /\ MaxPerWindow \in Nat /\ MaxPerWindow > 0
      /\ MaxBatch \in Nat /\ MaxBatch <= MaxPerWindow
  BY ProxyAssumption
<1>1. w \in Windows /\ p \in Calls /\ Bounded(w, p)
  BY DEF Within
<1>2. CASE Opens(w)
  <2>1. x = [n |-> n, age |-> 0]
    BY <1>2 DEF Counts
  <2>2. x.n = n /\ x.age = 0 /\ x \in Windows /\ ~Opens(x)
    BY <1>0, <2>1 DEF Windows, Opens
  <2>3. p[0] = 0 /\ Since(p, Window) <= MaxPerWindow /\ Since(p, 0) = p[0]
    BY <1>1, <1>2, SinceSums DEF Bounded
  <2>4. Since(p, Window) \in Nat
    BY <1>0, <1>1, SinceSums DEF Ages
  <2> HIDE DEF x
  <2>5. Bounded(x, p)
    BY <1>0, <2>2, <2>3, <2>4 DEF Bounded
  <2> QED BY <1>1, <2>2, <2>5 DEF Within, x
<1>3. CASE ~Opens(w)
  <2>1. w.n \in 0..MaxPerWindow + 1 /\ w.age \in 0..Window + 1 /\ w = [n |-> w.n, age |-> w.age]
    BY <1>1 DEF Windows
  <2>2. x = [n |-> IF w.n + n > MaxPerWindow THEN MaxPerWindow + 1 ELSE w.n + n, age |-> w.age]
    BY <1>3, <2>1 DEF Counts
  <2>3. x \in Windows /\ x.age = w.age /\ x.n >= w.n /\ x.n \in Nat
    BY <1>0, <2>1, <2>2 DEF Windows
  <2>4. /\ Since(p, w.age) <= w.n /\ Since(p, w.age) <= MaxPerWindow
        /\ Since(p, Window) - Since(p, w.age) <= MaxPerWindow
    BY <1>1, <1>3 DEF Bounded
  <2>5. ~Opens(x)
    BY <1>3, <2>3 DEF Opens
  <2>6. Since(p, w.age) \in Nat
    <3>1. w.age \in Ages
      BY <1>0, <1>3, <2>1 DEF Opens, Ages
    <3> QED BY <1>1, <3>1, SinceSums
  <2> HIDE DEF x
  <2>7. Since(p, x.age) <= x.n
    BY <2>1, <2>3, <2>4, <2>6
  <2>8. Bounded(x, p)
    BY <2>3, <2>4, <2>5, <2>7 DEF Bounded
  <2> QED BY <1>1, <2>3, <2>8 DEF Within, x
<1> QED BY <1>2, <1>3

(* Calls counted and let through. *)
LEMMA WithinPasses ==
    ASSUME NEW w, NEW p, Within(w, p), NEW n \in 0..MaxBatch, ~OverLimit(w, n)
    PROVE  Within(Counts(w, n), [p EXCEPT ![0] = @ + n])
<1> DEFINE x == Counts(w, n)
           q == [p EXCEPT ![0] = @ + n]
<1>0. /\ Window \in Nat /\ Window > 0 /\ MaxPerWindow \in Nat /\ MaxPerWindow > 0
      /\ MaxBatch \in Nat /\ MaxBatch <= MaxPerWindow /\ n \in Nat
  BY ProxyAssumption
<1>1. w \in Windows /\ p \in Calls /\ Bounded(w, p)
  BY DEF Within
<1>2. q \in Calls /\ \A t \in Ages : Since(q, t) = Since(p, t) + n
  BY <1>0, <1>1, SinceAdds
<1>3. 0 \in Ages /\ Window \in Ages /\ \A t \in Ages : Since(p, t) \in Nat
  BY <1>0, <1>1, SinceSums DEF Ages
<1>4. CASE Opens(w)
  <2>1. x = [n |-> n, age |-> 0]
    BY <1>4 DEF Counts
  <2>2. x.n = n /\ x.age = 0 /\ x \in Windows /\ ~Opens(x)
    BY <1>0, <2>1 DEF Windows, Opens
  <2>3. Since(p, Window) <= MaxPerWindow /\ Since(p, 0) = 0
    BY <1>1, <1>4, SinceSums DEF Bounded
  <2> HIDE DEF x, q
  <2>4. Since(q, 0) = 0 + n /\ Since(q, Window) = Since(p, Window) + n
    BY <1>2, <1>3, <2>3
  <2>5. Since(q, 0) <= n /\ Since(q, 0) <= MaxPerWindow /\ Since(q, Window) - Since(q, 0) <= MaxPerWindow
    BY <1>0, <1>3, <2>3, <2>4
  <2>6. Bounded(x, q)
    BY <2>2, <2>5 DEF Bounded
  <2> QED BY <1>2, <2>2, <2>6 DEF Within, x, q
<1>5. CASE ~Opens(w)
  <2>1. w.n \in 0..MaxPerWindow + 1 /\ w.age \in 0..Window + 1 /\ w = [n |-> w.n, age |-> w.age]
    BY <1>1 DEF Windows
  <2>2. w.n + n <= MaxPerWindow
    BY <1>0, <1>5, <2>1 DEF OverLimit
  <2>3. x = [n |-> w.n + n, age |-> w.age]
    BY <1>0, <1>5, <2>1, <2>2 DEF Counts
  <2>4. x \in Windows /\ x.age = w.age /\ x.n = w.n + n
    BY <1>0, <2>1, <2>2, <2>3 DEF Windows
  <2>5. /\ Since(p, w.age) <= w.n
        /\ Since(p, Window) - Since(p, w.age) <= MaxPerWindow
    BY <1>1, <1>5 DEF Bounded
  <2>6. ~Opens(x) /\ w.age \in Ages
    BY <1>0, <1>5, <2>1, <2>4 DEF Opens, Ages
  <2>7. /\ Since(q, w.age) = Since(p, w.age) + n /\ Since(q, Window) = Since(p, Window) + n
        /\ Since(p, w.age) \in Nat /\ Since(p, Window) \in Nat
    BY <1>2, <1>3, <2>6
  <2> HIDE DEF x, q
  <2>8. /\ Since(q, w.age) <= w.n + n /\ Since(q, w.age) <= MaxPerWindow
        /\ Since(q, Window) - Since(q, w.age) <= MaxPerWindow
    BY <1>0, <2>1, <2>2, <2>5, <2>7
  <2>9. Bounded(x, q)
    BY <2>4, <2>6, <2>8 DEF Bounded
  <2> QED BY <1>2, <2>4, <2>9 DEF Within, x, q
<1> QED BY <1>4, <1>5

(* A tick of the clock. *)
LEMMA WithinAges ==
    ASSUME NEW w, NEW p, Within(w, p)
    PROVE  Within(IF Opens(w) THEN NoWindow ELSE [w EXCEPT !.age = @ + 1],
                  [t \in Ages |-> IF t = 0 THEN 0 ELSE p[t - 1]])
<1> DEFINE q == [t \in Ages |-> IF t = 0 THEN 0 ELSE p[t - 1]]
           x == IF Opens(w) THEN NoWindow ELSE [w EXCEPT !.age = @ + 1]
<1>0. Window \in Nat /\ Window > 0 /\ MaxPerWindow \in Nat /\ MaxPerWindow > 0
  BY ProxyAssumption
<1>1. w \in Windows /\ p \in Calls /\ Bounded(w, p)
  BY DEF Within
<1>2. q \in Calls /\ \A t \in 1..Window : Since(q, t) = Since(p, t - 1)
  BY <1>1, SinceShifts
<1>3. 0 \in Ages /\ Window \in Ages /\ \A t \in Ages : Since(p, t) \in Nat
  BY <1>0, <1>1, SinceSums DEF Ages
<1>4. q[0] = 0
  BY <1>3
<1>5. Since(q, Window) = Since(p, Window - 1) /\ Since(p, Window - 1) <= Since(p, Window) /\ Since(p, Window - 1) \in Nat
  <2>1. Window \in 1..Window /\ Window - 1 \in Ages
    BY <1>0 DEF Ages
  <2> QED BY <1>1, <1>2, <1>3, <2>1, SinceGrows
<1> HIDE DEF q
<1>6. CASE Opens(w)
  <2>1. x = NoWindow /\ NoWindow \in Windows /\ Opens(NoWindow)
    BY <1>0, <1>6 DEF NoWindow, Windows, Opens
  <2>2. Since(q, Window) <= MaxPerWindow
    BY <1>0, <1>1, <1>3, <1>5, <1>6 DEF Bounded
  <2> HIDE DEF x
  <2>3. Bounded(x, q)
    BY <1>4, <2>1, <2>2 DEF Bounded
  <2> QED BY <1>2, <2>1, <2>3 DEF Within, q, x
<1>7. CASE ~Opens(w)
  <2>1. w.n \in 0..MaxPerWindow + 1 /\ w.age \in 0..Window + 1 /\ w = [n |-> w.n, age |-> w.age]
    BY <1>1 DEF Windows
  <2>2. w.age \in Ages /\ w.age <= Window /\ w.age \in Nat
    BY <1>0, <1>7, <2>1 DEF Opens, Ages
  <2>3. x = [n |-> w.n, age |-> w.age + 1]
    BY <1>7, <2>1
  <2>4. x \in Windows /\ x.n = w.n /\ x.age = w.age + 1
    BY <1>0, <2>1, <2>2, <2>3 DEF Windows
  <2>5. /\ Since(p, w.age) <= w.n /\ Since(p, w.age) <= MaxPerWindow
        /\ Since(p, Window) - Since(p, w.age) <= MaxPerWindow
    BY <1>1, <1>7 DEF Bounded
  <2>6. Since(p, w.age) \in Nat /\ Since(p, Window) \in Nat
    BY <1>3, <2>2
  <2> HIDE DEF x
  <2>7. CASE w.age = Window
    <3>1. Opens(x)
      BY <1>0, <2>4, <2>7 DEF Opens
    <3>2. Since(q, Window) <= MaxPerWindow
      BY <1>0, <1>5, <2>5, <2>6, <2>7
    <3>3. Bounded(x, q)
      BY <1>4, <3>1, <3>2 DEF Bounded
    <3> QED BY <1>2, <2>4, <3>3 DEF Within, q, x
  <2>8. CASE w.age # Window
    <3>1. ~Opens(x) /\ x.age \in 1..Window /\ x.age - 1 = w.age
      BY <1>0, <2>2, <2>4, <2>8 DEF Opens
    <3>2. Since(q, x.age) = Since(p, w.age)
      BY <1>2, <3>1
    <3>3. Since(q, Window) - Since(q, x.age) <= MaxPerWindow
      BY <1>0, <1>5, <2>5, <2>6, <3>2
    <3>4. Bounded(x, q)
      BY <2>4, <2>5, <3>1, <3>2, <3>3 DEF Bounded
    <3> QED BY <1>2, <2>4, <3>4 DEF Within, q, x
  <2> QED BY <2>7, <2>8
<1> QED BY <1>6, <1>7

LEMMA WithinIsBounded ==
    ASSUME NEW w, NEW p, Within(w, p)
    PROVE  Since(p, Window) <= 2 * MaxPerWindow
<1>0. Window \in Nat /\ Window > 0 /\ MaxPerWindow \in Nat
  BY ProxyAssumption
<1>1. w \in Windows /\ p \in Calls /\ Bounded(w, p)
  BY DEF Within
<1>2. Since(p, Window) \in Nat
  BY <1>0, <1>1, SinceSums DEF Ages
<1>3. CASE Opens(w)
  BY <1>0, <1>1, <1>2, <1>3 DEF Bounded
<1>4. CASE ~Opens(w)
  <2>1. w.age \in Ages
    BY <1>0, <1>1, <1>4 DEF Windows, Opens, Ages
  <2>2. Since(p, w.age) \in Nat
    BY <1>1, <2>1, SinceSums
  <2> QED BY <1>0, <1>1, <1>2, <1>4, <2>2 DEF Bounded
<1> QED BY <1>3, <1>4

(* Every address is within its limits. *)
ProxyOK ==
    /\ hits = [ip \in Ip |-> hits[ip]] /\ passed = [ip \in Ip |-> passed[ip]]
    /\ \A ip \in Ip : Within(hits[ip], passed[ip])

LEMMA ProxyOKStarts == ProxyInit => ProxyOK
BY WithinStarts DEF ProxyInit, ProxyOK, Ages

(* A change of one address's window and calls leaves the others alone. *)
LEMMA ProxyOKTouched ==
    ASSUME ProxyOK, NEW ip \in Ip, NEW w, NEW p, Within(w, p),
           hits' = [hits EXCEPT ![ip] = w],
           passed' = [passed EXCEPT ![ip] = p]
    PROVE  ProxyOK'
<1>1. /\ hits' = [i \in Ip |-> IF i = ip THEN w ELSE hits[i]]
      /\ passed' = [i \in Ip |-> IF i = ip THEN p ELSE passed[i]]
  BY DEF ProxyOK
<1>2. \A i \in Ip : Within(hits'[i], passed'[i])
  BY <1>1 DEF ProxyOK
<1>3. hits' = [i \in Ip |-> hits'[i]] /\ passed' = [i \in Ip |-> passed'[i]]
  BY <1>1
<1> QED BY <1>2, <1>3 DEF ProxyOK, Within, Bounded, Opens, Since, Windows, Calls, Ages

LEMMA ProxyOKPost ==
    ASSUME ProxyOK, NEW c \in Forwarder, NEW ip \in Ip, NEW kind \in Kind, NEW n \in 0..MaxBatch + 1,
           Post(c, ip, kind, n)
    PROVE  ProxyOK'
<1> DEFINE w == hits[ip]
           p == passed[ip]
<1>0. n \in 0..MaxBatch
  BY ProxyAssumption DEF Post, Serves
<1>1. Within(w, p) /\ hits' = [hits EXCEPT ![ip] = Counts(w, n)]
  BY DEF ProxyOK, Post
<1>2. CASE OverLimit(hits[ip], n) \/ Hit(kind)
  <2>1. passed' = [passed EXCEPT ![ip] = p]
    BY <1>2 DEF Post, ProxyOK
  <2>2. Within(Counts(w, n), p)
    BY <1>0, <1>1, WithinCounts
  <2> QED BY <1>1, <2>1, <2>2, ProxyOKTouched
<1>3. CASE ~(OverLimit(hits[ip], n) \/ Hit(kind))
  <2>1. passed' = [passed EXCEPT ![ip] = [p EXCEPT ![0] = @ + n]]
    BY <1>3 DEF Post
  <2>2. Within(Counts(w, n), [p EXCEPT ![0] = @ + n])
    BY <1>0, <1>1, <1>3, WithinPasses
  <2> QED BY <1>1, <2>1, <2>2, ProxyOKTouched
<1> QED BY <1>2, <1>3

LEMMA ProxyOKTicks ==
    ASSUME ProxyOK, ProxyTick
    PROVE  ProxyOK'
<1> DEFINE W(ip) == IF Opens(hits[ip]) THEN NoWindow ELSE [hits[ip] EXCEPT !.age = @ + 1]
           P(ip) == [t \in Ages |-> IF t = 0 THEN 0 ELSE passed[ip][t - 1]]
<1>1. hits' = [ip \in Ip |-> W(ip)] /\ passed' = [ip \in Ip |-> P(ip)]
  BY DEF ProxyTick, Ages
<1>2. \A ip \in Ip : Within(W(ip), P(ip))
  BY WithinAges DEF ProxyOK
<1> HIDE DEF W, P
<1>3. hits' = [ip \in Ip |-> hits'[ip]] /\ passed' = [ip \in Ip |-> passed'[ip]]
  BY <1>1
<1>4. \A ip \in Ip : Within(hits'[ip], passed'[ip])
  BY <1>1, <1>2
<1> QED BY <1>3, <1>4 DEF ProxyOK, Within, Bounded, Opens, Since, Windows, Calls, Ages

LEMMA ProxyOKSteps == ProxyOK /\ [ProxyNext]_proxyVars => ProxyOK'
<1> SUFFICES ASSUME ProxyOK, [ProxyNext]_proxyVars PROVE ProxyOK'
  OBVIOUS
<1>1. CASE ProxyTick
  BY <1>1, ProxyOKTicks
<1>2. ASSUME NEW c \in Forwarder, NEW ip \in Ip, NEW kind \in Kind, NEW n \in 0..MaxBatch + 1, Post(c, ip, kind, n)
      PROVE  ProxyOK'
  BY <1>2, ProxyOKPost
<1>3. ASSUME UNCHANGED <<hits, passed>> PROVE ProxyOK'
  <2>1. hits' = [ip \in Ip |-> hits'[ip]] /\ passed' = [ip \in Ip |-> passed'[ip]]
    BY <1>3 DEF ProxyOK
  <2>2. \A ip \in Ip : Within(hits'[ip], passed'[ip])
    BY <1>3 DEF ProxyOK
  <2> QED BY <2>1, <2>2 DEF ProxyOK, Within, Bounded, Opens, Since, Windows, Calls, Ages
<1>4. CASE UNCHANGED proxyVars
  BY <1>3, <1>4 DEF proxyVars
<1>5. ASSUME NEW c \in Forwarder, NEW body \in {"result", "error"}, UpstreamAnswers(c, body) PROVE ProxyOK'
  BY <1>3, <1>5 DEF UpstreamAnswers
<1>6. ASSUME NEW c \in Forwarder, UpstreamLimits(c) \/ UpstreamThrows(c) PROVE ProxyOK'
  BY <1>3, <1>6 DEF UpstreamLimits, UpstreamThrows
<1> QED BY <1>1, <1>2, <1>4, <1>5, <1>6 DEF ProxyNext

(* Whatever the addresses, the limits and the length of the window: one    *)
(* address gets at most two windows' worth of calls through in any stretch *)
(* of a window's length (rpc/route.ts:63-69).                              *)
THEOREM ProxyBoundEver == ProxySpec => []ForwardedIsBounded
<1>1. ProxyOK => ForwardedIsBounded
  BY WithinIsBounded DEF ProxyOK, ForwardedIsBounded
<1> QED BY ProxyOKStarts, ProxyOKSteps, <1>1, PTL DEF ProxySpec
=============================================================================
