------------------------------- MODULE Bringup -------------------------------
(***************************************************************************)
(* How markets come to be: demo/scripts/bringup-venue.ts, which sets up    *)
(* one market after another, writes each into venue.json when it is whole, *)
(* and is run again after a crash; and bringup.ts, which sets up a single  *)
(* market under fixed ids and writes market.json.                          *)
(*                                                                         *)
(* A transaction may land without its sender seeing it, or long after its  *)
(* sender, or that sender's whole run, has given it up.  One deployer runs *)
(* one script at a time.  What mints and transfers leave in the demo       *)
(* traders' accounts is not told apart.                                    *)
(***************************************************************************)
EXTENDS Integers, Sequences, SequencesExt

CONSTANTS
    Listings,   \* sequence of symbols: the table of demo/src/lib/listings.ts
    FirstId,    \* symbol -> [market, ask, bid], the ids it would like
    Single,     \* [market, ask, bid]: the ids of bringup.ts
    Search,     \* ids tried from the preferred one on; 500
    RetryLimit,   \* of bringup-venue.ts's retry; 6
    MaxMints,   \* bound: mints that runs create
    Mishaps     \* bound: errors, crashes and transactions lost from sight

ASSUME IdsAssumption ==
    /\ Listings \in Seq(STRING) /\ Search \in Nat
    /\ \A s \in Range(Listings) : \A k \in {"market", "ask", "bid"} : FirstId[s][k] \in Nat \ {0}
    /\ \A k \in {"market", "ask", "bid"} : Single[k] \in Nat \ {0}

VARIABLES
    venue, marketFile,  \* the files: venue.json's quote mint and markets, market.json
    run,            \* the script under way
    trees,          \* on chain: tree id -> [authority, seeded, orders]
    configs,        \* on chain: market id -> what InitMarket wrote down
    mints,          \* how many mints were created; a mint is its number
    astray,         \* transactions given up by their senders that may yet land
    mishaps,
    exits           \* history: runs that did not reach their end, up to MaxExits

chainVars == <<trees, configs, mints, astray>>
bringupVars == <<venue, marketFile, run, chainVars, mishaps, exits>>

None == [none |-> TRUE]
Stopped == [program |-> "stopped"]
Payer == 0          \* tree authority: the deployer; a market's book otherwise

BringupInit ==
    /\ venue = None /\ marketFile = None /\ run = Stopped
    /\ trees = [t \in {} |-> None] /\ configs = [m \in {} |-> None]
    /\ mints = 0 /\ astray = {} /\ mishaps = 0 /\ exits = 0

---------------------------------------------------------------------------
(* The scripts, as the sequence of what they await *)

Trees == <<<<"init", "ask">>, <<"seed", "ask">>, <<"hand", "ask">>,
           <<"init", "bid">>, <<"seed", "bid">>, <<"hand", "bid">>>>
Opens == <<<<"open", "both">>, <<"place", "ask">>, <<"place", "bid">>, <<"record", "file">>>>

SharedSteps == <<<<"mint", "quote">>, <<"record", "file">>>>
MarketSteps == <<<<"pick", "market">>, <<"pick", "ask">>, <<"pick", "bid">>, <<"mint", "base">>>> \o Trees \o Opens
SingleSteps == <<<<"mint", "base">>, <<"mint", "quote">>>> \o Trees \o Opens

StepsOf(r) ==
    IF r.program = "single" THEN SingleSteps ELSE IF r.symbol = "none" THEN SharedSteps ELSE MarketSteps

Step == StepsOf(run)[run.at]
Doing(kind) == run # Stopped /\ Step[1] = kind

Starting(program, symbol, ids) ==
    [program |-> program, symbol |-> symbol, at |-> 1, attempt |-> 1,
     market |-> ids.market, ask |-> ids.ask, bid |-> ids.bid, base |-> 0, quote |-> 0]

Advance(r) == [r EXCEPT !.at = @ + 1, !.attempt = 1]

(* The markets of venue.json; the listings of the table that have none.    *)
Recorded(v) == IF v = None THEN [s \in {} |-> None] ELSE v.markets
Missing(v) == {i \in DOMAIN Listings : Listings[i] \notin DOMAIN Recorded(v)}

NextRun(v) ==
    IF v = None THEN Starting("venue", "none", [market |-> 0, ask |-> 0, bid |-> 0])
    ELSE IF Missing(v) = {} THEN Stopped
    ELSE LET s == Listings[Min(Missing(v))]
         IN  [Starting("venue", s, FirstId[s]) EXCEPT !.quote = v.quote]

StartVenue ==
    /\ run = Stopped /\ NextRun(venue) # Stopped
    /\ run' = NextRun(venue)
    /\ UNCHANGED <<venue, marketFile, chainVars, mishaps, exits>>

(* bringup.ts goes on only while its ask tree's header does not exist. *)
StartSingle ==
    /\ run = Stopped /\ Single.ask \notin DOMAIN trees
    /\ run' = Starting("single", "none", Single)
    /\ UNCHANGED <<venue, marketFile, chainVars, mishaps, exits>>

(* One for each mishap, and for each transaction it left behind. *)
MaxExits == 2 * Mishaps

(* process.exit, or killed. *)
Exit == run' = Stopped /\ exits' = Min({exits + 1, MaxExits})

MayRetry == run.program = "venue" /\ run.attempt < RetryLimit

Retry ==
    IF MayRetry THEN run' = [run EXCEPT !.attempt = @ + 1] /\ UNCHANGED exits ELSE Exit

---------------------------------------------------------------------------
(* Ids: the first from the preferred one on that no market of venue.json   *)
(* has, that this run has not taken, and that is free on chain.            *)

Used(kind) ==
    LET ms == Range([i \in DOMAIN Listings |-> Listings[i]]) \cap DOMAIN Recorded(venue)
    IN  IF kind = "market" THEN {venue.markets[s].market : s \in ms}
        ELSE UNION {{venue.markets[s].ask, venue.markets[s].bid} : s \in ms}
             \cup (IF kind = "bid" THEN {run.ask} ELSE {})

OnChain(kind) == IF kind = "market" THEN DOMAIN configs ELSE DOMAIN trees

FreeUnread(kind) == (run[kind]..(run[kind] + Search - 1)) \ Used(kind)
Free(kind) == (run[kind]..(run[kind] + Search - 1)) \ (Used(kind) \cup OnChain(kind))

Pick ==
    /\ Doing("pick")
    /\ LET kind == Step[2] IN
       IF Free(kind) = {} THEN Exit
       ELSE run' = Advance([run EXCEPT ![kind] = Min(Free(kind))]) /\ UNCHANGED exits
    /\ UNCHANGED <<venue, marketFile, chainVars, mishaps>>

Mint ==
    /\ Doing("mint") /\ mints < MaxMints
    /\ mints' = mints + 1
    /\ run' = Advance([run EXCEPT ![Step[2]] = mints'])
    /\ UNCHANGED <<venue, marketFile, trees, configs, astray, mishaps, exits>>

---------------------------------------------------------------------------
(* Transactions *)

Sending == run # Stopped /\ Step[1] \in {"init", "seed", "hand", "open", "place"}

ConfigOf(r) == [ask |-> r.ask, bid |-> r.bid, base |-> r.base, quote |-> r.quote]

Submitted ==
    [kind   |-> Step[1],
     tree   |-> IF Step[2] = "both" THEN 0 ELSE run[Step[2]],
     market |-> run.market,
     config |-> ConfigOf(run)]

(* What the programs demand: a header that does not exist yet; the         *)
(* authority's signature, and for the sentinel an empty tree; a config     *)
(* that does not exist over two clean trees of that marketFile's book; and for *)
(* an order the very tree the config names.                                *)
Works(tx) ==
    CASE tx.kind = "init"  -> tx.tree \notin DOMAIN trees
      [] tx.kind = "seed"  -> trees[tx.tree].authority = Payer /\ ~trees[tx.tree].seeded
      [] tx.kind = "hand"  -> trees[tx.tree].authority = Payer
      [] tx.kind = "open"  ->
            /\ tx.market \notin DOMAIN configs
            /\ \A t \in {tx.config.ask, tx.config.bid} : trees[t].authority = tx.market /\ trees[t].orders = 0
      [] tx.kind = "place" ->
            /\ tx.market \in DOMAIN configs
            /\ tx.tree \in {configs[tx.market].ask, configs[tx.market].bid}

With(f, x, y) == [z \in DOMAIN f \cup {x} |-> IF z = x THEN y ELSE f[z]]

Lands(tx) ==
    /\ trees' =
        CASE tx.kind = "init"  -> With(trees, tx.tree, [authority |-> Payer, seeded |-> FALSE, orders |-> 0])
          [] tx.kind = "seed"  -> [trees EXCEPT ![tx.tree].seeded = TRUE]
          [] tx.kind = "hand"  -> [trees EXCEPT ![tx.tree].authority = tx.market]
          [] tx.kind = "place" -> [trees EXCEPT ![tx.tree].orders = @ + 1]
          [] OTHER             -> trees
    /\ configs' = IF tx.kind = "open" THEN With(configs, tx.market, tx.config) ELSE configs

Succeeds ==
    /\ Sending /\ Works(Submitted)
    /\ Lands(Submitted)
    /\ run' = Advance(run)
    /\ UNCHANGED <<venue, marketFile, mints, astray, mishaps, exits>>

(* "It exists already" taken for a success. *)
DeclinedIsDone ==
    /\ Sending /\ ~Works(Submitted)
    /\ run' = Advance(run)
    /\ UNCHANGED <<venue, marketFile, chainVars, mishaps, exits>>

(* An error like any other: tried again, and then the run is over. *)
Declined ==
    /\ Sending /\ ~Works(Submitted)
    /\ Retry
    /\ UNCHANGED <<venue, marketFile, chainVars, mishaps>>

(* The script sees an error, or dies, whatever becomes of its transaction: *)
(* it lands, is lost, or is still on its way.  A read is not tried again.  *)
Mishap ==
    /\ run # Stopped /\ Step[1] # "record"
    /\ mishaps < Mishaps /\ mishaps' = mishaps + 1
    /\ \/ Step[1] # "pick" /\ Retry
       \/ Exit
    /\ \/ UNCHANGED <<trees, configs, astray>>
       \/ Sending /\ Works(Submitted) /\ Lands(Submitted) /\ UNCHANGED astray
       \/ Sending /\ astray' = astray \cup {Submitted} /\ UNCHANGED <<trees, configs>>
    /\ UNCHANGED <<venue, marketFile, mints>>

(* A transaction given up earlier lands after all, if it still can. *)
LandsLate(tx) ==
    /\ astray' = astray \ {tx}
    /\ IF Works(tx) THEN Lands(tx) ELSE UNCHANGED <<trees, configs>>
    /\ UNCHANGED <<venue, marketFile, run, mints, mishaps, exits>>

Expires(tx) ==
    /\ astray' = astray \ {tx}
    /\ UNCHANGED <<venue, marketFile, run, trees, configs, mints, mishaps, exits>>

(* A market that is whole goes into the file, and the run to the next one. *)
MarketOf(r) == [market |-> r.market, ask |-> r.ask, bid |-> r.bid, base |-> r.base]

(* The file as it stands once this step is done. *)
Recording ==
    IF run.symbol = "none" THEN [quote |-> run.quote, markets |-> [s \in {} |-> None]]
    ELSE [venue EXCEPT !.markets = With(@, run.symbol, MarketOf(run))]

(* Written only when the last listing is up. *)
RecordAtTheEnd ==
    /\ Doing("record") /\ run.program = "venue"
    /\ run' = NextRun(Recording)
    /\ venue' = IF run' = Stopped \/ run.symbol = "none" THEN Recording ELSE venue
    /\ UNCHANGED <<marketFile, chainVars, mishaps, exits>>

Record ==
    /\ Doing("record") /\ run.program = "venue"
    /\ venue' = Recording /\ run' = NextRun(venue')
    /\ UNCHANGED <<marketFile, chainVars, mishaps, exits>>

RecordSingle ==
    /\ Doing("record") /\ run.program = "single"
    /\ marketFile' = [quote |-> run.quote, is |-> MarketOf(run)]
    /\ run' = Stopped
    /\ UNCHANGED <<venue, chainVars, mishaps, exits>>

RunsOn == StartVenue \/ Pick \/ Mint \/ Succeeds \/ Declined \/ Record \/ RecordSingle

BringupNext ==
    \/ RunsOn \/ StartSingle \/ Mishap
    \/ \E tx \in astray : LandsLate(tx) \/ Expires(tx)

(* A script runs on, and is run again until the venue is up. *)
BringupFairness == WF_bringupVars(RunsOn)

BringupSpec == BringupInit /\ [][BringupNext]_bringupVars /\ BringupFairness

---------------------------------------------------------------------------
(* Properties *)

Whole(m, quote) ==
    /\ m.market \in DOMAIN configs
    /\ configs[m.market] = [ask |-> m.ask, bid |-> m.bid, base |-> m.base, quote |-> quote]
    /\ \A t \in {m.ask, m.bid} :
        /\ trees[t].authority = m.market /\ trees[t].seeded
        /\ trees[t].orders > 0

(* What a file names exists: a market whose config names the file's trees  *)
(* and mints, the trees its book's alone, sentinel and ladder in them --   *)
(* though runs crash anywhere, retry what has landed, and meet the late    *)
(* transactions of a run before under the same ids                         *)
(* (bringup-venue.ts:98-121, 236-258).                                     *)
RecordedMarketsAreWhole ==
    /\ \A s \in DOMAIN Recorded(venue) : Whole(venue.markets[s], venue.quote)
    /\ marketFile # None => Whole(marketFile.is, marketFile.quote)

(* "A crash costs you one market, not the whole venue"                     *)
(* (bringup-venue.ts:9): the trees on chain are two for each market that   *)
(* was recorded, and at most two for each run that did not end well.       *)
CrashCostsOneMarket ==
    Cardinality(DOMAIN trees) <=
        2 * (Cardinality(DOMAIN Recorded(venue)) + (IF marketFile = None THEN 0 ELSE 1)
             + exits + (IF run = Stopped THEN 0 ELSE 1))

(* "re-run to resume": however runs crash and whatever they left behind on *)
(* the chain, in the end every listing has its market.                     *)
VenueComesUp == <>(Missing(venue) = {} /\ venue # None)
=============================================================================
