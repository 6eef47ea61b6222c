----------------------------- MODULE SideFeeds -----------------------------
(***************************************************************************)
(* The server's feeds beside the book, each with what it keeps from one    *)
(* request to the next and falls back on: the mark of an outside price     *)
(* service, the issuer's catalogue, the explorer's view of one market and  *)
(* the venue's recent activity (demo/src/app/api/mark, prestocks, explorer *)
(* and activity, each route.ts).  One process, any number of requests at   *)
(* once; an action is what runs between two awaits.                        *)
(*                                                                         *)
(* What is kept is known by whether it is there and whether it is fresh.   *)
(* Only activity tells its rows apart, because it puts them together one   *)
(* after the other and any of them may fail.                               *)
(***************************************************************************)
EXTENDS Integers, Sequences, FiniteSets

CONSTANTS
    Asker,          \* requests under way at once
    RowLimit,       \* signatures a round asks for (30)
    DecodeLimit,    \* decoded transactions kept (200)
    MaxTx           \* bound: transactions of the order book program

ASSUME FeedAssumption == {RowLimit, DecodeLimit, MaxTx} \subseteq Nat

VARIABLES
    feed,       \* which of them this process is asked for
    kept,       \* mark, catalogue, view: missing, fresh or stale
    list,       \* activity's rows, and whether they are missing, fresh or stale
    decoded,    \* activity's decoded transactions
    height,     \* transactions so far
    ask         \* what each request is doing

feedVars == <<feed, kept, list, decoded, height, ask>>

Feed == {"mark", "issuer", "view", "activity"}
Kept == {"missing", "fresh", "stale"}
Resting == [at |-> "idle"]

FeedsInit ==
    /\ feed \in Feed
    /\ kept = "missing"
    /\ list = [age |-> "missing", rows |-> {}]
    /\ decoded = {} /\ height = 0
    /\ ask = [r \in Asker |-> Resting]

Rests(r) == ask[r].at = "idle"
Goes(r, to) == ask' = [ask EXCEPT ![r] = to]
Reply(what) == [at |-> "answered", with |-> what]

---------------------------------------------------------------------------
(* The price service.  A request remembers what it found; a listing that   *)
(* no service prices, and a server without a key, answer at once.          *)
AskMark(r) ==
    /\ feed = "mark" /\ Rests(r)
    /\ \/ kept = "fresh" /\ Goes(r, Reply("ok"))
       \/ kept # "fresh" /\ Goes(r, [at |-> "fetching", hit |-> kept])
    /\ UNCHANGED <<feed, kept, list, decoded, height>>

(* A price; or 403: the key is good, and a feed it is entitled to is asked *)
(* for as a proof of that.  Anything else is thrown.                       *)
MarkAnswers(r) ==
    /\ feed = "mark" /\ ask[r].at = "fetching"
    /\ \/ kept' = "fresh" /\ Goes(r, Reply("ok"))
       \/ UNCHANGED kept /\ Goes(r, [ask[r] EXCEPT !.at = "probing"])
    /\ UNCHANGED <<feed, list, decoded, height>>

ProbeAnswers(r) ==
    /\ ask[r].at = "probing" /\ Goes(r, Reply("unentitled"))
    /\ UNCHANGED <<feed, kept, list, decoded, height>>

(* The stale mark, labelled as stale, beats a blank panel. *)
MarkThrows(r) ==
    /\ feed = "mark" /\ ask[r].at \in {"fetching", "probing"}
    /\ Goes(r, Reply(IF ask[r].hit = "missing" THEN "error" ELSE "stale"))
    /\ UNCHANGED <<feed, kept, list, decoded, height>>

(* The issuer's catalogue.  The one that came with the program is the      *)
(* floor: no request is left without numbers.                              *)
AskIssuer(r) ==
    /\ feed = "issuer" /\ Rests(r)
    /\ \/ kept = "fresh" /\ \E what \in {"ok", "stale"} : Goes(r, Reply(what))
       \/ kept # "fresh" /\ Goes(r, [at |-> "fetching", hit |-> "stale"])
    /\ UNCHANGED <<feed, kept, list, decoded, height>>

(* A catalogue without this listing in it is kept too, and bundled numbers *)
(* answer for it.                                                          *)
Catalogue(r) ==
    /\ feed = "issuer" /\ ask[r].at = "fetching"
    /\ kept' = "fresh"
    /\ \E what \in {"ok", "stale"} : Goes(r, Reply(what))
    /\ UNCHANGED <<feed, list, decoded, height>>

CatalogueFails(r) ==
    /\ feed = "issuer" /\ ask[r].at = "fetching"
    /\ Goes(r, Reply("stale"))
    /\ UNCHANGED <<feed, kept, list, decoded, height>>

---------------------------------------------------------------------------
(* The explorer's view: the header and the leaf chain of both trees, then  *)
(* vaults and mints, all raced against a deadline.                         *)
AskView(r) ==
    /\ feed = "view" /\ Rests(r)
    /\ \/ kept = "fresh" /\ Goes(r, Reply("ok"))
       \/ kept # "fresh" /\ Goes(r, [at |-> "reading", hit |-> kept])
    /\ UNCHANGED <<feed, kept, list, decoded, height>>

ViewRead(r) ==
    /\ ask[r].at = "reading"
    /\ kept' = "fresh" /\ Goes(r, Reply("ok"))
    /\ UNCHANGED <<feed, list, decoded, height>>

ViewFallback(hit) == Reply(IF hit = "missing" THEN "error" ELSE "stale")

(* A read that fails is over; one that the deadline beats goes on behind   *)
(* its answer.                                                             *)
ViewFails(r) ==
    /\ ask[r].at = "reading" /\ Goes(r, ViewFallback(ask[r].hit))
    /\ UNCHANGED <<feed, kept, list, decoded, height>>

ViewDeadline(r) ==
    /\ ask[r].at = "reading"
    /\ Goes(r, [at |-> "late", with |-> ViewFallback(ask[r].hit).with])
    /\ UNCHANGED <<feed, kept, list, decoded, height>>

(* A read that loses the race still finishes, and is kept as a new one     *)
(* however long ago it began; or it fails unheard.                         *)
LateRead(r) ==
    /\ ask[r].at = "late" /\ Goes(r, Reply(ask[r].with))
    /\ kept' \in {"fresh", kept}
    /\ UNCHANGED <<feed, list, decoded, height>>

---------------------------------------------------------------------------
(* Activity: the newest signatures, then one transaction after the other   *)
(* unless it was decoded before.                                           *)
Newest == {t \in 1..height : t > height - RowLimit}

AskActivity(r) ==
    /\ feed = "activity" /\ Rests(r)
    /\ \/ list.age = "fresh" /\ Goes(r, Reply(IF list.rows = {} THEN "nothing" ELSE "ok"))
       \/ list.age # "fresh" /\ Goes(r, [at |-> "listing"])
    /\ UNCHANGED <<feed, kept, list, decoded, height>>

Signatures(r) ==
    /\ ask[r].at = "listing"
    /\ Goes(r, [at |-> "decoding", todo |-> Newest, rows |-> {}])
    /\ UNCHANGED <<feed, kept, list, decoded, height>>

(* A transaction that cannot be read now is skipped, the rest still shows. *)
Decode(r) ==
    /\ ask[r].at = "decoding" /\ ask[r].todo # {}
    /\ LET t == CHOOSE x \in ask[r].todo : \A y \in ask[r].todo : y <= x
           next == [ask[r] EXCEPT !.todo = @ \ {t}]
       IN  \/ /\ Goes(r, [next EXCEPT !.rows = @ \cup {t}])
              /\ decoded' = decoded \cup {t}
           \/ /\ t \notin decoded
              /\ Goes(r, next)
              /\ UNCHANGED decoded
    /\ UNCHANGED <<feed, kept, list, height>>

(* A round replaces the list whatever it got. *)
ReplacesAnyway(rows) == TRUE

(* Only if it got something, or there is no list yet. *)
Replaces(rows) == rows # {} \/ list.age = "missing"

(* The answer is the list as it is by now, this round's or another's. *)
RoundEnds(r) ==
    /\ ask[r].at = "decoding" /\ ask[r].todo = {}
    /\ decoded' = IF Cardinality(decoded) > DecodeLimit THEN {} ELSE decoded
    /\ list' = IF Replaces(ask[r].rows) THEN [age |-> "fresh", rows |-> ask[r].rows] ELSE list
    /\ Goes(r, Reply(IF list'.rows = {} THEN "nothing" ELSE "ok"))
    /\ UNCHANGED <<feed, kept, height>>

(* The signatures could not be had, after four attempts. *)
RoundThrows(r) ==
    /\ ask[r].at = "listing"
    /\ Goes(r, Reply(IF list.rows = {} THEN "nothing" ELSE "stale"))
    /\ UNCHANGED <<feed, kept, list, decoded, height>>

---------------------------------------------------------------------------
Done(r) ==
    /\ ask[r].at = "answered" /\ Goes(r, Resting)
    /\ UNCHANGED <<feed, kept, list, decoded, height>>

(* What was kept outlives its TTL. *)
GoesStale ==
    /\ \/ kept = "fresh" /\ kept' = "stale" /\ UNCHANGED list
       \/ list.age = "fresh" /\ list' = [list EXCEPT !.age = "stale"] /\ UNCHANGED kept
    /\ UNCHANGED <<feed, decoded, height, ask>>

TxLands ==
    /\ feed = "activity" /\ height < MaxTx /\ height' = height + 1
    /\ UNCHANGED <<feed, kept, list, decoded, ask>>

FeedsNext ==
    \/ GoesStale \/ TxLands
    \/ \E r \in Asker :
          \/ AskMark(r) \/ MarkAnswers(r) \/ ProbeAnswers(r) \/ MarkThrows(r)
          \/ AskIssuer(r) \/ Catalogue(r) \/ CatalogueFails(r)
          \/ AskView(r) \/ ViewRead(r) \/ ViewFails(r) \/ ViewDeadline(r) \/ LateRead(r)
          \/ AskActivity(r) \/ Signatures(r) \/ Decode(r) \/ RoundEnds(r) \/ RoundThrows(r)
          \/ Done(r)

---------------------------------------------------------------------------
(* Once this process has had something to show, it shows it: the activity  *)
(* never goes blank again, whatever rounds overlap, fail or come back with *)
(* less (activity/route.ts:96-101), and a mark or view that was there when *)
(* a request began is what that request falls back on                      *)
(* (mark/route.ts:104, explorer/route.ts:51).                              *)
NeverEmptyHanded ==
    [][/\ list.rows # {} => list'.rows # {}
       /\ \A r \in Asker : ask[r].at # "answered" /\ ask'[r].at \in {"answered", "late"} =>
             /\ ask'[r].with = "nothing" => list.rows = {}
             /\ ask'[r].with = "error" => ask[r].at = "late" \/ ask[r].hit = "missing"]_feedVars
=============================================================================
