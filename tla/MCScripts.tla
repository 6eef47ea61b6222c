----------------------------- MODULE MCScripts -----------------------------
(***************************************************************************)
(* The programs that bring the venue up and keep it going: Bringup and     *)
(* MarketMaker.  They share no state that either of them tells apart, so a *)
(* run takes them one at a time: `scene' says which is at work.            *)
(***************************************************************************)
EXTENDS MarketMaker, Bringup

CONSTANT Upsets   \* bound: the maker's faults and visits together

VARIABLE scene

(* Two makers, and a mid of two values, .4 above and below the anchor. *)
TwoMakers == <<"m1", "m2">>
Moves == {-8, 8}

(* Two listings; the single market would take the first one's trees. *)
TwoListings == <<"a", "b">>
Table == [a |-> [market |-> 1, ask |-> 1, bid |-> 2], b |-> [market |-> 2, ask |-> 3, bid |-> 4]]
TheSingle == [market |-> 1, ask |-> 1, bid |-> 2]

MCInit ==
    /\ MakerInit /\ BringupInit
    /\ scene \in {"maker", "bringup"}
    /\ scene # "maker" => program = "script"

Maker ==
    /\ scene = "maker" /\ MakerNext /\ faults' + visits' <= Upsets
    /\ UNCHANGED <<bringupVars, scene>>
Bringing == scene = "bringup" /\ BringupNext /\ UNCHANGED <<makerVars, scene>>

MCNext == Maker \/ Bringing
mcVars == <<makerVars, bringupVars, scene>>

MCSpec ==
    /\ MCInit /\ [][MCNext]_mcVars
    /\ WF_mcVars(scene = "maker" /\ Ticking /\ UNCHANGED <<bringupVars, scene>>)
    /\ WF_mcVars(scene = "maker" /\ Chain /\ UNCHANGED <<bringupVars, scene>>)
    /\ WF_mcVars(scene = "bringup" /\ RunsOn /\ UNCHANGED <<makerVars, scene>>)

(* VenueComesUp, of the scene that brings it up. *)
VenueIsBroughtUp == scene = "bringup" => VenueComesUp
=============================================================================
