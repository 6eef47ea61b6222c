------------------------------- MODULE MCFeed -------------------------------
(***************************************************************************)
(* The web side: the book's way to the page, the other ways an answer      *)
(* takes (the proxy, the feeds beside the book), what the panels show of   *)
(* it, and the page one trades on.  No two of them share state that either *)
(* tells apart, so a run takes them one at a time: `scene' says which.     *)
(***************************************************************************)
EXTENDS BookFeed, RpcProxy, SideFeeds, Panels, Terminal

VARIABLE scene

Scene == {"book", "proxy", "feeds", "panels", "terminal"}

(* A scene not played keeps one initial state. *)
MCInit ==
    /\ scene \in Scene
    /\ Init /\ (scene # "book" => symbol = "a" /\ ladder = "none")
    /\ ProxyInit
    /\ FeedsInit /\ (scene # "feeds" => feed = "mark")
    /\ PanelsInit /\ (scene # "panels" => panel = Balances)
    /\ TerminalInit /\ (scene # "terminal" => listing = "a")

Others(s) ==
    /\ scene = s /\ UNCHANGED scene
    /\ s # "book" => UNCHANGED vars
    /\ s # "proxy" => UNCHANGED proxyVars
    /\ s # "feeds" => UNCHANGED feedVars
    /\ s # "panels" => UNCHANGED panelVars
    /\ s # "terminal" => UNCHANGED terminalVars

MCNext ==
    \/ Next /\ Others("book")
    \/ ProxyNext /\ Others("proxy")
    \/ FeedsNext /\ Others("feeds")
    \/ PanelsNext /\ Others("panels")
    \/ TerminalNext /\ Others("terminal")

mcVars == <<vars, proxyVars, feedVars, panelVars, terminalVars, scene>>

(* BookFeed's fairness, in the scene that is the book's. *)
MCFairness ==
    /\ WF_mcVars(Tick /\ Others("book"))
    /\ \A r \in Requester : WF_mcVars(Overdue(r) /\ ReadLost(r) /\ Others("book"))
    /\ \A l \in Slot : WF_mcVars((Show(l) \/ LoadFails(l)) /\ Others("book"))

MCSpec == MCInit /\ [][MCNext]_mcVars /\ MCFairness
=============================================================================
