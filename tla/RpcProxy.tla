------------------------------ MODULE RpcProxy ------------------------------
(***************************************************************************)
(* The browser's way to the chain (demo/src/app/api/rpc/route.ts): one     *)
(* server process that forwards the methods the venue uses, counts them    *)
(* per address in fixed windows, answers repeated reads from a cache and   *)
(* goes on to a second endpoint while the first one refuses for rate.      *)
(***************************************************************************)
EXTENDS Integers

CONSTANTS
    Ip,             \* addresses, as the request's headers name them
    Forwarder,      \* requests under way at once
    Window,         \* WINDOW_MS in ticks
    MaxPerWindow,
    MaxBatch,
    ReadTtl,        \* CACHE_TTL of a cacheable method, in ticks
    Urls,           \* the number of endpoints
    Attempts        \* at each of them

ASSUME ProxyAssumption ==
    /\ {Window, MaxPerWindow, MaxBatch, ReadTtl, Urls, Attempts} \subseteq Nat \ {0}
    /\ MaxBatch <= MaxPerWindow

VARIABLES
    hits,       \* address -> its window: calls counted, and age
    forward,    \* what each request is doing
    readCache,  \* the answer kept for a read, with its age
    passed      \* history: calls let through to the chain, by address and age

proxyVars == <<hits, forward, readCache, passed>>

NoWindow == [n |-> 0, age |-> Window + 1]
NoAnswer == [body |-> "none", age |-> ReadTtl]
AtRest == [kind |-> "none", url |-> 0, attempt |-> 0]

ProxyInit ==
    /\ hits = [ip \in Ip |-> NoWindow]
    /\ forward = [c \in Forwarder |-> AtRest]
    /\ readCache = NoAnswer
    /\ passed = [ip \in Ip |-> [t \in 0..Window |-> 0]]

---------------------------------------------------------------------------
(* A batch of calls with a method outside the list, or too many of them,   *)
(* is refused before it is counted; an empty one is not.                   *)
Kind == {"read", "other", "batch", "foreign"}
Serves(kind, n) == kind # "foreign" /\ n <= MaxBatch /\ (kind # "batch" => n = 1)

(* A window ends when more than its length has passed since its first      *)
(* call; what is refused counts too.  Beyond the limit all counts are one. *)
Opens(w) == w.age > Window
Counts(w, n) ==
    IF Opens(w) THEN [n |-> n, age |-> 0]
    ELSE [w EXCEPT !.n = IF @ + n > MaxPerWindow THEN MaxPerWindow + 1 ELSE @ + n]

(* Compared before the calls are added. *)
OverLimitBefore(w, n) == ~Opens(w) /\ w.n >= MaxPerWindow

OverLimit(w, n) == ~Opens(w) /\ w.n + n > MaxPerWindow

Hit(kind) == kind = "read" /\ readCache.age < ReadTtl

(* The request's way through the limits: turned away, answered from the    *)
(* cache, or sent to the first endpoint.                                   *)
Post(c, ip, kind, n) ==
    /\ forward[c] = AtRest /\ Serves(kind, n)
    /\ hits' = [hits EXCEPT ![ip] = Counts(@, n)]
    /\ IF OverLimit(hits[ip], n) \/ Hit(kind)
       THEN UNCHANGED <<forward, passed>>
       ELSE /\ forward' = [forward EXCEPT ![c] = [kind |-> kind, url |-> 1, attempt |-> 1]]
            /\ passed' = [passed EXCEPT ![ip][0] = @ + n]
    /\ UNCHANGED readCache

(* Anything but a refusal for rate is the answer.  Only a single read's    *)
(* result is kept: no error, whatever its status.                          *)
UpstreamAnswers(c, body) ==
    /\ forward[c] # AtRest
    /\ forward' = [forward EXCEPT ![c] = AtRest]
    /\ readCache' = IF forward[c].kind = "read" /\ body = "result"
                    THEN [body |-> body, age |-> 0] ELSE readCache
    /\ UNCHANGED <<hits, passed>>

(* Another attempt, the next endpoint, or the refusal itself as answer. *)
UpstreamLimits(c) ==
    LET f == forward[c] IN
    /\ f # AtRest
    /\ forward' = [forward EXCEPT ![c] =
           IF f.attempt < Attempts THEN [f EXCEPT !.attempt = @ + 1]
           ELSE IF f.url < Urls THEN [f EXCEPT !.url = @ + 1, !.attempt = 1]
           ELSE AtRest]
    /\ UNCHANGED <<hits, readCache, passed>>

(* The fetch throws: 502, with no word to the second endpoint. *)
UpstreamThrows(c) ==
    /\ forward[c] # AtRest
    /\ forward' = [forward EXCEPT ![c] = AtRest]
    /\ UNCHANGED <<hits, readCache, passed>>

ProxyTick ==
    /\ hits' = [ip \in Ip |-> IF Opens(hits[ip]) THEN NoWindow ELSE [hits[ip] EXCEPT !.age = @ + 1]]
    /\ readCache' = IF readCache.age < ReadTtl THEN [readCache EXCEPT !.age = @ + 1] ELSE NoAnswer
    /\ passed' = [ip \in Ip |-> [t \in 0..Window |-> IF t = 0 THEN 0 ELSE passed[ip][t - 1]]]
    /\ UNCHANGED forward

ProxyNext ==
    \/ ProxyTick
    \/ \E c \in Forwarder :
          \/ \E ip \in Ip, kind \in Kind, n \in 0..MaxBatch + 1 : Post(c, ip, kind, n)
          \/ \E body \in {"result", "error"} : UpstreamAnswers(c, body)
          \/ UpstreamLimits(c) \/ UpstreamThrows(c)

ProxySpec == ProxyInit /\ [][ProxyNext]_proxyVars

---------------------------------------------------------------------------
(* The calls let through that are at most t ticks old. *)
Since(p, t) ==
    LET sum[i \in 0..Window] == p[i] + (IF i = 0 THEN 0 ELSE sum[i - 1]) IN sum[t]

(* Whatever stretch of a window's length one looks at, one address got no  *)
(* more than two windows' worth of calls through to the chain              *)
(* (rpc/route.ts:63-69): fixed windows let a visitor use up two in a row,  *)
(* and no batch across the limit or refused call beside it may add to it.  *)
ForwardedIsBounded == \A ip \in Ip : Since(passed[ip], Window) <= 2 * MaxPerWindow
=============================================================================
