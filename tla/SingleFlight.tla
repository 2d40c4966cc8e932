------------------------------ MODULE SingleFlight ------------------------------
(* What protocol.Pool promises about WeChat logins, with every mechanism left  *)
(* out: for each key (account, proxy) a usable session is either cached or     *)
(* not, and while it is not, at most one request is logging in to obtain one.  *)
(* No login ever starts while a usable session is cached, and a session only   *)
(* becomes usable as the outcome of the one login that was in flight.          *)
CONSTANTS Requests, Keys

VARIABLES
    cached,  \* cached[k]: a live session row of key k exists
    loaders  \* loaders[k]: the requests that are logging in on behalf of k

vars == <<cached, loaders>>

TypeOK ==
    /\ cached \in [Keys -> BOOLEAN]
    /\ loaders \in [Keys -> SUBSET Requests]

Init ==
    /\ cached = [k \in Keys |-> FALSE]
    /\ loaders = [k \in Keys |-> {}]

Begin(r, k) ==
    /\ ~cached[k]
    /\ loaders[k] = {}
    /\ loaders' = [loaders EXCEPT ![k] = {r}]
    /\ UNCHANGED cached

(* The login ends: with a session other requests can find, or without one.     *)
Finish(k) ==
    /\ loaders[k] # {}
    /\ loaders' = [loaders EXCEPT ![k] = {}]
    /\ \E usable \in BOOLEAN : cached' = [cached EXCEPT ![k] = usable]

(* Expiry, invalidation, and the deletion of the account with all its keys.    *)
Drop(gone) ==
    /\ gone # {}
    /\ \A k \in gone : cached[k]
    /\ cached' = [k \in Keys |-> cached[k] /\ k \notin gone]
    /\ UNCHANGED loaders

(* The process restarts: logins in flight are gone, the cache is on disk.      *)
Crash ==
    /\ loaders' = [k \in Keys |-> {}]
    /\ UNCHANGED cached

Next ==
    \/ \E r \in Requests, k \in Keys : Begin(r, k)
    \/ \E k \in Keys : Finish(k)
    \/ \E gone \in SUBSET Keys : Drop(gone)
    \/ Crash

Spec == Init /\ [][Next]_vars
================================================================================
