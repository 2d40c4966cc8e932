-------------------------------- MODULE ScanPage --------------------------------
(* The page that scans an account in (resource/templates/scan.html) over the   *)
(* QR sessions of the program.  The page runs one handler at a time; its calls *)
(* overlap, their answers come in any order, and a timer it has lost the       *)
(* handle of goes on ticking.                                                  *)
EXTENDS QrSessions

ASSUME RoleAssumption == Null \notin {"newQr", "poll", "confirm"}

VARIABLES
    page,   \* what the page's variables and its status line say
    role,   \* which of newQr, poll and confirm waits for a request
    about   \* the session the URL of the request names

pageVars == <<page, role, about>>
scanVars == <<qrVars, pageVars>>

Shown == {"getting", "waiting", "scanned", "renewing", "cancelled", "storing", "ok",
          "storeFailed", "createFailed"}

(* A timer: the one the variable names, and whether an older one still ticks.  *)
Stopped == [set |-> FALSE, lost |-> FALSE]
Cleared(timer) == [timer EXCEPT !.set = FALSE]
Started(timer) == [set |-> TRUE, lost |-> timer.lost \/ timer.set]
Ticks(timer) == timer.set \/ timer.lost

ScanTypeOK ==
    /\ page.sid \in Sids \cup {Null} /\ page.result \in Sids \cup {Null}
    /\ page.shown \in Shown
    /\ page.pollTimer \in [set : BOOLEAN, lost : BOOLEAN]
    /\ page.cdTimer \in [set : BOOLEAN, lost : BOOLEAN]
    /\ role \in [Requests -> {"newQr", "poll", "confirm", Null}]
    /\ about \in [Requests -> Sids \cup {Null}]
    /\ \A r \in Requests : at[r] # "home" => role[r] # Null
    /\ \A r \in Requests : role[r] \in {"poll", "confirm"} <=> about[r] # Null

(* The page has loaded and calls newQr.                                        *)
ScanInit ==
    /\ QrInit
    /\ page = [sid |-> Null, result |-> Null, shown |-> "getting",
               pollTimer |-> Stopped, cdTimer |-> Stopped]
    /\ about = [r \in Requests |-> Null]
    /\ \E r \in Requests : role = [q \in Requests |-> IF q = r THEN "newQr" ELSE Null]

--------------------------------------------------------------------------------
(* A handler calls a function: r is the request that function will send.       *)
Call(r, function, s) ==
    /\ role' = [role EXCEPT ![r] = function]
    /\ about' = [about EXCEPT ![r] = s]

FaultyStopTimers ==
    [page EXCEPT !.pollTimer = Cleared(@), !.cdTimer = Cleared(@), !.sid = Null]

StopTimers == [page EXCEPT !.pollTimer = Cleared(@), !.cdTimer = Cleared(@)]

NewQr(r) ==
    /\ page' = [StopTimers EXCEPT !.shown = "getting"]
    /\ Call(r, "newQr", Null)

(* The button, or the countdown at its end; a lost countdown gets there too.   *)
RefreshClicked(r) ==
    /\ role[r] = Null
    /\ NewQr(r)
    /\ UNCHANGED qrVars

CountdownEnds(r) ==
    /\ Ticks(page.cdTimer)
    /\ RefreshClicked(r)

PollTimer(r) ==
    /\ Ticks(page.pollTimer)
    /\ role[r] = Null
    /\ page.sid # Null
    /\ Call(r, "poll", page.sid)
    /\ UNCHANGED <<page, qrVars>>

(* fetch: the request reaches the program.                                     *)
Fetch(r) ==
    /\ at[r] = "home"
    /\ \/ role[r] = "newQr" /\ PruneQR(r)
       \/ role[r] = "poll" /\ GetQRSession(r, about[r], "lockPoll")
       \/ role[r] = "confirm" /\ GetQRSession(r, about[r], "lockConfirm")
    /\ UNCHANGED pageVars

--------------------------------------------------------------------------------
Answered(r, function) == role[r] = function /\ at[r] = "done"

NewQrAnswered(r) ==
    /\ Answered(r, "newQr")
    /\ page' = IF ans[r] = "created"
               THEN [page EXCEPT !.sid = sidOf[r], !.shown = "waiting",
                                 !.pollTimer = Started(@), !.cdTimer = Started(@)]
               ELSE [page EXCEPT !.shown = "createFailed"]
    /\ Call(r, Null, Null)
    /\ Receive(r)

PollAnswered(r) ==
    /\ Answered(r, "poll")
    /\ \/ /\ ans[r] \in {"notFound", "error"}
          /\ Call(r, Null, Null) /\ UNCHANGED page
       \/ /\ ans[r] \in {"pending", "scanned"}
          /\ page' = [page EXCEPT !.shown = IF ans[r] = "pending" THEN "waiting" ELSE "scanned"]
          /\ Call(r, Null, Null)
       \/ /\ ans[r] \in {"authorized", "confirmed"}
          /\ page' = [StopTimers EXCEPT !.shown = "storing"]
          /\ Call(r, "confirm", page.sid)
       \/ /\ ans[r] \in {"expired", "unknown"}
          /\ NewQr(r)
       \/ /\ ans[r] = "cancelled"
          /\ page' = [StopTimers EXCEPT !.shown = "cancelled"]
          /\ Call(r, Null, Null)
    /\ Receive(r)

FaultyConfirmAnswered(r) ==
    /\ Answered(r, "confirm")
    /\ page' = IF ans[r] # "stored" THEN page
               ELSE [page EXCEPT !.result = about[r], !.shown = "ok"]
    /\ Call(r, Null, Null)
    /\ Receive(r)

ConfirmAnswered(r) ==
    /\ Answered(r, "confirm")
    /\ page' = [page EXCEPT !.result = about[r],
                            !.shown = IF ans[r] = "stored" THEN "ok" ELSE "storeFailed"]
    /\ Call(r, Null, Null)
    /\ Receive(r)

Handler(r) == Fetch(r) \/ NewQrAnswered(r) \/ PollAnswered(r) \/ ConfirmAnswered(r)

ScanNext ==
    \/ \E r \in Requests :
        \/ Handler(r) \/ RefreshClicked(r) \/ CountdownEnds(r) \/ PollTimer(r)
        \/ ServerStep(r) /\ UNCHANGED pageVars
    \/ \E s \in Sids : (PhoneStep(s) \/ Age(s)) /\ UNCHANGED pageVars

ScanSpec == ScanInit /\ [][ScanNext]_scanVars

(* The program as in QrFairSpec; a browser sends its requests and runs the     *)
(* handlers of their answers.                                                  *)
ScanFairSpec ==
    /\ ScanSpec
    /\ \A r \in Requests :
        /\ WF_scanVars(ServerStep(r) /\ UNCHANGED pageVars)
        /\ SF_scanVars(Lock(r) /\ UNCHANGED pageVars)
        /\ WF_scanVars(Handler(r))

--------------------------------------------------------------------------------
(* When the page says an account was added, it is in the database, although    *)
(* several confirms of a session may run, some after one that has failed       *)
(* (scan.html:97-107, app.go:347-372).                                         *)
OkIsStored == page.shown = "ok" => page.result \in stored

(* The page does not stay at "storing" (scan.html:99): every confirm it sends  *)
(* has a result.                                                               *)
StoringSettles == page.shown = "storing" ~> page.shown # "storing"

(* scan.html:107: the page says that storing failed when it did.               *)
ReportTrue == page.shown = "storeFailed" => page.result \notin stored
================================================================================
