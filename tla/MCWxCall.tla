-------------------------------- MODULE MCWxCall --------------------------------
(* Small instances of WxCall for TLC.                                          *)
EXTENDS WxCall

VARIABLE calls  \* whether requests are calls, or plain refreshes only

(* A refresh writes the same whether or not a call follows it, and a call      *)
(* takes the buffer it finds: so behaviours with calls issue one credential    *)
(* beside the first and rotate with every refresh, and those of refreshes and  *)
(* scans issue all there are.  A hang-up does to a refresh what Faults do.     *)
Entries == IF calls THEN {"session", "forget"} ELSE {"refresh"}

Within ==
    /\ \A r \in Requests : at[r] = "home" => at'[r] \in {"home"} \cup Entries
    /\ IF calls
       THEN /\ last'.buf <= 2 /\ last'.token <= 2
            /\ \A r \in Requests : at[r] = "refresh" /\ at'[r] = "fetch" => last' # last
       ELSE hungUp' = {}

MCInit == WxInit /\ calls \in BOOLEAN
MCNext == WxNext /\ Within /\ UNCHANGED calls
MCSpec == MCInit /\ [][MCNext]_<<vars, calls>> /\ \A r \in Requests : SF_vars(RequestStep(r))
================================================================================
