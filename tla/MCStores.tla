------------------------------- MODULE MCStores -------------------------------
(***************************************************************************)
(* What the server keeps on disk, for TLC, side by side (one moves while the  *)
(* others are at their start): the rows and files of runs (RunWorker), the    *)
(* authorization server's store (OAuthStore) and the audit log (AuditLog).    *)
(***************************************************************************)
EXTENDS MCRunWorker, OAuthStore, AuditLog

CONSTANTS
    MaxRows,     \* bound: ledger rows while there are two runs
    MaxPast      \* bound: what is past its time at once

(* One run on one day, with lapses, crashes and failing writes; or two runs    *)
(* that share the ceiling of a day and are worked on across its change.       *)
OneRunOneDay == status[2] = "none" /\ day = 0

TwoRuns ==
    /\ lapses = 0 /\ crashes = 0
    /\ Cardinality(ledger) <= MaxRows
    /\ \A w \in Worker : ~At(w, "threw")

(* Dying processes with failing calls; power losses with failing renames and   *)
(* deletions; failing appends that cannot be taken back.                      *)
MCTroubles ==
    {{"crash", "rename", "write", "sync", "unlink"},
     {"power", "rename", "unlink"},
     {"write", "truncate", "sync", "rename"}}

ASSUME MCTroublesApart == LossesApart

(* What is gone from the memory and the file of OAuthStore does not come back  *)
(* under its name, so that its time was over tells no states apart, but for   *)
(* the refresh token a client was answered last.                             *)
Past ==
    LET last == {"token"} \X {<<r, told.last[r]>> : r \in Request}
    IN  over \cap (InStore(mem) \cup InStore(disk) \cup last)

MCInit == Init /\ OAuthInit /\ LogInit
MCNext ==
    \/ /\ OAuthInit /\ LogInit /\ UNCHANGED <<oauthVars, logVars>>
       /\ Next /\ (OneRunOneDay' \/ TwoRuns')
    \/ /\ Init /\ LogInit /\ UNCHANGED <<vars, logVars>>
       /\ OAuthNext /\ Cardinality(Past') <= MaxPast
    \/ Init /\ OAuthInit /\ LogNext /\ UNCHANGED <<vars, oauthVars>>

MCSpec == MCInit /\ [][MCNext]_<<vars, oauthVars, logVars>>

MCView == <<vars, mem, disk, owner, registered, approving, told, Past, logVars>>
===============================================================================
