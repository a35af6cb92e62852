------------------------------ MODULE OAuthStore ------------------------------
(***************************************************************************)
(* The authorization server's store (oauth/oauth.ts): clients, requests that  *)
(* wait for the owner, codes, grants and rotating refresh tokens, in memory   *)
(* and in one file that is replaced as a whole, with failing writes, expiry,  *)
(* restarts, and the wait for the password check in the middle of an          *)
(* approval.                                                                *)
(*                                                                         *)
(* Clients and requests are numbered in the order in which they came.  A      *)
(* request has at most one grant, named like the request, and one code; the   *)
(* n-th refresh token answered for grant r is <<r, n>>.  An access token is   *)
(* good while its grant is there and its hour is not over, which keeps        *)
(* nothing else alive, so it is left out.  Form checks, PKCE, signatures and   *)
(* rate limits only refuse: they are left out too.                           *)
(***************************************************************************)
EXTENDS Naturals, FiniteSets

CONSTANTS
    MaxClients,            \* registered clients at a time
    MaxPending,            \* requests that wait, of all clients
    MaxPendingPerClient,
    Registrations,         \* bounds: clients ever,
    Requests,              \* requests ever,
    Rotations,             \* and tokens of a grant
    DiskFails              \* whether writing the file may fail

ASSUME OAuthStoreAssumption ==
    /\ {MaxClients, MaxPending, MaxPendingPerClient} \subseteq Nat \ {0}
    /\ {Registrations, Requests, Rotations} \subseteq Nat
    /\ DiskFails \in BOOLEAN

Client == 1..Registrations
Request == 1..Requests
Token == Request \X (1..Rotations)

VARIABLES
    mem, disk,       \* the store of the process, and of the file
    owner,           \* request -> the client it came from, 0 before it came
    registered,      \* how many clients came so far
    approving,       \* requests whose password is being checked
    over,            \* what is past its time
    told             \* what clients were answered: codes, the last token, and of a
                     \* grant's end that it is saved (ended), that there is nothing
                     \* to end while the file has it (unsaved), or an error (failed)

oauthVars == <<mem, disk, owner, registered, approving, over, told>>

EmptyStore == [clients |-> {}, granted |-> {}, pending |-> {}, grants |-> {},
               codes |-> {}, redeemed |-> {}, tokens |-> {}, spent |-> {}]

OAuthInit ==
    /\ mem = EmptyStore /\ disk = EmptyStore
    /\ owner = [r \in Request |-> 0]
    /\ registered = 0
    /\ approving = {} /\ over = {}
    /\ told = [codes |-> {}, last |-> [r \in Request |-> 0],
               ended |-> {}, unsaved |-> {}, failed |-> {}]

Timed ==
    ({"pending", "code", "grant"} \X Request) \cup ({"client"} \X Client) \cup ({"token"} \X Token)

Live(kind, S) == {x \in S : <<kind, x>> \notin over}
ClientsOf(S) == {owner[r] : r \in S}

-------------------------------------------------------------------------------
(* prune: a grant goes when nothing of it is left and it is idle, a client     *)
(* when nothing of it waits, it holds no grant, and it is old or idle.        *)
Prune(m) ==
    LET pending == Live("pending", m.pending)
        codes == Live("code", m.codes)
        tokens == Live("token", m.tokens)
        grants == {r \in m.grants : r \in codes \cup {t[1] : t \in tokens}
                                        \/ r \in Live("grant", m.grants)}
        clients == {c \in m.clients : \/ c \in ClientsOf(pending)
                                      \/ c \in m.granted \cap ClientsOf(grants)
                                      \/ c \in Live("client", m.clients)}
    IN  [clients |-> clients, granted |-> m.granted \cap clients, pending |-> pending,
         grants |-> grants, codes |-> codes, redeemed |-> m.redeemed \cap codes,
         tokens |-> tokens, spent |-> m.spent \cap tokens]

\* persist: the file is replaced, or stays as it is and the caller sees an error.
Saved(m) == mem' = Prune(m) /\ disk' = Prune(m)
Unsaved(m) == DiskFails /\ mem' = Prune(m) /\ UNCHANGED disk

RevokeGrant(m, r) ==
    [m EXCEPT !.grants = @ \ {r}, !.codes = @ \ {r}, !.redeemed = @ \ {r},
              !.tokens = {t \in @ : t[1] # r}, !.spent = {t \in @ : t[1] # r}]

IssueTokens(m, r) == [m EXCEPT !.tokens = @ \cup {<<r, told.last[r] + 1>>}]

\* Mutated RestoreStore: what the failed request changed stays.
RestoreNothing(old, m) == Prune(m)

\* restoreStore: the store of before; requests that were pruned stay pruned.
RestoreStore(old, m) == [old EXCEPT !.pending = Prune(m).pending]

-------------------------------------------------------------------------------
(* The never granted clients that are not being approved; the oldest goes.    *)
Evictable(m) == m.clients \ (m.granted \cup ClientsOf(approving \cap m.pending))

(* makeRoomForClient: who may be dropped for one client more.                 *)
Victims(m) ==
    IF Cardinality(m.clients) < MaxClients THEN {{}}
    ELSE {{c} : c \in {v \in Evictable(m) : \A d \in Evictable(m) : v <= d}}

(* register.                                                                 *)
Register ==
    /\ registered < Registrations
    /\ \E victims \in Victims(Prune(mem)) :
          LET new == [Prune(mem) EXCEPT !.clients = (@ \ victims) \cup {registered + 1},
                                        !.pending = {r \in @ : owner[r] \notin victims}]
          IN  Saved(new) \/ Unsaved(new)
    /\ registered' = registered + 1
    /\ UNCHANGED <<owner, approving, over, told>>

(* What is used again is not idle.                                           *)
UsedNow(S) == over' = over \ S

(* authorizeGet: a request for the owner's consent.                           *)
AuthorizeGet(r, c) ==
    /\ owner[r] = 0 /\ \A q \in Request : q < r => owner[q] # 0
    /\ LET m == Prune(mem)
       IN  /\ c \in m.clients
           /\ Cardinality({q \in m.pending : owner[q] = c}) < MaxPendingPerClient
           /\ Cardinality(m.pending) < MaxPending
    /\ owner' = [owner EXCEPT ![r] = c]
    /\ LET m == Prune(mem)
           new == [m EXCEPT !.pending = @ \cup {r}]
       IN  /\ mem' = new
           /\ disk' = new \/ (DiskFails /\ UNCHANGED disk)
    /\ UsedNow(IF c \in mem.granted THEN {<<"client", c>>} ELSE {})
    /\ UNCHANGED <<registered, approving, told>>

(* authorizePost, up to its wait for the password check.                      *)
AskPassword(r) ==
    /\ r \in Live("pending", mem.pending) \ approving
    /\ Saved(mem)
    /\ approving' = approving \cup {r}
    /\ UNCHANGED <<owner, registered, over, told>>

\* Mutated StillWaiting: what was looked up before the wait is taken as it was.
StillWaitingBefore(r) == TRUE

\* Looked at again after the wait: registration or pruning may have dropped it.
StillWaiting(r) == r \in mem.pending /\ owner[r] \in mem.clients

(* authorizePost, after its wait.                                             *)
PasswordChecked(r) ==
    /\ r \in approving
    /\ approving' = approving \ {r}
    /\ \/ UNCHANGED <<mem, disk, over, told>>    \* wrong password, or no longer waiting
       \/ /\ StillWaiting(r)
          /\ UsedNow({"code", "grant"} \X {r})
          /\ LET new == [mem EXCEPT !.pending = @ \ {r}, !.grants = @ \cup {r},
                                    !.codes = @ \cup {r}, !.granted = @ \cup {owner[r]}]
             IN  \/ Saved(new) /\ told' = [told EXCEPT !.codes = @ \cup {r}]
                 \/ Unsaved(new) /\ UNCHANGED told
    /\ UNCHANGED <<owner, registered>>

\* Mutated EndGrant: an error of the disk is not passed on.
EndGrantAnyway(r) ==
    /\ LET new == RevokeGrant(mem, r)
       IN  (Saved(new) \/ Unsaved(new)) /\ told' = [told EXCEPT !.ended = @ \cup {r}]
    /\ UNCHANGED <<owner, registered, approving, over>>

(* The grant is revoked; the client hears of it if that could be saved.       *)
EndGrant(r) ==
    /\ LET new == RevokeGrant(mem, r)
       IN  \/ Saved(new) /\ told' = [told EXCEPT !.ended = @ \cup {r}]
           \/ Unsaved(new) /\ told' = [told EXCEPT !.failed = @ \cup {r}]
    /\ UNCHANGED <<owner, registered, approving, over>>

(* What is not in memory is not known, and that is all that is answered: by    *)
(* revoke with the same 200 as after an end, by the others with               *)
(* invalid_grant.  Nothing is saved, though the file may have the grant.      *)
AnswerUnknown(r) ==
    /\ told' = [told EXCEPT !.ended = @ \cup ({r} \ (mem.grants \cup disk.grants)),
                             !.unsaved = @ \cup ({r} \cap (disk.grants \ mem.grants))]
    /\ UNCHANGED <<mem, disk, owner, registered, approving, over>>

(* Tokens are issued, saved and answered; or nothing happened.                *)
Answer(r, new) ==
    /\ told.last[r] < Rotations
    /\ \/ /\ Saved(new)
          /\ told' = [told EXCEPT !.last[r] = @ + 1]
          /\ UsedNow({<<"grant", r>>, <<"client", owner[r]>>})
       \/ /\ DiskFails
          /\ mem' = RestoreStore(mem, new)
          /\ UNCHANGED <<disk, told, over>>
    /\ UNCHANGED <<owner, registered, approving>>

\* Mutated Redeem: the code is not used up.
RedeemAgain(m, r) == IssueTokens(m, r)

Redeem(m, r) == IssueTokens([m EXCEPT !.redeemed = @ \cup {r}], r)

(* exchangeCode: a code works once; presented again it ends its grant.        *)
ExchangeCode(r) ==
    /\ r \in told.codes /\ owner[r] \in mem.clients
    /\ \/ r \notin mem.codes /\ AnswerUnknown(r)
       \/ r \in mem.redeemed /\ EndGrant(r)
       \/ r \in Live("code", mem.codes) \ mem.redeemed /\ Answer(r, Redeem(mem, r))

Answered == {t \in Token : t[2] <= told.last[t[1]]}

(* refreshGrant: so does a refresh token.                                     *)
RefreshGrant(t) ==
    /\ t \in Answered /\ owner[t[1]] \in mem.clients
    /\ \/ t \notin mem.tokens /\ AnswerUnknown(t[1])
       \/ t \in mem.spent /\ EndGrant(t[1])
       \/ /\ t \in Live("token", mem.tokens) \ mem.spent /\ t[1] \in mem.grants
          /\ Answer(t[1], IssueTokens([mem EXCEPT !.spent = @ \cup {t}], t[1]))

(* revoke, by a client that names itself rightly or not at all.               *)
Revoke(t) ==
    /\ t \in Answered
    /\ \/ t \notin mem.tokens /\ AnswerUnknown(t[1])
       \/ t \in mem.tokens /\ EndGrant(t[1])

(* The sweep of every 30 seconds; refused requests prune as well.             *)
Sweep ==
    /\ Prune(mem) # mem
    /\ Saved(mem) \/ (mem' = Prune(mem) /\ UNCHANGED disk)
    /\ UNCHANGED <<owner, registered, approving, over, told>>

(* The process ends; the next one reads the file.                             *)
Restart ==
    /\ mem' = [disk EXCEPT !.granted = @ \cup (ClientsOf(disk.grants) \cap disk.clients)]
    /\ approving' = {}
    /\ UNCHANGED <<disk, owner, registered, over, told>>

InStore(m) ==
    ({"pending"} \X m.pending) \cup ({"code"} \X m.codes) \cup ({"token"} \X m.tokens)
        \cup ({"grant"} \X m.grants) \cup ({"client"} \X m.clients)

(* The time of something that exists is over.                                 *)
Lapse(x) ==
    /\ x \in (InStore(mem) \cup InStore(disk)) \ over
    /\ over' = over \cup {x}
    /\ UNCHANGED <<mem, disk, owner, registered, approving, told>>

OAuthNext ==
    \/ Register \/ Sweep \/ Restart
    \/ \E x \in Timed : Lapse(x)
    \/ \E r \in Request :
          \/ \E c \in Client : AuthorizeGet(r, c)
          \/ AskPassword(r) \/ PasswordChecked(r) \/ ExchangeCode(r)
    \/ \E t \in Token : RefreshGrant(t) \/ Revoke(t)

OAuthSpec == OAuthInit /\ [][OAuthNext]_oauthVars
-------------------------------------------------------------------------------
StoreType ==
    [clients : SUBSET Client, granted : SUBSET Client, pending : SUBSET Request,
     grants : SUBSET Request, codes : SUBSET Request, redeemed : SUBSET Request,
     tokens : SUBSET Token, spent : SUBSET Token]

OAuthTypeOK ==
    /\ mem \in StoreType /\ disk \in StoreType
    /\ owner \in [Request -> Client \cup {0}] /\ registered \in 0..Registrations
    /\ approving \subseteq Request /\ over \subseteq Timed
    /\ told \in [codes : SUBSET Request, last : [Request -> 0..Rotations],
                 ended : SUBSET Request, unsaved : SUBSET Request, failed : SUBSET Request]

(* Rotation: a grant never has two refresh tokens that work, in memory or in   *)
(* the file a restart would read, however writes fail in between.             *)
OneLiveRefresh ==
    \A store \in {mem, disk}, r \in Request :
        Cardinality({t \in store.tokens \ store.spent : t[1] = r}) <= 1

(* A client is never locked out by the server's own trouble: the last refresh  *)
(* token it was answered works, now and after a restart, until its time is    *)
(* over or the grant was ended.  A rotation that could not be saved must      *)
(* leave the old token good.                                                *)
LastTokenWorks ==
    \A store \in {mem, disk}, r \in Request \ (told.ended \cup told.failed) :
        LET t == <<r, told.last[r]>>
        IN  (told.last[r] > 0 /\ <<"token", t>> \notin over) =>
                /\ t \in store.tokens \ store.spent
                /\ r \in store.grants /\ owner[r] \in store.clients

(* A grant whose end a client was answered once it was saved, by the call that *)
(* ended it (revoke, or a code or a refresh token used twice) or by a later   *)
(* one that finds nothing left, stays ended, over failed writes, later        *)
(* rollbacks and restarts.  What is answered before the end is saved is not   *)
(* meant here: see AnsweredEndStands.                                        *)
EndedStaysEnded ==
    \A store \in {mem, disk}, r \in told.ended :
        r \notin store.grants /\ \A t \in store.tokens : t[1] # r

(* "A client can revoke its own token", "A replayed code revokes every token   *)
(* it issued", "A spent refresh token revokes its grant": once such a call was *)
(* answered, other than with an error of the disk, no token of the grant       *)
(* works again.  Not so: a restart after a failed save brings back the grant   *)
(* that a second call was told is gone.                                       *)
AnsweredEndStands ==
    \A t \in Live("token", mem.tokens \ mem.spent) : t[1] \notin told.ended \cup told.unsaved

(* "A code for a missing client could never be redeemed": a grant's client is  *)
(* registered, though registration and pruning run while the owner's          *)
(* password is being checked.                                               *)
GrantHasClient ==
    \A store \in {mem, disk} : ClientsOf(store.grants) \subseteq store.clients
===============================================================================
