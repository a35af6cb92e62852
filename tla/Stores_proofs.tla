----------------------------- MODULE Stores_proofs -----------------------------
(***************************************************************************)
(* Proofs about what the server keeps in files of its own.                    *)
(*                                                                         *)
(* The authorization server's store (OAuthStore), for any number of clients,  *)
(* requests, rotations and places.  What is true of a store, in memory or in  *)
(* the file, is an invariant of its own (Kept), kept by every operator on     *)
(* stores.  It is stated over what the requests came from and what clients    *)
(* were told, since an action changes these together with the store.         *)
(*                                                                         *)
(* The audit log (AuditLog), for any anchoring interval, segment size and     *)
(* number of appends and faults.  That an acknowledged record is not lost     *)
(* rests on where it is kept: as long as power may still be lost, it is       *)
(* synced in a file that has a name in every directory that the disk may go   *)
(* back to (Durable); and what an append takes back when it fails was not     *)
(* acknowledged (NewUnacked).                                               *)
(***************************************************************************)
EXTENDS OAuthStore, AuditLog, FiniteSetTheorems, WellFoundedInduction, SequenceTheorems, TLAPS

(* Codes and tokens belong to a grant, a grant to a request that waits no      *)
(* longer and to a client that is registered and marked as granted.           *)
Rooted(s, from) ==
    /\ s.redeemed \subseteq s.codes /\ s.spent \subseteq s.tokens
    /\ s.codes \subseteq s.grants
    /\ \A t \in s.tokens : t[1] \in s.grants
    /\ \A r \in s.grants : r \notin s.pending /\ from[r] \in s.granted \cap s.clients
    /\ \A r \in s.pending : from[r] # 0

(* A code that was not redeemed has no tokens yet, and of a grant's tokens     *)
(* one is not spent, if any.                                                *)
Rotated(s) ==
    /\ \A t \in s.tokens : t[1] \notin s.codes \ s.redeemed
    /\ \A t, u \in s.tokens \ s.spent : t[1] = u[1] => t = u

(* What clients were told: no token beyond the last one, no request once its    *)
(* code was told, no grant once its end was, and the last token works until    *)
(* its time is over.                                                         *)
Honoured(s, t, past) ==
    /\ \A x \in s.tokens : x[2] <= t.last[x[1]]
    /\ t.codes \cap s.pending = {} /\ t.ended \cap s.grants = {}
    /\ \A r \in Request \ (t.ended \cup t.failed) :
          (t.last[r] > 0 /\ <<"token", <<r, t.last[r]>>>> \notin past) =>
              <<r, t.last[r]>> \in s.tokens \ s.spent

Kept(s, from, t, past) ==
    s \in StoreType /\ Rooted(s, from) /\ Rotated(s) /\ Honoured(s, t, past)

IInv ==
    /\ OAuthTypeOK
    /\ Kept(mem, owner, told, over) /\ Kept(disk, owner, told, over)
    /\ \A r \in Request : told.last[r] > 0 => r \in told.codes
    /\ told.ended \subseteq told.codes
    /\ \A r \in told.codes : owner[r] # 0

-------------------------------------------------------------------------------
(* The fields of a pruned store: what is past its time goes, a grant stays      *)
(* while a code or a token of it is left, a client while it holds a grant.     *)
LEMMA Pruned ==
  ASSUME NEW m \in StoreType
  PROVE  /\ Prune(m) \in StoreType
         /\ Prune(m).pending \subseteq m.pending /\ Prune(m).grants \subseteq m.grants
         /\ Prune(m).codes \subseteq m.codes
         /\ Prune(m).redeemed = m.redeemed \cap Prune(m).codes
         /\ Prune(m).tokens = {x \in m.tokens : <<"token", x>> \notin over}
         /\ Prune(m).spent = m.spent \cap Prune(m).tokens
         /\ Prune(m).granted = m.granted \cap Prune(m).clients
         /\ \A r \in Prune(m).codes \cap m.grants : r \in Prune(m).grants
         /\ \A x \in Prune(m).tokens : x[1] \in m.grants => x[1] \in Prune(m).grants
         /\ \A r \in Prune(m).grants :
               owner[r] \in m.granted \cap m.clients => owner[r] \in Prune(m).clients
<1> DEFINE pending == Live("pending", m.pending)
           codes == Live("code", m.codes)
           tokens == Live("token", m.tokens)
           grants == {r \in m.grants : \/ r \in codes \cup {x[1] : x \in tokens}
                                       \/ r \in Live("grant", m.grants)}
           clients == {c \in m.clients : \/ c \in ClientsOf(pending)
                                         \/ c \in m.granted \cap ClientsOf(grants)
                                         \/ c \in Live("client", m.clients)}
<1>1. Prune(m) = [clients |-> clients, granted |-> m.granted \cap clients, pending |-> pending,
                  grants |-> grants, codes |-> codes, redeemed |-> m.redeemed \cap codes,
                  tokens |-> tokens, spent |-> m.spent \cap tokens]
  BY DEF Prune
<1>2. /\ pending \subseteq m.pending /\ codes \subseteq m.codes /\ grants \subseteq m.grants
      /\ clients \subseteq m.clients /\ tokens = {x \in m.tokens : <<"token", x>> \notin over}
  BY DEF Live
<1>3. /\ m.pending \subseteq Request /\ m.codes \subseteq Request /\ m.grants \subseteq Request
      /\ m.clients \subseteq Client /\ m.tokens \subseteq Token /\ m.granted \subseteq Client
      /\ m.redeemed \subseteq Request /\ m.spent \subseteq Token
  BY DEF StoreType
<1>4. /\ \A r \in codes \cap m.grants : r \in grants
      /\ \A x \in tokens : x[1] \in m.grants => x[1] \in grants
  OBVIOUS
<1>5. \A r \in grants : owner[r] \in m.granted \cap m.clients => owner[r] \in clients
  BY DEF ClientsOf
<1> HIDE DEF pending, codes, tokens, grants, clients
<1>6. Prune(m) \in StoreType
  BY <1>1, <1>2, <1>3 DEF StoreType
<1> QED
  BY <1>1, <1>2, <1>4, <1>5, <1>6

(* Pruning keeps what holds of a store, whatever clients were told.            *)
LEMMA PruneKeeps ==
  ASSUME NEW m, NEW t, Kept(m, owner, t, over)
  PROVE  Kept(Prune(m), owner, t, over)
<1> DEFINE p == Prune(m)
<1>0. m \in StoreType
  BY DEF Kept
<1>1. /\ p \in StoreType
      /\ p.pending \subseteq m.pending /\ p.grants \subseteq m.grants /\ p.codes \subseteq m.codes
      /\ p.redeemed = m.redeemed \cap p.codes
      /\ p.tokens = {x \in m.tokens : <<"token", x>> \notin over}
      /\ p.spent = m.spent \cap p.tokens /\ p.granted = m.granted \cap p.clients
      /\ \A r \in p.codes \cap m.grants : r \in p.grants
      /\ \A x \in p.tokens : x[1] \in m.grants => x[1] \in p.grants
      /\ \A r \in p.grants :
            owner[r] \in m.granted \cap m.clients => owner[r] \in p.clients
  BY <1>0, Pruned
<1> HIDE DEF p
<1>2. Rooted(p, owner)
  BY <1>1 DEF Kept, Rooted
<1>3. Rotated(p)
  BY <1>1 DEF Kept, Rotated
<1>4. Honoured(p, t, over)
  BY <1>1 DEF Kept, Honoured
<1> QED
  BY <1>1, <1>2, <1>3, <1>4 DEF Kept, p

(* What was told and is over matters through the tokens' times alone.          *)
LEMMA TimesMatter ==
  ASSUME NEW s, NEW from, NEW t, NEW past, NEW later, Kept(s, from, t, past),
         \A x : <<"token", x>> \in past => <<"token", x>> \in later
  PROVE  Kept(s, from, t, later)
BY DEF Kept, Honoured

(* A store that is saved, or kept in memory when saving fails (persist).       *)
LEMMA SavedKeeps ==
  ASSUME NEW m, Kept(m, owner, told', over), Saved(m), owner' = owner,
         \A x : <<"token", x>> \in over => <<"token", x>> \in over'
  PROVE  Kept(mem, owner, told, over)' /\ Kept(disk, owner, told, over)'
<1>1. Kept(Prune(m), owner, told', over)
  BY PruneKeeps
<1>2. Kept(Prune(m), owner, told', over')
  BY <1>1, TimesMatter
<1> QED
  BY <1>2 DEF Saved

LEMMA UnsavedKeeps ==
  ASSUME NEW m, Kept(m, owner, told', over), Kept(disk, owner, told', over), Unsaved(m),
         owner' = owner, \A x : <<"token", x>> \in over => <<"token", x>> \in over'
  PROVE  Kept(mem, owner, told, over)' /\ Kept(disk, owner, told, over)'
<1>1. Kept(Prune(m), owner, told', over)
  BY PruneKeeps
<1>2. Kept(Prune(m), owner, told', over') /\ Kept(disk, owner, told', over')
  BY <1>1, TimesMatter
<1> QED
  BY <1>2 DEF Unsaved

-------------------------------------------------------------------------------
(* register: no client with a grant is dropped.                               *)
LEMMA RegisterKeeps ==
  ASSUME OAuthTypeOK, NEW m, Kept(m, owner, told, over), registered < Registrations,
         NEW victims \in Victims(m)
  PROVE  Kept([m EXCEPT !.clients = (@ \ victims) \cup {registered + 1},
                        !.pending = {r \in @ : owner[r] \notin victims}], owner, told, over)
<1> DEFINE n == [m EXCEPT !.clients = (m.clients \ victims) \cup {registered + 1},
                          !.pending = {r \in m.pending : owner[r] \notin victims}]
<1>1. m \in StoreType
  BY DEF Kept
<1>2. registered + 1 \in Client
  BY OAuthStoreAssumption DEF OAuthTypeOK, Client
<1>3. victims \cap m.granted = {}
  BY DEF Victims, Evictable
<1>4. /\ n.clients = (m.clients \ victims) \cup {registered + 1}
      /\ n.pending \subseteq m.pending
      /\ n.grants = m.grants /\ n.granted = m.granted /\ n.codes = m.codes
      /\ n.redeemed = m.redeemed /\ n.tokens = m.tokens /\ n.spent = m.spent
  BY <1>1 DEF StoreType
<1>5. n \in StoreType
  BY <1>1, <1>2 DEF StoreType
<1> HIDE DEF n
<1>6. Rooted(n, owner) /\ Rotated(n) /\ Honoured(n, told, over)
  BY <1>3, <1>4 DEF Kept, Rooted, Rotated, Honoured
<1> QED
  BY <1>5, <1>6 DEF Kept, n

(* authorizePost: a request that still waits gets its grant and its code.      *)
LEMMA ApproveKeeps ==
  ASSUME OAuthTypeOK, NEW t, t.last = told.last, t.ended = told.ended, t.failed = told.failed,
         Kept(mem, owner, told, over), NEW r \in Request, StillWaiting(r),
         told.ended \subseteq told.codes, t.codes \subseteq told.codes \cup {r}
  PROVE  Kept([mem EXCEPT !.pending = @ \ {r}, !.grants = @ \cup {r},
                          !.codes = @ \cup {r}, !.granted = @ \cup {owner[r]}],
              owner, t, over)
<1> DEFINE n == [mem EXCEPT !.pending = mem.pending \ {r}, !.grants = mem.grants \cup {r},
                            !.codes = mem.codes \cup {r}, !.granted = mem.granted \cup {owner[r]}]
<1>1. mem \in StoreType
  BY DEF Kept
<1>2. r \in mem.pending /\ owner[r] \in mem.clients
  BY DEF StillWaiting
<1>3. /\ n.pending = mem.pending \ {r} /\ n.grants = mem.grants \cup {r}
      /\ n.codes = mem.codes \cup {r} /\ n.granted = mem.granted \cup {owner[r]}
      /\ n.clients = mem.clients /\ n.redeemed = mem.redeemed
      /\ n.tokens = mem.tokens /\ n.spent = mem.spent
  BY <1>1 DEF StoreType
<1>4. n \in StoreType
  BY <1>1, <1>2 DEF StoreType
<1> HIDE DEF n
<1>5. r \notin mem.grants
  BY <1>2 DEF Kept, Rooted
<1>6. Rooted(n, owner)
  BY <1>2, <1>3 DEF Kept, Rooted
<1>7. Rotated(n)
  BY <1>3, <1>5 DEF Kept, Rooted, Rotated
<1>8. Honoured(n, t, over)
  BY <1>2, <1>3 DEF Kept, Honoured
<1> QED
  BY <1>4, <1>6, <1>7, <1>8 DEF Kept, n

(* revokeGrant, whether the client hears of its end or of an error.            *)
LEMMA RevokeKeeps ==
  ASSUME OAuthTypeOK, NEW m, Kept(m, owner, told, over), NEW r \in Request, r \in m.grants, NEW t,
         t.codes = told.codes, t.last = told.last,
         told.ended \subseteq t.ended, t.ended \subseteq told.ended \cup {r},
         told.failed \subseteq t.failed, r \in t.ended \cup t.failed
  PROVE  Kept(RevokeGrant(m, r), owner, t, over)
<1> DEFINE n == RevokeGrant(m, r)
<1>1. m \in StoreType
  BY DEF Kept
<1>2. /\ n.grants = m.grants \ {r} /\ n.codes = m.codes \ {r} /\ n.redeemed = m.redeemed \ {r}
      /\ n.tokens = {x \in m.tokens : x[1] # r} /\ n.spent = {x \in m.spent : x[1] # r}
      /\ n.pending = m.pending /\ n.clients = m.clients /\ n.granted = m.granted
  BY <1>1 DEF StoreType, RevokeGrant
<1>3. n \in StoreType
  BY <1>1 DEF StoreType, RevokeGrant
<1> HIDE DEF n
<1>4. r \notin m.pending
  BY DEF Kept, Rooted
<1>5. Rooted(n, owner)
  BY <1>2 DEF Kept, Rooted
<1>6. Rotated(n)
  BY <1>2 DEF Kept, Rotated
<1>7. Honoured(n, t, over)
  BY <1>2, <1>4 DEF Kept, Honoured
<1> QED
  BY <1>3, <1>5, <1>6, <1>7 DEF Kept, n

(* issueTokens, once no code and no token of the grant is left to be used.     *)
LEMMA IssueKeeps ==
  ASSUME OAuthTypeOK, Kept(mem, owner, told, over), NEW r \in Request, r \in mem.grants,
         told.last[r] < Rotations,
         NEW red \in SUBSET mem.codes, mem.redeemed \subseteq red, r \notin mem.codes \ red,
         NEW sp \in SUBSET mem.tokens, mem.spent \subseteq sp,
         \A x \in sp \ mem.spent : x[1] = r, \A x \in mem.tokens \ sp : x[1] # r
  PROVE  Kept(IssueTokens([mem EXCEPT !.redeemed = red, !.spent = sp], r), owner,
              [told EXCEPT !.last[r] = @ + 1], over)
<1> DEFINE n == IssueTokens([mem EXCEPT !.redeemed = red, !.spent = sp], r)
           new == <<r, told.last[r] + 1>>
           t == [told EXCEPT !.last[r] = told.last[r] + 1]
<1>1. mem \in StoreType
  BY DEF Kept
<1>2. /\ n.tokens = mem.tokens \cup {new} /\ n.redeemed = red /\ n.spent = sp
      /\ n.grants = mem.grants /\ n.codes = mem.codes /\ n.pending = mem.pending
      /\ n.clients = mem.clients /\ n.granted = mem.granted
  BY <1>1 DEF StoreType, IssueTokens
<1>3. told.last \in [Request -> 0..Rotations] /\ Rotations \in Nat /\ told.last[r] \in Nat
  BY OAuthStoreAssumption DEF OAuthTypeOK
<1>4. new \in Token /\ new[1] = r /\ new[2] = told.last[r] + 1
  BY <1>3 DEF Token
<1>5. n \in StoreType
  BY <1>1, <1>4 DEF StoreType, IssueTokens
<1>6. /\ t.last = [told.last EXCEPT ![r] = told.last[r] + 1]
      /\ t.codes = told.codes /\ t.ended = told.ended /\ t.failed = told.failed
  BY DEF OAuthTypeOK
<1>7. new \notin sp
  BY <1>3, <1>4 DEF Kept, Honoured
<1> HIDE DEF n, new, t
<1>8. Rooted(n, owner)
  BY <1>2, <1>4 DEF Kept, Rooted
<1>9. Rotated(n)
  <2>1. \A x \in n.tokens : x[1] \notin n.codes \ n.redeemed
    BY <1>2, <1>4 DEF Kept, Rotated
  <2>2. \A x, y \in n.tokens \ n.spent : x[1] = y[1] => x = y
    BY <1>2, <1>4 DEF Kept, Rotated
  <2> QED
    BY <2>1, <2>2 DEF Rotated
<1>10. Honoured(n, t, over)
  <2>1. \A x \in n.tokens : x[2] <= t.last[x[1]]
    <3>1. \A x \in mem.tokens : x[1] \in Request /\ x[2] \in Nat /\ x[2] <= told.last[x[1]]
      BY <1>1 DEF Kept, Honoured, StoreType, Token
    <3> QED
      BY <1>2, <1>3, <1>4, <1>6, <3>1
  <2>2. t.codes \cap n.pending = {} /\ t.ended \cap n.grants = {}
    BY <1>2, <1>6 DEF Kept, Honoured
  <2>3. ASSUME NEW q \in Request \ (t.ended \cup t.failed), t.last[q] > 0,
               <<"token", <<q, t.last[q]>>>> \notin over
        PROVE  <<q, t.last[q]>> \in n.tokens \ n.spent
    <3>1. CASE q = r
      <4>1. <<q, t.last[q]>> = new
        BY <1>3, <1>6, <3>1 DEF new
      <4> QED
        BY <1>2, <1>7, <4>1
    <3>2. CASE q # r
      <4>1. t.last[q] = told.last[q]
        BY <1>3, <1>6, <3>2
      <4>2. <<q, told.last[q]>> \in mem.tokens \ mem.spent
        BY <1>6, <2>3, <4>1 DEF Kept, Honoured
      <4>3. <<q, told.last[q]>>[1] # r
        BY <3>2
      <4> QED
        BY <1>2, <4>1, <4>2, <4>3
    <3> QED
      BY <3>1, <3>2
  <2> QED
    BY <2>1, <2>2, <2>3 DEF Honoured
<1> QED
  BY <1>5, <1>8, <1>9, <1>10 DEF Kept, n, t

-------------------------------------------------------------------------------
(* The end of a grant, saved or not.                                          *)
LEMMA EndGrantKeeps ==
  ASSUME IInv, NEW r \in Request, r \in mem.grants, r \in told.codes, EndGrant(r)
  PROVE  IInv'
<1> DEFINE n == RevokeGrant(mem, r)
<1>1. UNCHANGED <<owner, registered, approving, over>>
  BY DEF EndGrant
<1>2. told.ended \subseteq Request /\ told.failed \subseteq Request
  BY DEF IInv, OAuthTypeOK
<1>3. CASE Saved(n) /\ told' = [told EXCEPT !.ended = @ \cup {r}]
  <2>1. /\ told'.codes = told.codes /\ told'.last = told.last
        /\ told'.ended = told.ended \cup {r} /\ told'.failed = told.failed
    BY <1>3 DEF IInv, OAuthTypeOK
  <2>2. Kept(n, owner, told', over)
    BY <2>1, RevokeKeeps DEF IInv
  <2>3. Kept(mem, owner, told, over)' /\ Kept(disk, owner, told, over)'
    BY <1>1, <1>3, <2>2, SavedKeeps
  <2>4. OAuthTypeOK'
    BY <1>1, <1>3, <2>3 DEF IInv, OAuthTypeOK, Kept
  <2> QED
    BY <1>1, <1>2, <2>1, <2>3, <2>4 DEF IInv
<1>4. CASE Unsaved(n) /\ told' = [told EXCEPT !.failed = @ \cup {r}]
  <2>1. /\ told'.codes = told.codes /\ told'.last = told.last
        /\ told'.ended = told.ended /\ told'.failed = told.failed \cup {r}
    BY <1>4 DEF IInv, OAuthTypeOK
  <2>2. Kept(n, owner, told', over)
    BY <2>1, RevokeKeeps DEF IInv
  <2>3. Kept(disk, owner, told', over)
    BY <2>1 DEF IInv, Kept, Honoured
  <2>4. Kept(mem, owner, told, over)' /\ Kept(disk, owner, told, over)'
    BY <1>1, <1>4, <2>2, <2>3, UnsavedKeeps
  <2>5. OAuthTypeOK'
    BY <1>1, <1>4, <2>4 DEF IInv, OAuthTypeOK, Kept
  <2> QED
    BY <1>1, <2>1, <2>4, <2>5 DEF IInv
<1> QED
  BY <1>3, <1>4 DEF EndGrant

(* What is not known is answered so: if neither store has the grant, it ended.  *)
LEMMA UnknownKeeps ==
  ASSUME IInv, NEW r \in told.codes, AnswerUnknown(r)
  PROVE  IInv'
<1>1. UNCHANGED <<mem, disk, owner, registered, approving, over>>
  BY DEF AnswerUnknown
<1>2. /\ told'.codes = told.codes /\ told'.last = told.last /\ told'.failed = told.failed
      /\ told'.ended = told.ended \cup ({r} \ (mem.grants \cup disk.grants))
      /\ told' \in [codes : SUBSET Request, last : [Request -> 0..Rotations],
                    ended : SUBSET Request, unsaved : SUBSET Request, failed : SUBSET Request]
  BY DEF AnswerUnknown, IInv, OAuthTypeOK
<1>3. Kept(mem, owner, told', over) /\ Kept(disk, owner, told', over)
  BY <1>2 DEF IInv, Kept, Honoured
<1> QED
  BY <1>1, <1>2, <1>3 DEF IInv, OAuthTypeOK

(* New tokens, saved and answered, or the store of before (restoreStore).      *)
LEMMA AnswerKeeps ==
  ASSUME IInv, NEW r \in Request, r \in told.codes, NEW n, Answer(r, n),
         Kept(n, owner, [told EXCEPT !.last[r] = @ + 1], over), n.pending = mem.pending
  PROVE  IInv'
<1>1. UNCHANGED <<owner, registered, approving>> /\ told.last[r] < Rotations
  BY DEF Answer
<1>2. told.last \in [Request -> 0..Rotations] /\ Rotations \in Nat
  BY OAuthStoreAssumption DEF IInv, OAuthTypeOK
<1>3. CASE /\ Saved(n) /\ told' = [told EXCEPT !.last[r] = @ + 1]
           /\ UsedNow({<<"grant", r>>, <<"client", owner[r]>>})
  <2>1. over' \subseteq over /\ \A x : <<"token", x>> \in over => <<"token", x>> \in over'
    BY <1>3 DEF UsedNow
  <2>2. Kept(mem, owner, told, over)' /\ Kept(disk, owner, told, over)'
    BY <1>1, <1>3, <2>1, SavedKeeps
  <2>3. told.last[r] + 1 \in 0..Rotations
    BY <1>1, <1>2
  <2>4. /\ told'.last = [told.last EXCEPT ![r] = told.last[r] + 1]
        /\ told' \in [codes : SUBSET Request, last : [Request -> 0..Rotations],
                      ended : SUBSET Request, unsaved : SUBSET Request, failed : SUBSET Request]
        /\ told'.codes = told.codes /\ told'.ended = told.ended
    BY <1>3, <2>3 DEF IInv, OAuthTypeOK
  <2>5. OAuthTypeOK'
    BY <1>1, <2>1, <2>2, <2>4 DEF IInv, OAuthTypeOK, Kept
  <2> QED
    BY <1>1, <2>2, <2>4, <2>5 DEF IInv
<1>4. CASE mem' = RestoreStore(mem, n) /\ UNCHANGED <<disk, told, over>>
  <2>1. n \in StoreType /\ mem \in StoreType
    BY DEF IInv, Kept
  <2>2. Prune(n).pending \subseteq mem.pending
    BY <2>1, Pruned
  <2>3. /\ mem' \in StoreType /\ mem'.pending \subseteq mem.pending
        /\ mem'.grants = mem.grants /\ mem'.granted = mem.granted /\ mem'.codes = mem.codes
        /\ mem'.redeemed = mem.redeemed /\ mem'.tokens = mem.tokens
        /\ mem'.spent = mem.spent /\ mem'.clients = mem.clients
    BY <1>4, <2>1, <2>2 DEF StoreType, RestoreStore
  <2>4. Kept(mem', owner, told, over)
    BY <2>3 DEF IInv, Kept, Rooted, Rotated, Honoured
  <2> QED
    BY <1>1, <1>4, <2>3, <2>4 DEF IInv, OAuthTypeOK
<1> QED
  BY <1>3, <1>4 DEF Answer

(* exchangeCode.                                                             *)
LEMMA ExchangeKeeps ==
  ASSUME IInv, NEW r \in Request, ExchangeCode(r)
  PROVE  IInv'
<1>1. r \in told.codes /\ mem \in StoreType
  BY DEF ExchangeCode, IInv, Kept
<1>2. r \in mem.codes => r \in mem.grants
  BY DEF IInv, Kept, Rooted
<1>3. CASE r \notin mem.codes /\ AnswerUnknown(r)
  BY <1>1, <1>3, UnknownKeeps
<1>4. CASE r \in mem.redeemed /\ EndGrant(r)
  BY <1>1, <1>2, <1>4, EndGrantKeeps DEF IInv, Kept, Rooted
<1>5. CASE r \in Live("code", mem.codes) \ mem.redeemed /\ Answer(r, Redeem(mem, r))
  <2> DEFINE red == mem.redeemed \cup {r}
             n == IssueTokens([mem EXCEPT !.redeemed = red, !.spent = mem.spent], r)
  <2>1. /\ red \in SUBSET mem.codes /\ mem.spent \in SUBSET mem.tokens
        /\ \A x \in mem.tokens \ mem.spent : x[1] # r
    BY <1>1, <1>5 DEF IInv, Kept, Rooted, Rotated, Live
  <2>2. told.last[r] < Rotations
    BY <1>5 DEF Answer
  <2>3. r \in mem.codes /\ r \in mem.grants
    BY <1>2, <1>5 DEF Live
  <2>4. Kept(n, owner, [told EXCEPT !.last[r] = @ + 1], over)
    BY <2>3, <2>1, <2>2, IssueKeeps DEF IInv
  <2>5. [mem EXCEPT !.redeemed = red, !.spent = mem.spent] = [mem EXCEPT !.redeemed = red]
    BY <1>1 DEF StoreType
  <2>6. n = Redeem(mem, r)
    BY <2>5 DEF Redeem
  <2>7. n.pending = mem.pending
    BY <1>1 DEF StoreType, IssueTokens
  <2> QED
    BY <1>1, <1>5, <2>4, <2>6, <2>7, AnswerKeeps
<1> QED
  BY <1>3, <1>4, <1>5 DEF ExchangeCode

(* Who has a token of a grant was told its code before.                       *)
LEMMA TokensTold ==
  ASSUME IInv, NEW t \in Answered
  PROVE  t[1] \in Request /\ t[1] \in told.codes
<1>1. t[1] \in Request /\ t[2] \in 1..Rotations /\ t[2] <= told.last[t[1]]
  BY DEF Answered, Token
<1>2. told.last[t[1]] \in Nat /\ Rotations \in Nat
  BY <1>1, OAuthStoreAssumption DEF IInv, OAuthTypeOK
<1>3. told.last[t[1]] > 0
  BY <1>1, <1>2
<1> QED
  BY <1>1, <1>3 DEF IInv

(* refreshGrant.                                                             *)
LEMMA RefreshKeeps ==
  ASSUME IInv, NEW t \in Token, RefreshGrant(t)
  PROVE  IInv'
<1>1. t[1] \in Request /\ t[1] \in told.codes /\ mem \in StoreType
  BY TokensTold DEF RefreshGrant, IInv, Kept, Token
<1>2. t \in mem.tokens => t[1] \in mem.grants
  BY DEF IInv, Kept, Rooted
<1>3. CASE t \notin mem.tokens /\ AnswerUnknown(t[1])
  BY <1>1, <1>3, UnknownKeeps
<1>4. CASE t \in mem.spent /\ EndGrant(t[1])
  BY <1>1, <1>2, <1>4, EndGrantKeeps DEF IInv, Kept, Rooted
<1>5. CASE /\ t \in Live("token", mem.tokens) \ mem.spent /\ t[1] \in mem.grants
           /\ Answer(t[1], IssueTokens([mem EXCEPT !.spent = @ \cup {t}], t[1]))
  <2> DEFINE r == t[1]
             sp == mem.spent \cup {t}
             n == IssueTokens([mem EXCEPT !.redeemed = mem.redeemed, !.spent = sp], r)
  <2>1. /\ sp \in SUBSET mem.tokens /\ mem.redeemed \in SUBSET mem.codes
        /\ r \notin mem.codes \ mem.redeemed
        /\ \A x \in mem.tokens \ sp : x[1] # r
        /\ \A x \in sp \ mem.spent : x[1] = r
    BY <1>1, <1>5 DEF IInv, Kept, Rooted, Rotated, Live
  <2>2. told.last[r] < Rotations
    BY <1>5 DEF Answer
  <2>3. Kept(n, owner, [told EXCEPT !.last[r] = @ + 1], over)
    BY <1>1, <1>5, <2>1, <2>2, IssueKeeps DEF IInv
  <2>4. [mem EXCEPT !.redeemed = mem.redeemed, !.spent = sp] = [mem EXCEPT !.spent = sp]
    BY <1>1 DEF StoreType
  <2>5. n = IssueTokens([mem EXCEPT !.spent = @ \cup {t}], t[1])
    BY <2>4
  <2>6. n.pending = mem.pending
    BY <1>1 DEF StoreType, IssueTokens
  <2> QED
    BY <1>1, <1>5, <2>3, <2>5, <2>6, AnswerKeeps
<1> QED
  BY <1>3, <1>4, <1>5 DEF RefreshGrant

(* A store that is only pruned and saved, or whose saving failed.             *)
LEMMA PersistKeeps ==
  ASSUME IInv, NEW m, Kept(m, owner, told, over),
         Saved(m) \/ (mem' = Prune(m) /\ UNCHANGED disk),
         UNCHANGED <<owner, over, told>>, registered' \in 0..Registrations,
         approving' \subseteq Request
  PROVE  IInv'
<1>1. Kept(Prune(m), owner, told, over)
  BY PruneKeeps
<1>2. Kept(mem, owner, told, over)' /\ Kept(disk, owner, told, over)'
  BY <1>1 DEF Saved, IInv
<1>3. OAuthTypeOK'
  BY <1>2 DEF IInv, OAuthTypeOK, Kept
<1> QED
  BY <1>2, <1>3 DEF IInv

LEMMA RegisterStep ==
  ASSUME IInv, Register
  PROVE  IInv'
<1>1. PICK victims \in Victims(Prune(mem)) :
        LET n == [Prune(mem) EXCEPT !.clients = (@ \ victims) \cup {registered + 1},
                                    !.pending = {r \in @ : owner[r] \notin victims}]
        IN  Saved(n) \/ Unsaved(n)
  BY DEF Register
<1> DEFINE n == [Prune(mem) EXCEPT !.clients = (@ \ victims) \cup {registered + 1},
                                   !.pending = {r \in @ : owner[r] \notin victims}]
<1>2. Kept(Prune(mem), owner, told, over)
  BY PruneKeeps DEF IInv
<1>3. Kept(n, owner, told, over)
  BY <1>2, RegisterKeeps DEF IInv, Register
<1>4. registered' \in 0..Registrations /\ UNCHANGED <<owner, approving, over, told>>
  BY OAuthStoreAssumption DEF Register, IInv, OAuthTypeOK
<1>5. Saved(n) \/ (mem' = Prune(n) /\ UNCHANGED disk)
  BY <1>1 DEF Unsaved
<1> QED
  BY <1>3, <1>4, <1>5, PersistKeeps DEF IInv, OAuthTypeOK

(* authorizeGet: a new request belongs to no grant of either store.            *)
LEMMA AuthorizeStep ==
  ASSUME IInv, NEW r \in Request, NEW c \in Client, AuthorizeGet(r, c)
  PROVE  IInv'
<1> DEFINE p == Prune(mem)
           n == [p EXCEPT !.pending = p.pending \cup {r}]
<1>1. /\ owner[r] = 0 /\ owner' = [owner EXCEPT ![r] = c] /\ c # 0
      /\ mem' = n /\ (disk' = n \/ UNCHANGED disk)
      /\ UNCHANGED <<registered, approving, told>>
  BY DEF AuthorizeGet, Client
<1>2. over' \subseteq over /\ \A x : <<"token", x>> \in over => <<"token", x>> \in over'
  BY DEF AuthorizeGet, UsedNow
<1>3. owner \in [Request -> Client \cup {0}] /\ 0 \notin Client
  BY DEF IInv, OAuthTypeOK, Client
<1>4. owner' \in [Request -> Client \cup {0}] /\ \A q \in Request : q # r => owner'[q] = owner[q]
  BY <1>1, <1>3
<1>5. owner'[r] # 0
  BY <1>1, <1>3
<1>6. ASSUME NEW s, Kept(s, owner, told, over)
      PROVE  /\ Kept(s, owner', told, over')
             /\ r \notin s.grants /\ r \notin told.codes
  <2>1. r \notin s.grants /\ r \notin s.pending /\ r \notin told.codes
    BY <1>1, <1>3, <1>6 DEF IInv, Kept, Rooted, StoreType
  <2>2. s \in StoreType /\ s.grants \subseteq Request /\ s.pending \subseteq Request
    BY <1>6 DEF Kept, StoreType
  <2>3. Rooted(s, owner')
    BY <1>4, <1>6, <2>1, <2>2 DEF Kept, Rooted
  <2>4. Honoured(s, told, over')
    BY <1>2, <1>6 DEF Kept, Honoured
  <2> QED
    BY <1>6, <2>1, <2>3, <2>4 DEF Kept
<1>7. Kept(p, owner, told, over)
  BY PruneKeeps DEF IInv
<1>8. p \in StoreType
  BY <1>7 DEF Kept
<1>9. /\ n \in StoreType /\ n.pending = p.pending \cup {r}
      /\ n.grants = p.grants /\ n.granted = p.granted /\ n.codes = p.codes
      /\ n.redeemed = p.redeemed /\ n.tokens = p.tokens
      /\ n.spent = p.spent /\ n.clients = p.clients
  BY <1>8 DEF StoreType
<1>10. Kept(p, owner', told, over') /\ r \notin p.grants /\ r \notin told.codes
  BY <1>6, <1>7
<1> HIDE DEF n, p
<1>11. Kept(n, owner', told, over')
  BY <1>5, <1>9, <1>10 DEF Kept, Rooted, Rotated, Honoured
<1>12. Kept(mem, owner, told, over)' /\ Kept(disk, owner, told, over)'
  BY <1>1, <1>6, <1>11 DEF IInv
<1>13. OAuthTypeOK'
  BY <1>1, <1>2, <1>4, <1>12 DEF IInv, OAuthTypeOK, Kept
<1>14. \A q \in told'.codes : owner'[q] # 0
  BY <1>1, <1>4, <1>5 DEF IInv, OAuthTypeOK
<1> QED
  BY <1>1, <1>12, <1>13, <1>14 DEF IInv

(* authorizePost, after the password was checked.                             *)
LEMMA PasswordStep ==
  ASSUME IInv, NEW r \in Request, PasswordChecked(r)
  PROVE  IInv'
<1>1. /\ approving' \subseteq Request /\ UNCHANGED <<owner, registered>>
  BY DEF PasswordChecked, IInv, OAuthTypeOK
<1>2. CASE UNCHANGED <<mem, disk, over, told>>
  BY <1>1, <1>2 DEF IInv, OAuthTypeOK
<1> DEFINE n == [mem EXCEPT !.pending = @ \ {r}, !.grants = @ \cup {r},
                            !.codes = @ \cup {r}, !.granted = @ \cup {owner[r]}]
<1>3. CASE /\ StillWaiting(r) /\ UsedNow({"code", "grant"} \X {r})
           /\ \/ Saved(n) /\ told' = [told EXCEPT !.codes = @ \cup {r}]
              \/ Unsaved(n) /\ UNCHANGED told
  <2>1. /\ told'.last = told.last /\ told'.ended = told.ended /\ told'.failed = told.failed
        /\ told.codes \subseteq told'.codes /\ told'.codes \subseteq told.codes \cup {r}
        /\ told' \in [codes : SUBSET Request, last : [Request -> 0..Rotations],
                      ended : SUBSET Request, unsaved : SUBSET Request, failed : SUBSET Request]
    BY <1>3 DEF IInv, OAuthTypeOK
  <2>2. over' \subseteq over /\ \A x : <<"token", x>> \in over => <<"token", x>> \in over'
    BY <1>3 DEF UsedNow
  <2>3. Kept(n, owner, told', over)
    BY <1>3, <2>1, ApproveKeeps DEF IInv
  <2>4. UNCHANGED told => Kept(disk, owner, told', over)
    BY DEF IInv
  <2>5. Kept(mem, owner, told, over)' /\ Kept(disk, owner, told, over)'
    BY <1>1, <1>3, <2>2, <2>3, <2>4, SavedKeeps, UnsavedKeeps
  <2>6. OAuthTypeOK'
    BY <1>1, <2>1, <2>2, <2>5 DEF IInv, OAuthTypeOK, Kept
  <2>7. owner[r] # 0
    BY <1>3 DEF IInv, Kept, Rooted, StillWaiting
  <2> QED
    BY <1>1, <2>1, <2>5, <2>6, <2>7 DEF IInv
<1> QED
  BY <1>2, <1>3 DEF PasswordChecked

(* The process ends; the next one reads the file.                             *)
LEMMA RestartStep ==
  ASSUME IInv, Restart
  PROVE  IInv'
<1>1. /\ mem' = [disk EXCEPT !.granted = @ \cup (ClientsOf(disk.grants) \cap disk.clients)]
      /\ approving' = {} /\ UNCHANGED <<disk, owner, registered, over, told>>
  BY DEF Restart
<1>2. disk \in StoreType
  BY DEF IInv, Kept
<1>3. /\ mem' \in StoreType /\ mem'.pending = disk.pending
      /\ mem'.grants = disk.grants /\ disk.granted \subseteq mem'.granted
      /\ mem'.codes = disk.codes /\ mem'.redeemed = disk.redeemed
      /\ mem'.tokens = disk.tokens /\ mem'.spent = disk.spent /\ mem'.clients = disk.clients
  BY <1>1, <1>2 DEF StoreType
<1>4. Kept(mem', owner, told, over)
  BY <1>3 DEF IInv, Kept, Rooted, Rotated, Honoured
<1> QED
  BY <1>1, <1>3, <1>4 DEF IInv, OAuthTypeOK

-------------------------------------------------------------------------------
LEMMA InitHolds == OAuthInit => IInv
<1> SUFFICES ASSUME OAuthInit PROVE IInv
  OBVIOUS
<1>1. EmptyStore \in StoreType
  BY DEF EmptyStore, StoreType
<1>2. Kept(EmptyStore, owner, told, over)
  BY <1>1 DEF OAuthInit, EmptyStore, Kept, Rooted, Rotated, Honoured
<1>3. OAuthTypeOK
  BY <1>1, OAuthStoreAssumption DEF OAuthInit, OAuthTypeOK
<1> QED
  BY <1>2, <1>3 DEF OAuthInit, IInv

LEMMA StepKeeps == IInv /\ [OAuthNext]_oauthVars => IInv'
<1> SUFFICES ASSUME IInv, [OAuthNext]_oauthVars PROVE IInv'
  OBVIOUS
<1>1. CASE UNCHANGED oauthVars
  BY <1>1 DEF oauthVars, IInv, OAuthTypeOK
<1>2. CASE Register
  BY <1>2, RegisterStep
<1>3. CASE Sweep
  BY <1>3, PersistKeeps DEF Sweep, IInv, OAuthTypeOK
<1>4. CASE Restart
  BY <1>4, RestartStep
<1>5. ASSUME NEW x \in Timed, Lapse(x) PROVE IInv'
  <2>1. over' = over \cup {x} /\ UNCHANGED <<mem, disk, owner, registered, approving, told>>
    BY <1>5 DEF Lapse
  <2>2. Kept(mem, owner, told, over') /\ Kept(disk, owner, told, over')
    BY <2>1, TimesMatter DEF IInv
  <2> QED
    BY <2>1, <2>2 DEF IInv, OAuthTypeOK
<1>6. ASSUME NEW r \in Request, NEW c \in Client, AuthorizeGet(r, c) PROVE IInv'
  BY <1>6, AuthorizeStep
<1>7. ASSUME NEW r \in Request, AskPassword(r) PROVE IInv'
  BY <1>7, PersistKeeps DEF AskPassword, IInv, OAuthTypeOK
<1>8. ASSUME NEW r \in Request, PasswordChecked(r) PROVE IInv'
  BY <1>8, PasswordStep
<1>9. ASSUME NEW r \in Request, ExchangeCode(r) PROVE IInv'
  BY <1>9, ExchangeKeeps
<1>10. ASSUME NEW t \in Token, RefreshGrant(t) PROVE IInv'
  BY <1>10, RefreshKeeps
<1>11. ASSUME NEW t \in Token, Revoke(t) PROVE IInv'
  <2>1. t[1] \in Request /\ t[1] \in told.codes
    BY <1>11, TokensTold DEF Revoke
  <2>2. CASE AnswerUnknown(t[1])
    BY <2>1, <2>2, UnknownKeeps
  <2>3. CASE t \in mem.tokens /\ EndGrant(t[1])
    BY <2>1, <2>3, EndGrantKeeps DEF IInv, Kept, Rooted
  <2> QED
    BY <1>11, <2>2, <2>3 DEF Revoke
<1> QED
  BY <1>1, <1>2, <1>3, <1>4, <1>5, <1>6, <1>7, <1>8, <1>9, <1>10, <1>11 DEF OAuthNext

LEMMA Invariance == OAuthSpec => []IInv
BY InitHolds, StepKeeps, PTL DEF OAuthSpec

(* Type correctness of the store, the file and what clients were told.         *)
THEOREM TypeCorrect == OAuthSpec => []OAuthTypeOK
<1>1. IInv => OAuthTypeOK
  BY DEF IInv
<1> QED
  BY <1>1, Invariance, PTL

(* Registration and pruning never take the client of a grant away, though they *)
(* run while a password is checked (makeRoomForClient, prune, authorizePost).  *)
THEOREM GrantsRooted == OAuthSpec => []GrantHasClient
<1>1. IInv => GrantHasClient
  BY DEF IInv, Kept, Rooted, GrantHasClient, ClientsOf
<1> QED
  BY <1>1, Invariance, PTL

(* A grant whose end was answered once memory and file had dropped it is in      *)
(* neither ever again, over failed writes, rollbacks and restarts              *)
(* (revokeGrant, persist, restoreStore).  An answer before the save (the       *)
(* retry of a call whose save failed) is no part of it.                       *)
THEOREM EndsStand == OAuthSpec => []EndedStaysEnded
<1>1. IInv => EndedStaysEnded
  BY DEF IInv, Kept, Rooted, Honoured, EndedStaysEnded
<1> QED
  BY <1>1, Invariance, PTL

(* A grant has at most one refresh token that works, in memory and in the      *)
(* file (exchangeCode, refreshGrant).                                         *)
THEOREM OneTokenLives == OAuthSpec => []OneLiveRefresh
<1>1. ASSUME IInv, NEW s \in {mem, disk}, NEW r \in Request
      PROVE  Cardinality({t \in s.tokens \ s.spent : t[1] = r}) <= 1
  <2> DEFINE L == {t \in s.tokens \ s.spent : t[1] = r}
  <2>1. \A t, u \in L : t = u
    BY <1>1 DEF IInv, Kept, Rotated
  <2>2. CASE L = {}
    <3>1. Cardinality(L) = 0
      BY <2>2, FS_EmptySet
    <3> QED
      BY <3>1
  <2>3. CASE L # {}
    <3>1. PICK t : L = {t}
      BY <2>1, <2>3
    <3>2. Cardinality(L) = 1
      BY <3>1, FS_Singleton
    <3> QED
      BY <3>2
  <2> QED
    BY <2>2, <2>3
<1>2. IInv => OneLiveRefresh
  BY <1>1 DEF OneLiveRefresh
<1> QED
  BY <1>2, Invariance, PTL

(* The last refresh token a client was answered works until its time is over   *)
(* or its grant was ended: a rotation that could not be saved is undone.       *)
THEOREM ClientsNotLockedOut == OAuthSpec => []LastTokenWorks
<1>1. ASSUME IInv, NEW s \in {mem, disk}, NEW r \in Request \ (told.ended \cup told.failed),
             told.last[r] > 0, <<"token", <<r, told.last[r]>>>> \notin over
      PROVE  /\ <<r, told.last[r]>> \in s.tokens \ s.spent
             /\ r \in s.grants /\ owner[r] \in s.clients
  <2>1. <<r, told.last[r]>> \in s.tokens \ s.spent
    BY <1>1 DEF IInv, Kept, Honoured
  <2>2. r \in s.grants
    BY <1>1, <2>1 DEF IInv, Kept, Rooted
  <2> QED
    BY <1>1, <2>1, <2>2 DEF IInv, Kept, Rooted
<1>2. IInv => LastTokenWorks
  BY <1>1 DEF LastTokenWorks
<1> QED
  BY <1>2, Invariance, PTL

-------------------------------------------------------------------------------
(* A sequence, whatever it holds.                                            *)
IsSeq(s) == s \in Seq({s[k] : k \in DOMAIN s})

FileSound(f) ==
    /\ f = [lines |-> f.lines, synced |-> f.synced]
    /\ IsSeq(f.lines) /\ f.synced \in 0..Len(f.lines)
FilesSound == IsSeq(file) /\ \A i \in DOMAIN file : FileSound(file[i])

DirSound(d) ==
    /\ d = [active |-> d.active, segments |-> d.segments, corrupt |-> d.corrupt]
    /\ d.active \in {0} \cup DOMAIN file /\ d.corrupt \subseteq DOMAIN file
DirsSound == \A d \in undone \cup {dir} : DirSound(d)

OpSound ==
    op = [pc |-> op.pc, job |-> op.job, kind |-> op.kind, of |-> op.of, carry |-> op.carry,
          before |-> op.before, created |-> op.created, todo |-> op.todo, named |-> op.named]

CountsSound ==
    /\ tried \in Nat
    /\ records = [acked |-> records.acked, deleted |-> records.deleted]
    /\ records.acked \subseteq 1..tried

FaultsTogether == faults.kinds = {} \/ \E t \in Troubles : faults.kinds \subseteq t

(* An append knows where its line starts, and the line once it is written.      *)
InAppend == {"append", "fsync", "dirSync", "rollback"}
Active == Lines(dir.active)
AppendSound ==
    /\ op.pc \in InAppend => op.before \in 0..Len(Active)
    /\ op.pc = "append" => op.before = Len(Active) /\ (op.created <=> dir.active = 0)
    /\ op.pc = "sealSync" => op.before = 0 /\ op.created = TRUE /\ dir.active = 0
    /\ op.pc \in {"fsync", "dirSync"} =>
           /\ dir.active # 0 /\ Len(Active) > 0 /\ Active[Len(Active)].hash = tried
           /\ tried # 0

(* A boundary is carried into a file of its own, next to the damaged one;      *)
(* otherwise the line of an append is of one of three kinds.                  *)
Lined == {"event", "anchor", "pruned"}
Called == {"event", "prune", "pruned"}
CarrySound ==
    /\ Carrying => /\ op.pc \in InAppend /\ op.before = 0 /\ op.kind # "anchor"
                   /\ dir.corrupt # {} /\ (op.job = "start" \/ op.kind \in Called)
    /\ (~Carrying /\ op.pc \in InAppend \cup {"sealSync", "write"}) => op.kind \in Lined
    /\ op.pc = "down" => op.job = "start" /\ op.kind # "anchor"
    /\ op.pc = "ensure" => op.kind \in Called

LogSound ==
    FilesSound /\ DirsSound /\ OpSound /\ CountsSound /\ FaultsTogether /\ AppendSound /\ CarrySound

(* What an append has written so far was not acknowledged.                     *)
NewUnacked ==
    op.pc \in InAppend =>
        \A k \in DOMAIN Active : k > op.before => Active[k].hash \notin records.acked

(* What must be there, and where it is.                                       *)
Owed == records.acked \ records.deleted
LinkedIn(d) == {d.active} \cup {x.ino : x \in d.segments} \cup d.corrupt
Holds(i, h) == i \in DOMAIN file /\ \E k \in DOMAIN file[i].lines : file[i].lines[k].hash = h
HoldsSynced(i, h) == i \in DOMAIN file /\ \E k \in 1..file[i].synced : file[i].lines[k].hash = h
OwedKept == \A h \in Owed : \E i \in LinkedIn(dir) : Holds(i, h)

(* As long as power may be lost: it is synced, under a name in every directory *)
(* that the disk may go back to; and so is the active file, but for a moment   *)
(* after it was created.                                                     *)
Safe == faults.kinds \cap Unsynced = {}
Durable ==
    \A h \in Owed : \E i \in DOMAIN file :
        HoldsSynced(i, h) /\ \A d \in undone \cup {dir} : i \in LinkedIn(d)
Fresh == op.created /\ op.pc \in {"fsync", "dirSync"}
ActiveDurable == (dir.active # 0 /\ ~Fresh) => \A d \in undone : dir.active \in LinkedIn(d)
SafeInv ==
    Safe => /\ op.pc # "rollback" /\ Durable /\ ActiveDurable
            /\ op.pc = "dirSync" => file[dir.active].synced = Len(Active)

LogInv == LogSound /\ NewUnacked /\ OwedKept /\ SafeInv

-------------------------------------------------------------------------------
(* A sequence with one more element.                                         *)
LEMMA Appended ==
  ASSUME NEW s, IsSeq(s), NEW x
  PROVE  /\ IsSeq(Append(s, x)) /\ Len(s) \in Nat /\ DOMAIN s = 1..Len(s)
         /\ Len(Append(s, x)) = Len(s) + 1
         /\ DOMAIN Append(s, x) = 1..(Len(s) + 1)
         /\ \A k \in 1..Len(s) : Append(s, x)[k] = s[k]
         /\ Append(s, x)[Len(s) + 1] = x
<1> DEFINE S == {s[k] : k \in DOMAIN s}
           T == S \cup {x}
           a == Append(s, x)
<1>1. s \in Seq(S)
  BY DEF IsSeq
<1> HIDE DEF S
<1>2. s \in Seq(T)
  BY <1>1
<1> HIDE DEF T
<1>3. x \in T
  BY DEF T
<1>4. /\ a \in Seq(T) /\ Len(s) \in Nat /\ DOMAIN s = 1..Len(s) /\ Len(a) = Len(s) + 1
      /\ DOMAIN a = 1..(Len(s) + 1)
      /\ \A k \in 1..Len(s) : a[k] = s[k]
      /\ a[Len(s) + 1] = x
  BY <1>2, <1>3
<1> HIDE DEF a
<1>5. a \in Seq({a[k] : k \in DOMAIN a})
  BY <1>4
<1> QED
  BY <1>4, <1>5 DEF IsSeq, a

(* The first elements of a sequence.                                         *)
LEMMA Prefix ==
  ASSUME NEW s, IsSeq(s), NEW n \in 0..Len(s)
  PROVE  /\ IsSeq(SubSeq(s, 1, n)) /\ Len(s) \in Nat /\ DOMAIN s = 1..Len(s)
         /\ Len(SubSeq(s, 1, n)) = n /\ DOMAIN SubSeq(s, 1, n) = 1..n
         /\ \A k \in 1..n : SubSeq(s, 1, n)[k] = s[k]
<1> DEFINE S == {s[k] : k \in DOMAIN s}
           a == SubSeq(s, 1, n)
<1>1. s \in Seq(S)
  BY DEF IsSeq
<1> HIDE DEF S
<1>2. /\ a \in Seq(S) /\ Len(s) \in Nat /\ DOMAIN s = 1..Len(s) /\ Len(a) = n /\ DOMAIN a = 1..n
      /\ \A k \in 1..n : a[k] = s[k]
  BY <1>1
<1> HIDE DEF a
<1>3. a \in Seq({a[k] : k \in DOMAIN a})
  BY <1>2
<1> QED
  BY <1>2, <1>3 DEF IsSeq, a

(* A sequence with another element in one place.                             *)
LEMMA Replaced ==
  ASSUME NEW s, IsSeq(s), NEW i \in DOMAIN s, NEW x
  PROVE  LET a == [s EXCEPT ![i] = x]
         IN  /\ IsSeq(a) /\ DOMAIN a = DOMAIN s /\ a[i] = x
             /\ \A j \in DOMAIN s \ {i} : a[j] = s[j]
<1> DEFINE S == {s[k] : k \in DOMAIN s}
           T == S \cup {x}
           a == [s EXCEPT ![i] = x]
<1>1. s \in Seq(S)
  BY DEF IsSeq
<1> HIDE DEF S
<1>2. s \in Seq(T)
  BY <1>1
<1> HIDE DEF T
<1>3. x \in T
  BY DEF T
<1>4. /\ a \in Seq(T) /\ DOMAIN a = DOMAIN s /\ a[i] = x
      /\ \A j \in DOMAIN s \ {i} : a[j] = s[j]
  BY <1>2, <1>3
<1> HIDE DEF a
<1>5. a \in Seq({a[k] : k \in DOMAIN a})
  BY <1>4
<1>6. IsSeq(a) /\ DOMAIN a = DOMAIN s /\ a[i] = x /\ \A j \in DOMAIN s \ {i} : a[j] = s[j]
  BY <1>4, <1>5 DEF IsSeq
<1> QED
  BY <1>6 DEF a

(* A function on an initial segment of the numbers.                           *)
LEMMA Mapped ==
  ASSUME NEW s, IsSeq(s), NEW a, a = [i \in DOMAIN s |-> a[i]]
  PROVE  IsSeq(a) /\ DOMAIN a = DOMAIN s
<1>1. s \in Seq({s[k] : k \in DOMAIN s})
  BY DEF IsSeq
<1>2. DOMAIN a = 1..Len(s) /\ Len(s) \in Nat
  BY <1>1
<1>3. a \in Seq({a[k] : k \in DOMAIN a})
  BY <1>2
<1> QED
  BY <1>2, <1>1, <1>3 DEF IsSeq

-------------------------------------------------------------------------------
(* Files keep their lines, and what is synced.                                *)
Grown ==
    \A i \in DOMAIN file :
        /\ i \in DOMAIN file' /\ file'[i].synced >= file[i].synced
        /\ \A k \in DOMAIN file[i].lines :
               k \in DOMAIN file'[i].lines /\ file'[i].lines[k] = file[i].lines[k]

(* Zero, which stands for no active file, is no file.                        *)
LEMMA NoFileIsZero == ASSUME FilesSound PROVE 0 \notin DOMAIN file
BY Appended DEF FilesSound

(* What a file holds it still holds. *)
LEMMA StaysHeld ==
  ASSUME FilesSound, FilesSound', Grown, NEW i, NEW h
  PROVE  /\ Holds(i, h) => Holds(i, h)'
         /\ HoldsSynced(i, h) => HoldsSynced(i, h)'
<1>1. Holds(i, h) => Holds(i, h)'
  BY DEF Holds, Grown
<1>2. ASSUME HoldsSynced(i, h) PROVE HoldsSynced(i, h)'
  <2>1. /\ i \in DOMAIN file /\ FileSound(file[i]) /\ FileSound(file[i])'
        /\ i \in DOMAIN file' /\ FileSound(file'[i]) /\ file'[i].synced >= file[i].synced
    BY <1>2 DEF HoldsSynced, Grown, FilesSound
  <2>2. PICK k \in 1..file[i].synced : file[i].lines[k].hash = h
    BY <1>2 DEF HoldsSynced
  <2>3. k \in DOMAIN file[i].lines /\ k \in 1..file'[i].synced
    BY <2>1, Appended DEF FileSound
  <2>4. file'[i].lines[k] = file[i].lines[k]
    BY <2>1, <2>3 DEF Grown
  <2> QED
    BY <2>1, <2>2, <2>3, <2>4 DEF HoldsSynced
<1> QED
  BY <1>1, <1>2

(* Where files grow and names stay, what is owed is still there, and durable.  *)
LEMMA StaysKept ==
  ASSUME FilesSound, FilesSound', Grown, Owed' \subseteq Owed,
         LinkedIn(dir) \ {0} \subseteq LinkedIn(dir')
  PROVE  /\ OwedKept => OwedKept'
         /\ (Durable /\ undone' \subseteq undone \cup {dir}) => Durable'
<1>1. ASSUME NEW i, NEW h, Holds(i, h) PROVE Holds(i, h)'
  BY <1>1, StaysHeld
<1>2. ASSUME NEW i, NEW h, HoldsSynced(i, h) PROVE HoldsSynced(i, h)'
  BY <1>2, StaysHeld
<1>3. OwedKept => OwedKept'
  <2> SUFFICES ASSUME OwedKept, NEW h \in Owed' PROVE \E i \in LinkedIn(dir') : Holds(i, h)'
    BY DEF OwedKept
  <2>1. PICK i \in LinkedIn(dir) : Holds(i, h)
    BY DEF OwedKept
  <2>2. i # 0
    BY <2>1, NoFileIsZero DEF Holds
  <2> QED
    BY <1>1, <2>1, <2>2
<1>4. ASSUME Durable, undone' \subseteq undone \cup {dir} PROVE Durable'
  <2> SUFFICES ASSUME NEW h \in Owed'
               PROVE  \E i \in DOMAIN file' :
                          HoldsSynced(i, h)' /\ \A d \in undone' \cup {dir'} : i \in LinkedIn(d)
    BY DEF Durable
  <2>1. PICK i \in DOMAIN file :
           HoldsSynced(i, h) /\ \A d \in undone \cup {dir} : i \in LinkedIn(d)
    BY <1>4 DEF Durable
  <2>2. i # 0 /\ i \in DOMAIN file'
    BY <2>1, NoFileIsZero DEF Grown
  <2> QED
    BY <1>2, <1>4, <2>1, <2>2
<1> QED
  BY <1>3, <1>4

(* The disk stays as it is. *)
LEMMA FilesUnchanged ==
  ASSUME FilesSound, UNCHANGED file
  PROVE  FilesSound' /\ Grown
<1>1. \A i \in DOMAIN file : file[i].synced \in Int
  BY Appended DEF FilesSound, FileSound
<1> QED
  BY <1>1 DEF FilesSound, FileSound, Grown

(* A file is replaced by another one. *)
LEMMA FileReplaced ==
  ASSUME FilesSound, NEW i \in DOMAIN file, NEW f, FileSound(f),
         file' = [file EXCEPT ![i] = f]
  PROVE  /\ FilesSound' /\ DOMAIN file' = DOMAIN file /\ file'[i] = f
         /\ \A j \in DOMAIN file \ {i} : file'[j] = file[j]
<1>1. /\ IsSeq(file') /\ DOMAIN file' = DOMAIN file /\ file'[i] = f
      /\ \A j \in DOMAIN file \ {i} : file'[j] = file[j]
  BY Replaced DEF FilesSound
<1>2. \A j \in DOMAIN file' : FileSound(file'[j])
  BY <1>1 DEF FilesSound
<1>3. FilesSound'
  BY <1>1, <1>2 DEF FilesSound, FileSound
<1> QED
  BY <1>1, <1>3

(* A new file. *)
LEMMA FileAdded ==
  ASSUME FilesSound, NEW f, FileSound(f), file' = Append(file, f)
  PROVE  /\ FilesSound' /\ Len(file') = Len(file) + 1 /\ Len(file) + 1 \in DOMAIN file'
         /\ DOMAIN file \subseteq DOMAIN file' /\ Len(file) \in Nat
         /\ file'[Len(file) + 1] = f /\ Grown
<1>1. /\ IsSeq(file') /\ Len(file) \in Nat /\ DOMAIN file = 1..Len(file)
      /\ Len(file') = Len(file) + 1 /\ DOMAIN file' = 1..(Len(file) + 1)
      /\ \A k \in 1..Len(file) : file'[k] = file[k]
      /\ file'[Len(file) + 1] = f
  BY Appended DEF FilesSound
<1>2. \A j \in DOMAIN file' : FileSound(file'[j])
  <2> SUFFICES ASSUME NEW j \in DOMAIN file' PROVE FileSound(file'[j])
    OBVIOUS
  <2>1. CASE j = Len(file) + 1
    BY <1>1, <2>1
  <2>2. CASE j \in DOMAIN file
    BY <1>1, <2>2 DEF FilesSound
  <2> QED
    BY <1>1, <2>1, <2>2
<1>3. FilesSound'
  BY <1>1, <1>2 DEF FilesSound, FileSound
<1>4. \A i \in DOMAIN file : file[i].synced \in Int
  BY Appended DEF FilesSound, FileSound
<1>5. Grown
  BY <1>1, <1>4 DEF Grown
<1> QED
  BY <1>1, <1>3, <1>5

(* The line of an append. *)
LEMMA LinePut ==
  ASSUME FilesSound, DirsSound, NEW line, PutLine(line)
  PROVE  /\ FilesSound' /\ DirsSound' /\ Grown
         /\ dir'.active # 0 /\ IsSeq(Active) /\ Active' = Append(Active, line)
         /\ dir'.corrupt = dir.corrupt
         /\ LinkedIn(dir) \ {0} \subseteq LinkedIn(dir')
         /\ undone' \subseteq undone \cup {dir}
         /\ dir.active # 0 => UNCHANGED <<dir, undone>>
<1>1. DirSound(dir)
  BY DEF DirsSound
<1>2. CASE dir.active = 0
  <2> DEFINE n == Len(file) + 1
             f == [lines |-> <<line>>, synced |-> 0]
  <2>1. FileSound(f)
    BY DEF FileSound, IsSeq
  <2>2. /\ file' = Append(file, f) /\ dir' = [dir EXCEPT !.active = n]
        /\ undone' = undone \cup {dir}
    BY <1>2 DEF PutLine, Moved
  <2> HIDE DEF f
  <2>3. /\ FilesSound' /\ n \in DOMAIN file' /\ DOMAIN file \subseteq DOMAIN file' /\ file'[n] = f
        /\ Grown /\ n \in Nat /\ n # 0
    BY <2>1, <2>2, FileAdded
  <2> HIDE DEF n
  <2>4. dir' = [active |-> n, segments |-> dir.segments, corrupt |-> dir.corrupt]
    BY <1>1, <2>2 DEF DirSound
  <2>5. DirSound(dir)'
    BY <1>1, <2>3, <2>4 DEF DirSound
  <2>6. ASSUME NEW d \in undone \cup {dir} PROVE DirSound(d)'
    BY <2>3, <2>6 DEF DirSound, DirsSound
  <2>7. DirsSound'
    BY <2>2, <2>5, <2>6 DEF DirsSound
  <2>8. Active = <<>> /\ Active' = <<line>>
    BY <1>2, <2>3, <2>4 DEF Active, Lines, f
  <2>9. IsSeq(Active) /\ Active' = Append(Active, line)
    BY <2>8 DEF IsSeq
  <2>10. LinkedIn(dir) \ {0} \subseteq LinkedIn(dir')
    BY <1>2, <2>4 DEF LinkedIn
  <2> QED
    BY <1>2, <2>2, <2>3, <2>4, <2>7, <2>9, <2>10
<1>3. CASE dir.active # 0
  <2> DEFINE i == dir.active
             f == [lines |-> Append(file[i].lines, line), synced |-> file[i].synced]
  <2>1. i \in DOMAIN file /\ FileSound(file[i])
    BY <1>1, <1>3 DEF DirSound, FilesSound
  <2>2. FileSound(f)
    <3>1. IsSeq(file[i].lines) /\ file[i].synced \in 0..Len(file[i].lines)
      BY <2>1 DEF FileSound
    <3>2. /\ IsSeq(f.lines) /\ Len(f.lines) = Len(file[i].lines) + 1
          /\ Len(file[i].lines) \in Nat
      BY <3>1, Appended
    <3> QED
      BY <3>1, <3>2 DEF FileSound
  <2>3. file' = [file EXCEPT ![i].lines = Append(@, line)] /\ UNCHANGED <<dir, undone>>
    BY <1>3 DEF PutLine
  <2> DEFINE g == [file[i] EXCEPT !.lines = Append(file[i].lines, line)]
  <2>4. file' = [file EXCEPT ![i] = g]
    BY <2>3
  <2>5. g = f
    BY <2>1 DEF FileSound
  <2> HIDE DEF g
  <2>6. file' = [file EXCEPT ![i] = f]
    BY <2>4, <2>5
  <2> HIDE DEF f
  <2>7. /\ FilesSound' /\ DOMAIN file' = DOMAIN file /\ file'[i] = f
        /\ \A j \in DOMAIN file \ {i} : file'[j] = file[j]
    BY <2>1, <2>2, <2>6, FileReplaced
  <2>8. /\ IsSeq(file[i].lines) /\ DOMAIN file[i].lines = 1..Len(file[i].lines)
        /\ DOMAIN f.lines = 1..(Len(file[i].lines) + 1)
        /\ \A k \in 1..Len(file[i].lines) : f.lines[k] = file[i].lines[k]
        /\ f.synced = file[i].synced /\ Len(file[i].lines) \in Nat
    BY <2>1, Appended DEF FileSound, f
  <2>9. \A j \in DOMAIN file : file[j].synced \in Int
    BY Appended DEF FilesSound, FileSound
  <2>10. Grown
    <3> SUFFICES ASSUME NEW j \in DOMAIN file
                 PROVE  /\ j \in DOMAIN file' /\ file'[j].synced >= file[j].synced
                        /\ \A k \in DOMAIN file[j].lines :
                               k \in DOMAIN file'[j].lines /\ file'[j].lines[k] = file[j].lines[k]
      BY DEF Grown
    <3>1. CASE j = i
      BY <2>7, <2>8, <2>9, <3>1
    <3>2. CASE j # i
      BY <2>7, <2>9, <3>2
    <3> QED
      BY <3>1, <3>2
  <2>11. DirsSound'
    BY <2>3, <2>7 DEF DirsSound, DirSound
  <2>12. Active = file[i].lines /\ Active' = Append(file[i].lines, line)
    BY <1>3, <2>3, <2>7 DEF Active, Lines, f
  <2> QED
    BY <1>3, <2>3, <2>7, <2>8, <2>10, <2>11, <2>12
<1> QED
  BY <1>2, <1>3

-------------------------------------------------------------------------------
(* A call that is between two appends.                                        *)
Settled(o) ==
    /\ o = [pc |-> o.pc, job |-> o.job, kind |-> o.kind, of |-> o.of, carry |-> o.carry,
            before |-> o.before, created |-> o.created, todo |-> o.todo, named |-> o.named]
    /\ o.pc \notin InAppend \cup {"sealSync"}
    /\ o.carry = Nothing
    /\ o.pc = "down" => o.job = "start" /\ o.kind # "anchor"
    /\ o.pc = "ensure" => o.kind \in Called
    /\ o.pc = "write" => o.kind \in Lined

(* Between calls, and when the process is gone. *)
LEMMA StepChanged ==
  ASSUME NEW o, Settled(o), NEW pc, NEW job,
         NEW r, r = [o EXCEPT !.pc = pc, !.job = job]
  PROVE  r = [pc |-> pc, job |-> job, kind |-> o.kind, of |-> o.of, carry |-> o.carry,
              before |-> o.before, created |-> o.created, todo |-> o.todo, named |-> o.named]
BY DEF Settled

(* Between calls, and when the process is gone, no append is under way.      *)
LEMMA RestSettles == Settled(Down) /\ Settled(Idle)
<1>1. Settled(Down)
  BY DEF Settled, Down, InAppend, Lined, Called
<1>2. Idle = [pc |-> "idle", job |-> "none", kind |-> Down.kind, of |-> Down.of,
              carry |-> Down.carry, before |-> Down.before, created |-> Down.created,
              todo |-> Down.todo, named |-> Down.named]
  BY <1>1, StepChanged DEF Idle
<1>3. Settled(Idle)
  BY <1>1, <1>2 DEF Settled, InAppend, Lined, Called
<1> QED
  BY <1>1, <1>3

(* What a fault says of the others, where losses are apart.                  *)
LEMMA Faulted ==
  ASSUME LossesApart, FaultsTogether, NEW k, Fault(k)
  PROVE  /\ FaultsTogether' /\ k # "recovery"
         /\ k = "power" => Safe
         /\ Safe' => Safe /\ k \notin Unsynced
<1>1. faults'.kinds = faults.kinds \cup {k}
  BY DEF Fault
<1>2. PICK t \in Troubles : faults.kinds \cup {k} \subseteq t
  BY DEF Fault
<1>3. FaultsTogether'
  BY <1>1, <1>2 DEF FaultsTogether
<1>4. k \in t /\ faults.kinds \subseteq t
  BY <1>2
<1>5. k # "recovery"
  BY <1>2, <1>4 DEF LossesApart
<1>6. k = "power" => Safe
  BY <1>2, <1>4 DEF LossesApart, Safe
<1>7. Safe' => Safe /\ k \notin Unsynced
  BY <1>1 DEF Safe
<1> QED
  BY <1>3, <1>5, <1>6, <1>7

(* And a step without a fault.                                               *)
LEMMA NotFaulted ==
  ASSUME FaultsTogether, UNCHANGED faults
  PROVE  FaultsTogether' /\ (Safe' <=> Safe)
BY DEF FaultsTogether, Safe

(* A settled state keeps the invariant if the files only grew, no name was     *)
(* lost and the active file is durable.                                      *)
LEMMA SettledStep ==
  ASSUME LogInv, FilesSound', DirsSound', Grown, Settled(op'), tried' \in {tried, tried + 1},
         records' = [acked |-> records'.acked, deleted |-> records'.deleted],
         records'.acked \subseteq records.acked, Owed' \subseteq Owed,
         LinkedIn(dir) \ {0} \subseteq LinkedIn(dir'),
         FaultsTogether',
         Safe' => /\ Safe /\ undone' \subseteq undone \cup {dir}
                  /\ dir'.active # 0 => \A d \in undone' : dir'.active \in LinkedIn(d)
  PROVE  LogInv'
<1>1. OpSound' /\ AppendSound' /\ CarrySound' /\ NewUnacked'
  BY DEF Settled, OpSound, AppendSound, CarrySound, NewUnacked, InAppend, Lined, Called, Carrying
<1>2. CountsSound'
  BY DEF LogInv, LogSound, CountsSound
<1>3. OwedKept' /\ (Safe' => Durable')
  BY StaysKept DEF LogInv, LogSound, SafeInv
<1>4. SafeInv'
  BY <1>3 DEF SafeInv, Settled, InAppend, Lined, Called, ActiveDurable
<1> QED
  BY <1>1, <1>2, <1>3, <1>4 DEF LogInv, LogSound

(* A step that leaves the disk alone.                                         *)
LEMMA QuietStep ==
  ASSUME LogInv, UNCHANGED <<files, tried, records>>, Settled(op'),
         FaultsTogether', Safe' => Safe /\ ~Fresh
  PROVE  LogInv'
<1>1. UNCHANGED <<file, dir, undone>>
  BY DEF files
<1>2. FilesSound' /\ Grown
  BY <1>1, FilesUnchanged DEF LogInv, LogSound
<1>3. DirsSound'
  BY <1>1 DEF LogInv, LogSound, DirsSound, DirSound
<1>4. Owed' = Owed /\ LinkedIn(dir) = LinkedIn(dir')
  BY <1>1 DEF Owed, LinkedIn
<1>5. records = [acked |-> records.acked, deleted |-> records.deleted]
  BY DEF LogInv, LogSound, CountsSound
<1>6. Safe' => /\ Safe /\ undone' \subseteq undone \cup {dir}
               /\ dir'.active # 0 => \A d \in undone' : dir'.active \in LinkedIn(d)
  BY <1>1 DEF LogInv, SafeInv, ActiveDurable
<1> QED
  BY <1>2, <1>3, <1>4, <1>5, <1>6, SettledStep

(* Where a call goes on after its line is dropped.                           *)
LEMMA AfterDropSettles ==
  ASSUME OpSound, CarrySound, NEW r, r = AfterDrop
  PROVE  Settled(r)
<1>1. CASE op.kind = "pruned"
  <2>1. r = [op EXCEPT !.pc = "unlink", !.carry = Nothing]
    BY <1>1 DEF AfterDrop
  <2>2. r = [pc |-> "unlink", job |-> op.job, kind |-> op.kind, of |-> op.of, carry |-> Nothing,
             before |-> op.before, created |-> op.created, todo |-> op.todo, named |-> op.named]
    BY <2>1 DEF OpSound
  <2> QED
    BY <2>2 DEF Settled, InAppend
<1>2. CASE op.kind = "anchor"
  <2>1. r = [op EXCEPT !.pc = "retain"] \/ r = Idle
    BY <1>2 DEF AfterDrop, AfterAnchor
  <2>2. op.carry = Nothing
    BY <1>2 DEF CarrySound, Carrying
  <2>3. CASE r = [op EXCEPT !.pc = "retain"]
    <3>1. r = [pc |-> "retain", job |-> op.job, kind |-> op.kind, of |-> op.of,
               carry |-> op.carry, before |-> op.before, created |-> op.created,
               todo |-> op.todo, named |-> op.named]
      BY <2>3 DEF OpSound
    <3> QED
      BY <2>2, <3>1 DEF Settled, InAppend
  <2> QED
    BY <2>1, <2>3, RestSettles
<1>3. CASE op.kind \notin {"pruned", "anchor"}
  BY <1>3, RestSettles DEF AfterDrop
<1> QED
  BY <1>1, <1>2, <1>3

(* Dropping a line ends the append, or the start of the log.                 *)
LEMMA DropSettles ==
  ASSUME OpSound, CarrySound, DropLine
  PROVE  Settled(op')
BY AfterDropSettles, RestSettles DEF DropLine, Die

(* A damaged active file is moved aside.                                      *)
LEMMA MovedAside ==
  ASSUME FilesSound, DirsSound, dir.active # 0, UNCHANGED file,
         Moved([dir EXCEPT !.active = 0, !.corrupt = @ \cup {dir.active}])
  PROVE  /\ FilesSound' /\ DirsSound' /\ Grown
         /\ dir'.active = 0 /\ dir'.corrupt # {}
         /\ LinkedIn(dir) \ {0} \subseteq LinkedIn(dir')
         /\ undone' = undone \cup {dir}
<1>1. DirSound(dir)
  BY DEF DirsSound
<1>2. dir' = [active |-> 0, segments |-> dir.segments, corrupt |-> dir.corrupt \cup {dir.active}]
  BY <1>1 DEF Moved, DirSound
<1>3. undone' = undone \cup {dir}
  BY DEF Moved
<1>4. DirSound(dir')
  BY <1>1, <1>2 DEF DirSound
<1>5. DirsSound'
  BY <1>2, <1>3, <1>4 DEF DirsSound, DirSound
<1>6. LinkedIn(dir) \ {0} \subseteq LinkedIn(dir')
  BY <1>2 DEF LinkedIn
<1> QED
  BY <1>2, <1>3, <1>5, <1>6, FilesUnchanged

(* The log goes on from its files, with a damaged active file moved aside.   *)
LEMMA FromDiskKeeps ==
  ASSUME LossesApart, LogInv, op.pc \in {"down", "ensure"}, FromDisk, UNCHANGED <<tried, records>>
  PROVE  LogInv'
<1> DEFINE check == Scan
           resume == Resume(check)
           ready == [op EXCEPT !.pc = Ready]
           carry == [op EXCEPT !.pc = "append", !.carry = resume.carry, !.before = 0,
                               !.created = TRUE]
<1>1. ~Carrying /\ op.kind # "anchor" /\ ~Fresh /\ (op.job = "start" \/ op.kind \in Called)
  BY DEF LogInv, LogSound, CarrySound, InAppend, Lined, Called, Fresh
<1>2. Settled(ready)
  BY <1>1 DEF Settled, Ready, CarrySound, LogInv, LogSound, OpSound, InAppend, Lined, Called, Carrying
<1>3. \/ op' = ready /\ UNCHANGED <<faults, files>>
      \/ DropLine /\ (UNCHANGED faults \/ Fault("rename")) /\ UNCHANGED files
      \/ /\ dir.active # 0 /\ UNCHANGED <<faults, file>>
         /\ Moved([dir EXCEPT !.active = 0, !.corrupt = @ \cup {dir.active}])
         /\ op' = IF resume.carry = Nothing THEN ready ELSE carry
  <2>1. \/ check.broken = 0 /\ LogGoto(Ready) /\ Works /\ UNCHANGED files
        \/ check.broken # 0 /\ DropLine /\ Works /\ UNCHANGED files
        \/ check.broken # 0 /\ Fault("rename") /\ DropLine /\ UNCHANGED files
        \/ /\ check.broken # 0 /\ Recoverable(check) /\ Works
           /\ Moved([dir EXCEPT !.active = 0, !.corrupt = @ \cup {dir.active}])
           /\ op' = IF resume.carry = Nothing THEN ready ELSE carry
           /\ UNCHANGED file
    BY DEF FromDisk
  <2> HIDE DEF check, resume, carry
  <2> QED
    BY <2>1 DEF Works, LogGoto, Recoverable
<1> HIDE DEF check, ready
<1>4. CASE op' = ready /\ UNCHANGED <<faults, files>>
  BY <1>1, <1>2, <1>4, NotFaulted, QuietStep DEF LogInv, LogSound
<1>5. CASE DropLine /\ (UNCHANGED faults \/ Fault("rename")) /\ UNCHANGED files
  <2>1. Settled(op')
    BY <1>5, DropSettles DEF LogInv, LogSound
  <2>2. FaultsTogether' /\ (Safe' => Safe)
    BY <1>5, Faulted, NotFaulted DEF LogInv, LogSound
  <2> QED
    BY <1>1, <1>5, <2>1, <2>2, QuietStep
<1>6. CASE /\ dir.active # 0 /\ UNCHANGED <<faults, file>>
           /\ Moved([dir EXCEPT !.active = 0, !.corrupt = @ \cup {dir.active}])
           /\ op' = IF resume.carry = Nothing THEN ready ELSE carry
  <2>1. /\ FilesSound' /\ DirsSound' /\ Grown
        /\ dir'.active = 0 /\ dir'.corrupt # {}
        /\ LinkedIn(dir) \ {0} \subseteq LinkedIn(dir')
        /\ undone' = undone \cup {dir}
    BY <1>6, MovedAside DEF LogInv, LogSound
  <2>2. FaultsTogether' /\ (Safe' => Safe)
    BY <1>6, NotFaulted DEF LogInv, LogSound
  <2>3. Owed' = Owed
    BY DEF Owed
  <2>4. CASE resume.carry = Nothing
    <3>1. op' = ready
      BY <1>6, <2>4
    <3>2. records' = [acked |-> records'.acked, deleted |-> records'.deleted]
      BY DEF LogInv, LogSound, CountsSound
    <3> QED
      BY <1>2, <2>1, <2>2, <2>3, <3>1, <3>2, SettledStep
  <2>5. CASE resume.carry # Nothing
    <3> HIDE DEF resume
    <3>1. op' = [pc |-> "append", job |-> op.job, kind |-> op.kind, of |-> op.of,
                 carry |-> resume.carry, before |-> 0, created |-> TRUE,
                 todo |-> op.todo, named |-> op.named]
      BY <1>6, <2>5 DEF LogInv, LogSound, OpSound
    <3>2. Active' = <<>>
      BY <2>1 DEF Active, Lines
    <3>3. OpSound' /\ AppendSound' /\ CarrySound'
      BY <1>1, <2>1, <2>5, <3>1, <3>2
      DEF OpSound, AppendSound, CarrySound, InAppend, Lined, Called, Carrying
    <3>4. CountsSound' /\ NewUnacked'
      BY <3>2 DEF LogInv, LogSound, CountsSound, NewUnacked
    <3>5. OwedKept' /\ (Safe' => Durable')
      BY <2>1, <2>2, <2>3, StaysKept DEF LogInv, LogSound, SafeInv
    <3>6. SafeInv'
      BY <2>1, <3>1, <3>5 DEF SafeInv, ActiveDurable
    <3> QED
      BY <2>1, <2>2, <3>3, <3>4, <3>5, <3>6 DEF LogInv, LogSound
  <2> QED
    BY <2>4, <2>5
<1> QED
  BY <1>3, <1>4, <1>5, <1>6

-------------------------------------------------------------------------------
(* One lemma for each action, or a few that are alike.  The start of the     *)
(* log:                                                                      *)
LEMMA StartKeeps == ASSUME LossesApart, LogInv, Start PROVE LogInv'
BY FromDiskKeeps DEF Start, Rest

(* The active file is created, and its name synced before the log is open.   *)
LEMMA ProbeKeeps == ASSUME LossesApart, LogInv, Probe PROVE LogInv'
<1>1. ~Fresh /\ Settled(Down) /\ Settled(Idle)
  BY RestSettles DEF Probe, Fresh
<1>2. CASE dir.active # 0
  <2>1. op' = Idle /\ UNCHANGED <<files, tried, records, faults>>
    BY <1>2 DEF Probe, Rest, files
  <2> QED
    BY <1>1, <2>1, QuietStep, NotFaulted DEF LogInv, LogSound
<1>3. CASE dir.active = 0
  <2> DEFINE f == [lines |-> <<>>, synced |-> 0]
             n == Len(file) + 1
  <2>1. FileSound(f)
    BY DEF FileSound, IsSeq
  <2>2. /\ file' = Append(file, f) /\ dir' = [dir EXCEPT !.active = Len(file')]
        /\ UNCHANGED <<tried, records>>
        /\ \/ op' = Idle /\ undone' = {} /\ UNCHANGED faults
           \/ Die /\ undone' = undone \cup {dir} /\ Fault("sync")
    BY <1>3 DEF Probe, Rest, Works
  <2> HIDE DEF f
  <2>3. /\ FilesSound' /\ Len(file') = n /\ n \in DOMAIN file' /\ DOMAIN file \subseteq DOMAIN file'
        /\ Grown
    BY <2>1, <2>2, FileAdded DEF LogInv, LogSound
  <2> HIDE DEF n
  <2>4. DirSound(dir)
    BY DEF LogInv, LogSound, DirsSound
  <2>5. dir' = [active |-> n, segments |-> dir.segments, corrupt |-> dir.corrupt]
    BY <2>2, <2>3, <2>4 DEF DirSound
  <2>6. DirSound(dir)'
    BY <2>3, <2>4, <2>5 DEF DirSound
  <2>7. ASSUME NEW d \in undone \cup {dir} PROVE DirSound(d)'
    BY <2>3, <2>7 DEF DirSound, DirsSound, LogInv, LogSound
  <2>8. DirsSound'
    BY <2>2, <2>6, <2>7 DEF DirsSound
  <2>9. LinkedIn(dir) \ {0} \subseteq LinkedIn(dir')
    BY <1>3, <2>5 DEF LinkedIn
  <2>10. Settled(op') /\ FaultsTogether' /\ Owed' = Owed
    BY <1>1, <2>2, Faulted, NotFaulted DEF LogInv, LogSound, Die, Owed
  <2>11. Safe' => Safe /\ undone' = {}
    BY <2>2, Faulted, NotFaulted DEF LogInv, LogSound, Unsynced
  <2>12. records' = [acked |-> records'.acked, deleted |-> records'.deleted]
    BY <2>2 DEF LogInv, LogSound, CountsSound
  <2> QED
    BY <2>2, <2>3, <2>8, <2>9, <2>10, <2>11, <2>12, SettledStep
<1> QED
  BY <1>2, <1>3

(* Steps of the process alone.                                                *)
LEMMA ProcessKeeps ==
  ASSUME LossesApart, LogInv, Record \/ PruneSegments \/ Select \/ Retain
  PROVE  LogInv'
<1> USE DEF Settled, LogInv, LogSound, OpSound, InAppend, Lined, Called
<1>1. UNCHANGED <<files, tried, records, faults>>
  BY DEF Record, PruneSegments, Select, Retain, files
<1>2. ~Fresh /\ ~Carrying
  BY DEF Record, PruneSegments, Select, Retain, Fresh, CarrySound
<1>3. Settled(Idle)
  BY RestSettles
<1>4. CASE Record
  <2>1. Settled(op')
    BY <1>2, <1>4 DEF Record, Carrying
  <2> QED
    BY <1>1, <1>2, <2>1, QuietStep, NotFaulted
<1>5. CASE PruneSegments
  <2>1. Settled(op')
    BY <1>2, <1>5 DEF PruneSegments, Carrying
  <2> QED
    BY <1>1, <1>2, <2>1, QuietStep, NotFaulted
<1>6. CASE Retain
  <2>1. Settled(op')
    BY <1>2, <1>6 DEF Retain, Carrying
  <2> QED
    BY <1>1, <1>2, <2>1, QuietStep, NotFaulted
<1>7. CASE Select
  <2>1. op' = Idle \/ \E todo : op' = [op EXCEPT !.pc = "retain", !.todo = todo]
    BY <1>7 DEF Select
  <2>2. Settled(op')
    BY <1>2, <1>3, <2>1 DEF Carrying
  <2> QED
    BY <1>1, <1>2, <2>2, QuietStep, NotFaulted
<1> QED
  BY <1>4, <1>5, <1>6, <1>7

(* A call finds out what the files hold, if the log does not know.           *)
LEMMA EnsureKeeps == ASSUME LossesApart, LogInv, Ensure PROVE LogInv'
<1>1. CASE log.known
  <2>1. /\ UNCHANGED <<files, tried, records, faults>> /\ op' = [op EXCEPT !.pc = Ready]
        /\ op.pc = "ensure"
    BY <1>1 DEF Ensure, Rest, files, LogGoto
  <2>2. ~Fresh /\ op.carry = Nothing
    BY <2>1 DEF LogInv, LogSound, CarrySound, InAppend, Lined, Called, Fresh, Carrying
  <2>3. Ready \in {"probe", "select", "write"} /\ (Ready = "write" => op.kind \in Lined)
    BY <2>1 DEF Ready, LogInv, LogSound, CarrySound, Lined, Called
  <2> HIDE DEF Ready
  <2>4. Settled(op')
    BY <2>1, <2>2, <2>3 DEF Settled, LogInv, LogSound, OpSound, InAppend, Lined, Called
  <2> QED
    BY <2>1, <2>2, <2>4, QuietStep, NotFaulted DEF LogInv, LogSound
<1>2. CASE ~log.known
  BY <1>2, FromDiskKeeps DEF Ensure, Rest
<1> QED
  BY <1>1, <1>2

(* A full active file becomes a segment.                                      *)
LEMMA Sealing ==
  ASSUME FilesSound, DirsSound, NEW first, UNCHANGED file,
         Moved([dir EXCEPT !.active = 0,
                           !.segments = @ \cup {[first |-> first, ino |-> dir.active]}])
  PROVE  /\ FilesSound' /\ DirsSound' /\ Grown
         /\ dir'.active = 0
         /\ LinkedIn(dir) \ {0} \subseteq LinkedIn(dir')
         /\ undone' = undone \cup {dir}
<1>1. DirSound(dir)
  BY DEF DirsSound
<1>2. dir' = [active |-> 0,
              segments |-> dir.segments \cup {[first |-> first, ino |-> dir.active]},
              corrupt |-> dir.corrupt]
  BY <1>1 DEF Moved, DirSound
<1>3. undone' = undone \cup {dir}
  BY DEF Moved
<1>4. DirSound(dir')
  BY <1>1, <1>2 DEF DirSound
<1>5. DirsSound'
  BY <1>2, <1>3, <1>4 DEF DirsSound, DirSound
<1>6. LinkedIn(dir) \ {0} \subseteq LinkedIn(dir')
  <2>1. [first |-> first, ino |-> dir.active] \in dir'.segments
    BY <1>2
  <2>2. dir.active \in LinkedIn(dir')
    BY <2>1 DEF LinkedIn
  <2> QED
    BY <1>2, <2>2 DEF LinkedIn
<1> QED
  BY <1>2, <1>3, <1>5, <1>6, FilesUnchanged

(* A line is due, and a full active file sealed before it.                   *)
LEMMA WriteKeeps == ASSUME LossesApart, LogInv, Write PROVE LogInv'
<1> USE DEF LogInv, LogSound
<1>1. /\ ~Fresh /\ op.carry = Nothing /\ op.pc = "write" /\ op.kind \in Lined /\ UNCHANGED <<tried, records>>
      /\ Owed' = Owed
  BY DEF Write, Fresh, CarrySound, InAppend, Lined, Called, Carrying, Rest, Owed
<1>2. CASE op' = AfterAnchor /\ UNCHANGED <<files, faults>>
  <2>1. Settled(op')
    BY <1>1, <1>2 DEF AfterAnchor, Idle, Down, Settled, OpSound, InAppend, Lined, Called
  <2> QED
    BY <1>1, <1>2, <2>1, QuietStep, NotFaulted
<1>3. CASE ToAppend /\ (UNCHANGED faults \/ Fault("rename")) /\ UNCHANGED files
  <2>1. /\ op' = [pc |-> "append", job |-> op.job, kind |-> op.kind, of |-> op.of,
                  carry |-> Nothing, before |-> Len(Active), created |-> dir.active = 0,
                  todo |-> op.todo, named |-> op.named]
        /\ UNCHANGED <<file, dir, undone>>
    BY <1>1, <1>3 DEF ToAppend, OpSound, Active, files
  <2>2. FilesSound' /\ Grown /\ DirsSound' /\ Active' = Active
    BY <2>1, FilesUnchanged DEF DirsSound, DirSound, Active, Lines
  <2>3. Len(Active) \in Nat /\ DOMAIN Active = 1..Len(Active)
    <3>1. CASE dir.active = 0
      BY <3>1 DEF Active, Lines
    <3>2. CASE dir.active # 0
      <4>1. FileSound(file[dir.active])
        BY <3>2 DEF DirsSound, DirSound, FilesSound
      <4> QED
        BY <3>2, <4>1, Appended DEF Active, Lines, FileSound
    <3> QED
      BY <3>1, <3>2
  <2>4. OpSound' /\ AppendSound' /\ CarrySound' /\ NewUnacked'
    <3> DEFINE n == Len(Active)
    <3>1. Len(Active') = n
      BY <2>2
    <3>2. \A k \in DOMAIN Active' : ~(k > n)
      BY <2>2, <2>3
    <3>3. n \in Nat
      BY <2>3
    <3> HIDE DEF n
    <3>4. /\ op'.pc = "append" /\ op'.before = n /\ op'.carry = Nothing
          /\ op'.created = (dir.active = 0) /\ dir' = dir /\ op'.kind \in Lined
      BY <1>1, <2>1 DEF n
    <3>5. op'.created <=> dir'.active = 0
      BY <3>4, Zenon
    <3>6. OpSound'
      BY <2>1 DEF OpSound
    <3>7. AppendSound'
      BY <3>1, <3>3, <3>4, <3>5 DEF AppendSound
    <3>8. CarrySound' /\ NewUnacked'
      BY <3>2, <3>4 DEF CarrySound, NewUnacked, Carrying
    <3> QED
      BY <3>6, <3>7, <3>8
  <2>5. FaultsTogether' /\ (Safe' => Safe)
    BY <1>3, Faulted, NotFaulted
  <2>6. OwedKept' /\ (Safe' => Durable')
    BY <1>1, <2>1, <2>2, <2>5, StaysKept DEF SafeInv
  <2>7. SafeInv'
    BY <1>1, <2>1, <2>5, <2>6 DEF SafeInv, ActiveDurable, Fresh
  <2> QED
    BY <1>1, <2>1, <2>2, <2>4, <2>5, <2>6, <2>7 DEF CountsSound
<1>4. CASE /\ Moved([dir EXCEPT !.active = 0,
                                !.segments = @ \cup {[first |-> log.activeFirst, ino |-> dir.active]}])
           /\ op' = [op EXCEPT !.pc = "sealSync", !.before = 0, !.created = TRUE]
           /\ UNCHANGED <<file, faults>>
  <2>1. /\ FilesSound' /\ DirsSound' /\ Grown /\ dir'.active = 0
        /\ LinkedIn(dir) \ {0} \subseteq LinkedIn(dir')
        /\ undone' = undone \cup {dir}
    BY <1>4, Sealing
  <2>2. op' = [pc |-> "sealSync", job |-> op.job, kind |-> op.kind, of |-> op.of,
               carry |-> Nothing, before |-> 0, created |-> TRUE,
               todo |-> op.todo, named |-> op.named]
    BY <1>1, <1>4 DEF OpSound
  <2>3. OpSound' /\ AppendSound' /\ CarrySound' /\ NewUnacked'
    BY <1>1, <2>1, <2>2 DEF OpSound, AppendSound, CarrySound, NewUnacked, InAppend, Lined, Called, Carrying
  <2>4. FaultsTogether' /\ (Safe' => Safe)
    BY <1>4, NotFaulted
  <2>5. OwedKept' /\ (Safe' => Durable')
    BY <1>1, <2>1, <2>4, StaysKept DEF SafeInv
  <2>6. SafeInv'
    BY <2>1, <2>2, <2>5 DEF SafeInv, ActiveDurable
  <2> QED
    BY <1>1, <2>1, <2>3, <2>4, <2>5, <2>6 DEF CountsSound
<1> QED
  BY <1>2, <1>3, <1>4 DEF Write, Works

-------------------------------------------------------------------------------
(* The lines of the active file, if there is one.                            *)
LEMMA ActiveIsSeq ==
  ASSUME FilesSound, DirsSound
  PROVE  IsSeq(Active) /\ Len(Active) \in Nat /\ DOMAIN Active = 1..Len(Active)
<1>1. CASE dir.active = 0
  BY <1>1 DEF Active, Lines, IsSeq
<1>2. CASE dir.active # 0
  <2>1. FileSound(file[dir.active])
    BY <1>2 DEF DirsSound, DirSound, FilesSound
  <2> QED
    BY <1>2, <2>1, Appended DEF Active, Lines, FileSound
<1> QED
  BY <1>1, <1>2

(* The name of the new segment is synced, or is not.                         *)
LEMMA SealSyncKeeps == ASSUME LossesApart, LogInv, SealSync PROVE LogInv'
<1> USE DEF LogInv, LogSound
<1>1. /\ op.pc = "sealSync" /\ op.before = 0 /\ op.created = TRUE /\ dir.active = 0
      /\ op.carry = Nothing /\ op.kind \in Lined
      /\ UNCHANGED <<file, dir, tried, records>>
      /\ \/ undone' = {} /\ UNCHANGED faults
         \/ UNCHANGED undone /\ Fault("sync")
  BY DEF SealSync, SyncDirectory, Works, files, Rest, AppendSound, CarrySound, Carrying, InAppend
<1>2. op' = [pc |-> "append", job |-> op.job, kind |-> op.kind, of |-> op.of, carry |-> Nothing,
             before |-> 0, created |-> TRUE, todo |-> op.todo, named |-> op.named]
  BY <1>1 DEF SealSync, LogGoto, OpSound
<1>3. Active' = <<>>
  BY <1>1 DEF Active, Lines
<1>4. OpSound' /\ AppendSound' /\ CarrySound' /\ NewUnacked'
  BY <1>1, <1>2, <1>3 DEF OpSound, AppendSound, CarrySound, NewUnacked, InAppend, Carrying
<1>5. FilesSound' /\ Grown /\ DirsSound'
  BY <1>1, FilesUnchanged DEF DirsSound, DirSound
<1>6. FaultsTogether' /\ (Safe' => Safe /\ undone' \subseteq undone)
  BY <1>1, Faulted, NotFaulted DEF Unsynced
<1>7. Owed' = Owed
  BY <1>1 DEF Owed
<1>8. OwedKept' /\ (Safe' => Durable')
  BY <1>1, <1>5, <1>6, <1>7, StaysKept DEF SafeInv
<1>9. SafeInv'
  BY <1>1, <1>2, <1>6, <1>8 DEF SafeInv, ActiveDurable
<1> QED
  BY <1>1, <1>4, <1>5, <1>6, <1>8, <1>9 DEF CountsSound

(* Its hash is that of no record before it. *)
LEMMA HashIsNew ==
  ASSUME CountsSound
  PROVE  /\ tried + 1 \notin records.acked /\ 0 \notin records.acked
         /\ NewLine.hash = tried + 1 /\ Torn.hash = 0
<1>1. tried + 1 \notin 1..tried /\ 0 \notin 1..tried
  BY DEF CountsSound
<1> QED
  BY <1>1 DEF CountsSound, NewLine, Torn

(* The append goes on: to be synced, or to be taken back.                     *)
LEMMA AppendGoesOn ==
  ASSUME LossesApart, LogInv, op.pc = "append", NEW pc \in {"fsync", "rollback"}, LogGoto(pc),
         FilesSound', DirsSound', Grown, tried' = tried + 1, UNCHANGED records,
         LinkedIn(dir) \ {0} \subseteq LinkedIn(dir'), dir'.corrupt = dir.corrupt,
         undone' \subseteq undone \cup {dir}, dir.active # 0 => UNCHANGED <<dir, undone>>,
         \/ Active' = Active /\ pc = "rollback"
         \/ \E line : /\ Active' = Append(Active, line) /\ line.hash \notin records.acked
                      /\ dir'.active # 0
                      /\ pc = "fsync" => line.hash = tried + 1,
         FaultsTogether', Safe' => Safe /\ pc = "fsync"
  PROVE  LogInv'
<1> USE DEF LogInv, LogSound
<1>1. op' = [pc |-> pc, job |-> op.job, kind |-> op.kind, of |-> op.of, carry |-> op.carry,
             before |-> op.before, created |-> op.created, todo |-> op.todo, named |-> op.named]
  BY DEF LogGoto, OpSound
<1> DEFINE n == Len(Active)
           m == Len(Active')
<1>2. n \in Nat /\ op.before = n
  BY ActiveIsSeq DEF AppendSound
<1>3. /\ m \in Nat /\ m >= n /\ DOMAIN Active' = 1..m
      /\ \A k \in 1..m : k > n => Active'[k].hash \notin records.acked
      /\ pc = "fsync" => dir'.active # 0 /\ m > 0 /\ Active'[m].hash = tried + 1
  <2>1. CASE Active' = Active /\ pc = "rollback"
    BY <1>2, <2>1, ActiveIsSeq
  <2>2. ASSUME NEW line, Active' = Append(Active, line), line.hash \notin records.acked,
               dir'.active # 0, pc = "fsync" => line.hash = tried + 1
        PROVE  <1>3
    <3>1. /\ m = n + 1 /\ DOMAIN Active' = 1..(n + 1) /\ Active'[n + 1] = line
      BY <2>2, ActiveIsSeq, Appended
    <3> HIDE DEF n, m
    <3>2. \A k \in 1..m : k > n => k = n + 1
      BY <1>2, <3>1
    <3> QED
      BY <1>2, <2>2, <3>1, <3>2
  <2> QED
    BY <2>1, <2>2
<1>4. OpSound'
  BY <1>1 DEF OpSound
<1>5. CountsSound'
  BY DEF CountsSound
<1>6. AppendSound'
  <2> HIDE DEF n, m, LogInv, LogSound
  <2>1. n \in 0..m
    BY <1>2, <1>3
  <2>2. op'.before = n /\ op'.pc = pc
    BY <1>1, <1>2
  <2>3. tried' # 0
    BY DEF LogInv, LogSound, CountsSound
  <2> QED
    BY <1>3, <2>1, <2>2, <2>3 DEF AppendSound, m
<1>7. CarrySound'
  BY <1>1 DEF CarrySound, Carrying, InAppend
<1>8. NewUnacked'
  BY <1>1, <1>2, <1>3 DEF NewUnacked
<1>9. Owed' = Owed
  BY DEF Owed
<1>10. OwedKept' /\ (Safe' => Durable')
  BY <1>9, StaysKept DEF SafeInv
<1>11. Safe' => ActiveDurable'
  <2> SUFFICES ASSUME Safe', ~op.created, NEW d \in undone', dir'.active # 0
               PROVE  dir'.active \in LinkedIn(d)
    BY <1>1 DEF ActiveDurable, Fresh
  <2>1. dir.active # 0 /\ ~Fresh
    BY DEF AppendSound, Fresh
  <2> QED
    BY <2>1 DEF SafeInv, ActiveDurable
<1>12. SafeInv'
  BY <1>1, <1>10, <1>11 DEF SafeInv
<1> QED
  BY <1>4, <1>5, <1>6, <1>7, <1>8, <1>10, <1>12

(* The line is in the active file, whole, torn or not at all.                *)
LEMMA AppendLineKeeps == ASSUME LossesApart, LogInv, AppendLine PROVE LogInv'
<1> USE DEF LogInv, LogSound
<1>1. op.pc = "append" /\ tried' = tried + 1 /\ UNCHANGED records
  BY DEF AppendLine
<1>2. CASE PutLine(NewLine) /\ LogGoto("fsync") /\ UNCHANGED faults
  <2>1. FaultsTogether' /\ (Safe' => Safe)
    BY <1>2, NotFaulted
  <2>2. /\ FilesSound' /\ DirsSound' /\ Grown
        /\ dir'.active # 0 /\ Active' = Append(Active, NewLine)
        /\ dir'.corrupt = dir.corrupt
        /\ LinkedIn(dir) \ {0} \subseteq LinkedIn(dir')
        /\ undone' \subseteq undone \cup {dir}
        /\ dir.active # 0 => UNCHANGED <<dir, undone>>
    BY <1>2, LinePut
  <2>3. NewLine.hash \notin records.acked /\ NewLine.hash = tried + 1
    BY HashIsNew
  <2> HIDE DEF LogInv, LogSound
  <2> QED
    BY <1>1, <1>2, <2>1, <2>2, <2>3, AppendGoesOn
<1>3. CASE PutLine(Torn) /\ LogGoto("rollback") /\ Fault("write")
  <2>1. FaultsTogether' /\ ~Safe'
    BY <1>3, Faulted DEF Unsynced
  <2>2. /\ FilesSound' /\ DirsSound' /\ Grown
        /\ dir'.active # 0 /\ Active' = Append(Active, Torn)
        /\ dir'.corrupt = dir.corrupt
        /\ LinkedIn(dir) \ {0} \subseteq LinkedIn(dir')
        /\ undone' \subseteq undone \cup {dir}
        /\ dir.active # 0 => UNCHANGED <<dir, undone>>
    BY <1>3, LinePut
  <2>3. Torn.hash \notin records.acked
    BY HashIsNew
  <2> HIDE DEF LogInv, LogSound
  <2> QED
    BY <1>1, <1>3, <2>1, <2>2, <2>3, AppendGoesOn
<1>4. CASE LogGoto("rollback") /\ Fault("write") /\ UNCHANGED files
  <2>1. FaultsTogether' /\ ~Safe'
    BY <1>4, Faulted DEF Unsynced
  <2>2. UNCHANGED <<file, dir, undone>>
    BY <1>4 DEF files
  <2>3. FilesSound' /\ DirsSound' /\ Grown /\ Active' = Active
    BY <2>2, FilesUnchanged DEF DirsSound, DirSound, Active, Lines
  <2> HIDE DEF LogInv, LogSound
  <2> QED
    BY <1>1, <1>4, <2>1, <2>2, <2>3, AppendGoesOn
<1>5. CASE PutLine(Torn) /\ Die /\ Fault(IF Carrying THEN "recovery" ELSE "crash")
  <2>1. FaultsTogether' /\ ~Safe'
    BY <1>5, Faulted DEF Unsynced
  <2>2. /\ FilesSound' /\ DirsSound' /\ Grown
        /\ LinkedIn(dir) \ {0} \subseteq LinkedIn(dir')
    BY <1>5, LinePut
  <2>3. Settled(op') /\ Owed' = Owed
    BY <1>1, <1>5, RestSettles DEF Die, Owed
  <2>4. records' = [acked |-> records'.acked, deleted |-> records'.deleted]
    BY <1>1 DEF CountsSound
  <2> HIDE DEF LogInv, LogSound
  <2> QED
    BY <1>1, <2>1, <2>2, <2>3, <2>4, SettledStep
<1> QED
  BY <1>2, <1>3, <1>4, <1>5 DEF AppendLine, Works

-------------------------------------------------------------------------------
(* Where a call goes on after its line is durable.                           *)
LEMMA AcknowledgeSettles ==
  ASSUME LogSound, op.pc \in {"fsync", "dirSync"}, Acknowledge
  PROVE  Settled(op')
<1> USE DEF LogSound, OpSound, Settled, InAppend, Lined, Called
<1>1. CASE Carrying
  <2>1. op' = [op EXCEPT !.pc = Ready, !.carry = Nothing]
    BY <1>1 DEF Acknowledge
  <2>2. op.job = "start" \/ op.kind \in Called
    BY <1>1 DEF CarrySound
  <2>3. Ready \in {"probe", "select", "write"} /\ (Ready = "write" => op.kind \in Lined)
    BY <2>2 DEF Ready
  <2> HIDE DEF Ready
  <2> QED
    BY <2>1, <2>3
<1>2. CASE ~Carrying
  <2>1. op.kind \in Lined /\ op.carry = Nothing
    BY <1>2 DEF CarrySound, Carrying
  <2>2. CASE op.kind = "anchor"
    <3>1. op' = AfterAnchor
      BY <1>2, <2>2 DEF Acknowledge
    <3> QED
      BY <2>1, <3>1, RestSettles DEF AfterAnchor
  <2>3. CASE op.kind = "event"
    <3>1. op' = [op EXCEPT !.pc = "write", !.kind = "anchor"]
      BY <1>2, <2>3 DEF Acknowledge
    <3> QED
      BY <2>1, <3>1
  <2>4. CASE op.kind = "pruned"
    <3>1. op' = [op EXCEPT !.pc = "write", !.kind = "anchor", !.of = Nothing,
                           !.todo = Tail(@), !.named = Append(@, Head(op.todo))]
      BY <1>2, <2>4 DEF Acknowledge
    <3> DEFINE todo == Tail(op.todo)
               named == Append(op.named, Head(op.todo))
    <3>2. op' = [op EXCEPT !.pc = "write", !.kind = "anchor", !.of = Nothing,
                           !.todo = todo, !.named = named]
      BY <3>1
    <3> HIDE DEF todo, named
    <3> QED
      BY <2>1, <3>2
  <2> QED
    BY <2>1, <2>2, <2>3, <2>4
<1> QED
  BY <1>1, <1>2

(* The record that is acknowledged is the last line of the active file, and   *)
(* where power may be lost it is synced there, like the name of the file.      *)
LEMMA AcknowledgeKeeps ==
  ASSUME LogInv, op.pc \in {"fsync", "dirSync"}, Acknowledge,
         FilesSound', Grown, UNCHANGED <<dir, tried, faults>>,
         undone' \subseteq undone,
         Safe => /\ \A d \in undone' : dir.active \in LinkedIn(d)
                 /\ file'[dir.active].synced = Len(file[dir.active].lines)
  PROVE  LogInv'
<1> USE DEF LogInv, LogSound
<1>1. Settled(op')
  BY AcknowledgeSettles
<1>2. OpSound' /\ AppendSound' /\ CarrySound' /\ NewUnacked'
  BY <1>1 DEF Settled, OpSound, AppendSound, CarrySound, NewUnacked, InAppend, Carrying
<1>3. /\ records' = [acked |-> records'.acked, deleted |-> records'.deleted]
      /\ records'.acked \subseteq records.acked \cup {tried}
      /\ records'.deleted = records.deleted
  BY DEF Acknowledge, CountsSound
<1> DEFINE a == dir.active
           n == Len(file[a].lines)
<1>4. /\ a \in DOMAIN file /\ FileSound(file[a]) /\ n \in Nat /\ n > 0 /\ file[a].lines[n].hash = tried
      /\ DOMAIN file[a].lines = 1..n
  <2>1. a \in DOMAIN file /\ Active = file[a].lines
    BY DEF AppendSound, DirsSound, DirSound, Active, Lines
  <2>2. FileSound(file[a])
    BY <2>1 DEF FilesSound
  <2>3. n > 0 /\ file[a].lines[n].hash = tried
    BY <2>1 DEF AppendSound
  <2> QED
    BY <2>1, <2>2, <2>3, Appended DEF FileSound
<1>5. CountsSound'
  <2>1. tried \in Nat /\ tried' = tried /\ records.acked \subseteq 1..tried
    BY DEF CountsSound
  <2>2. tried # 0
    BY DEF AppendSound
  <2> QED
    BY <1>3, <2>1, <2>2 DEF CountsSound
<1>6. DirsSound' /\ FaultsTogether' /\ (Safe' <=> Safe)
  BY NotFaulted DEF DirsSound, DirSound, Grown
<1>7. Owed' \subseteq Owed \cup {tried}
  BY <1>3 DEF Owed
<1>8. OwedKept'
  <2> SUFFICES ASSUME NEW h \in Owed' PROVE \E i \in LinkedIn(dir') : Holds(i, h)'
    BY DEF OwedKept
  <2>1. CASE h \in Owed
    BY <2>1, StaysHeld DEF OwedKept
  <2>2. CASE h = tried
    <3>1. Holds(a, h)
      BY <1>4, <2>2 DEF Holds
    <3> QED
      BY <3>1, StaysHeld DEF LinkedIn
  <2> QED
    BY <1>7, <2>1, <2>2
<1>9. Safe => Durable'
  <2> SUFFICES ASSUME Safe, NEW h \in Owed'
               PROVE  \E i \in DOMAIN file' :
                          HoldsSynced(i, h)' /\ \A d \in undone' \cup {dir'} : i \in LinkedIn(d)
    BY DEF Durable
  <2>1. CASE h \in Owed
    <3>1. PICK i \in DOMAIN file :
             HoldsSynced(i, h) /\ \A d \in undone \cup {dir} : i \in LinkedIn(d)
      BY <2>1 DEF SafeInv, Durable
    <3>2. i \in DOMAIN file' /\ HoldsSynced(i, h)'
      BY <3>1, StaysHeld DEF Grown
    <3> QED
      BY <3>1, <3>2
  <2>2. CASE h = tried
    <3>1. /\ a \in DOMAIN file' /\ file'[a].synced = n
          /\ file'[a].lines[n] = file[a].lines[n]
      BY <1>4 DEF Grown
    <3>2. HoldsSynced(a, h)'
      BY <1>4, <2>2, <3>1 DEF HoldsSynced
    <3> QED
      BY <3>1, <3>2 DEF LinkedIn
  <2> QED
    BY <1>7, <2>1, <2>2
<1>10. SafeInv'
  BY <1>1, <1>6, <1>9 DEF SafeInv, ActiveDurable, Settled, InAppend
<1> QED
  BY <1>2, <1>5, <1>6, <1>8, <1>10

(* The written line is synced: the disk has no new line in it.                 *)
LEMMA LinesSynced ==
  ASSUME FilesSound, NEW i \in DOMAIN file,
         file' = [file EXCEPT ![i].synced = Len(file[i].lines)]
  PROVE  /\ FilesSound' /\ Grown /\ DOMAIN file' = DOMAIN file
         /\ file'[i].lines = file[i].lines /\ file'[i].synced = Len(file[i].lines)
<1> DEFINE f == [lines |-> file[i].lines, synced |-> Len(file[i].lines)]
           g == [file[i] EXCEPT !.synced = Len(file[i].lines)]
<1>1. /\ FileSound(file[i]) /\ IsSeq(file[i].lines) /\ Len(file[i].lines) \in Nat
      /\ file[i].synced \in 0..Len(file[i].lines)
  BY Appended DEF FilesSound, FileSound
<1>2. FileSound(f)
  BY <1>1 DEF FileSound
<1>3. file' = [file EXCEPT ![i] = g]
  OBVIOUS
<1>4. g = f
  BY <1>1 DEF FileSound
<1> HIDE DEF g
<1>5. file' = [file EXCEPT ![i] = f]
  BY <1>3, <1>4
<1>6. f.lines = file[i].lines /\ f.synced = Len(file[i].lines)
  OBVIOUS
<1> HIDE DEF f
<1>7. /\ FilesSound' /\ DOMAIN file' = DOMAIN file /\ file'[i] = f
      /\ \A j \in DOMAIN file \ {i} : file'[j] = file[j]
  BY <1>2, <1>5, FileReplaced
<1>8. \A j \in DOMAIN file : file[j].synced \in Int
  BY Appended DEF FilesSound, FileSound
<1>9. Grown
  <2> SUFFICES ASSUME NEW j \in DOMAIN file
               PROVE  /\ j \in DOMAIN file' /\ file'[j].synced >= file[j].synced
                      /\ \A k \in DOMAIN file[j].lines :
                             k \in DOMAIN file'[j].lines /\ file'[j].lines[k] = file[j].lines[k]
    BY DEF Grown
  <2>1. CASE j = i
    BY <1>1, <1>6, <1>7, <2>1
  <2>2. CASE j # i
    BY <1>7, <1>8, <2>2
  <2> QED
    BY <2>1, <2>2
<1> QED
  BY <1>6, <1>7, <1>9

(* An append that is not over, or that goes back.                             *)
LEMMA SyncGoesOn ==
  ASSUME LogInv, op.pc \in {"fsync", "dirSync"}, NEW pc \in {"dirSync", "rollback"}, LogGoto(pc),
         FilesSound', Grown, UNCHANGED <<dir, undone, tried, records>>, Active' = Active,
         FaultsTogether', Safe' => /\ Safe /\ pc = "dirSync" /\ op.created
                                   /\ file'[dir.active].synced = Len(Active)
  PROVE  LogInv'
<1> USE DEF LogInv, LogSound
<1>1. op' = [pc |-> pc, job |-> op.job, kind |-> op.kind, of |-> op.of, carry |-> op.carry,
             before |-> op.before, created |-> op.created, todo |-> op.todo, named |-> op.named]
  BY DEF LogGoto, OpSound
<1>2. OpSound' /\ CarrySound' /\ NewUnacked'
  BY <1>1 DEF OpSound, CarrySound, NewUnacked, InAppend, Carrying
<1>3. AppendSound'
  BY <1>1 DEF AppendSound, InAppend
<1>4. CountsSound' /\ Owed' = Owed
  BY DEF CountsSound, Owed
<1>5. DirsSound'
  BY DEF DirsSound, DirSound, Grown
<1>6. OwedKept' /\ (Safe' => Durable')
  BY <1>4, StaysKept DEF SafeInv
<1>7. SafeInv'
  BY <1>1, <1>6 DEF SafeInv, ActiveDurable, Fresh
<1> QED
  BY <1>2, <1>3, <1>4, <1>5, <1>6, <1>7

(* The line is synced, and acknowledged unless its file is new.              *)
LEMMA FsyncKeeps == ASSUME LossesApart, LogInv, Fsync PROVE LogInv'
<1> USE DEF LogInv, LogSound
<1>1. /\ op.pc = "fsync" /\ UNCHANGED <<dir, undone, tried>> /\ dir.active \in DOMAIN file
      /\ Active = file[dir.active].lines /\ Lines(dir.active) = file[dir.active].lines
  BY DEF Fsync, AppendSound, DirsSound, DirSound, Active, Lines
<1>2. CASE /\ UNCHANGED faults
           /\ file' = [file EXCEPT ![dir.active].synced = Len(Lines(dir.active))]
           /\ IF op.created THEN LogGoto("dirSync") /\ UNCHANGED <<log, records>> ELSE Acknowledge
  <2>1. /\ FilesSound' /\ Grown /\ DOMAIN file' = DOMAIN file
        /\ file'[dir.active].lines = file[dir.active].lines
        /\ file'[dir.active].synced = Len(file[dir.active].lines)
    BY <1>1, <1>2, LinesSynced
  <2>2. FaultsTogether' /\ (Safe' => Safe)
    BY <1>2, NotFaulted
  <2>3. Active' = Active
    BY <1>1, <2>1 DEF Active, Lines
  <2>4. CASE op.created
    <3>1. LogGoto("dirSync") /\ UNCHANGED records
      BY <1>2, <2>4
    <3> HIDE DEF LogInv, LogSound
    <3> QED
      BY <1>1, <2>1, <2>2, <2>3, <2>4, <3>1, SyncGoesOn
  <2>5. CASE ~op.created
    <3>1. Acknowledge
      BY <1>2, <2>5
    <3>2. Safe => \A d \in undone' : dir.active \in LinkedIn(d)
      BY <1>1, <2>5 DEF SafeInv, ActiveDurable, Fresh, AppendSound
    <3> HIDE DEF LogInv, LogSound
    <3> QED
      BY <1>1, <1>2, <2>1, <3>1, <3>2, AcknowledgeKeeps
  <2> QED
    BY <2>4, <2>5
<1>3. CASE Fault("sync") /\ LogGoto("rollback") /\ UNCHANGED <<file, log, records>>
  <2>1. FilesSound' /\ Grown /\ Active' = Active
    BY <1>1, <1>3, FilesUnchanged DEF Active, Lines
  <2>2. FaultsTogether' /\ ~Safe'
    BY <1>3, Faulted DEF Unsynced
  <2> HIDE DEF LogInv, LogSound
  <2> QED
    BY <1>1, <1>3, <2>1, <2>2, SyncGoesOn
<1> QED
  BY <1>2, <1>3 DEF Fsync, Works

(* The name of a new file is synced, and its first line acknowledged.        *)
LEMMA DirSyncKeeps == ASSUME LossesApart, LogInv, DirSync PROVE LogInv'
<1> USE DEF LogInv, LogSound
<1>1. /\ op.pc = "dirSync" /\ UNCHANGED <<file, dir, tried>>
      /\ Active = file[dir.active].lines
  BY DEF DirSync, SyncDirectory, AppendSound, Active, Lines, files
<1>2. FilesSound' /\ Grown /\ Active' = Active
  BY <1>1, FilesUnchanged DEF Active, Lines
<1>3. CASE undone' = {} /\ UNCHANGED faults /\ Acknowledge
  <2>1. Safe => file'[dir.active].synced = Len(file[dir.active].lines)
    BY <1>1 DEF SafeInv
  <2> HIDE DEF LogInv, LogSound
  <2> QED
    BY <1>1, <1>2, <1>3, <2>1, AcknowledgeKeeps
<1>4. CASE Fault("sync") /\ LogGoto("rollback") /\ UNCHANGED <<undone, records>>
  <2>1. FaultsTogether' /\ ~Safe'
    BY <1>4, Faulted DEF Unsynced
  <2> HIDE DEF LogInv, LogSound
  <2> QED
    BY <1>1, <1>2, <1>4, <2>1, SyncGoesOn
<1> QED
  BY <1>3, <1>4 DEF DirSync, SyncDirectory, Works, files

-------------------------------------------------------------------------------
(* What a failed append wrote is taken back, which takes no record away.       *)
LEMMA TakenBack ==
  ASSUME LogInv, op.pc = "rollback", dir.active # 0,
         file' = [file EXCEPT ![dir.active] = Truncate(@, op.before)]
  PROVE  /\ FilesSound' /\ DOMAIN file' = DOMAIN file
         /\ \A i : \A h \in records.acked : Holds(i, h) => Holds(i, h)'
<1> USE DEF LogInv, LogSound
<1> DEFINE a == dir.active
           n == op.before
           f == Truncate(file[a], n)
<1>1. a \in DOMAIN file /\ FileSound(file[a]) /\ Active = file[a].lines
  BY DEF DirsSound, DirSound, FilesSound, Active, Lines
<1>2. n \in 0..Len(file[a].lines)
  BY <1>1 DEF AppendSound, InAppend
<1>3. \A k \in DOMAIN file[a].lines : k > n => file[a].lines[k].hash \notin records.acked
  BY <1>1 DEF NewUnacked, InAppend
<1>4. file' = [file EXCEPT ![a] = f]
  OBVIOUS
<1> HIDE DEF n, a
<1>5. /\ IsSeq(f.lines) /\ Len(f.lines) = n /\ DOMAIN f.lines = 1..n
      /\ \A k \in 1..n : f.lines[k] = file[a].lines[k]
      /\ DOMAIN file[a].lines = 1..Len(file[a].lines) /\ Len(file[a].lines) \in Nat
  BY <1>1, <1>2, Prefix DEF Truncate, FileSound
<1>6. FileSound(f)
  <2>1. f = [lines |-> f.lines, synced |-> f.synced]
    BY DEF Truncate
  <2>2. f.synced \in 0..n
    BY <1>1, <1>2, <1>5 DEF Truncate, FileSound
  <2> QED
    BY <1>5, <2>1, <2>2 DEF FileSound
<1> HIDE DEF f
<1>7. /\ FilesSound' /\ DOMAIN file' = DOMAIN file /\ file'[a] = f
      /\ \A j \in DOMAIN file \ {a} : file'[j] = file[j]
  BY <1>1, <1>4, <1>6, FileReplaced
<1>8. ASSUME NEW i, NEW h \in records.acked, Holds(i, h) PROVE Holds(i, h)'
  <2>1. PICK k \in DOMAIN file[i].lines : file[i].lines[k].hash = h
    BY <1>8 DEF Holds
  <2>2. CASE i = a
    <3>1. k \in 1..n
      BY <1>2, <1>3, <1>5, <2>1, <2>2
    <3> QED
      BY <1>5, <1>7, <1>8, <2>1, <2>2, <3>1 DEF Holds
  <2>3. CASE i # a
    BY <1>7, <1>8, <2>1, <2>3 DEF Holds
  <2> QED
    BY <2>2, <2>3
<1> QED
  BY <1>7, <1>8

(* Once an append has failed, power is lost no more.                          *)
LEMMA SettledUnsafe ==
  ASSUME LogInv, FilesSound', DirsSound', OwedKept', Settled(op'), UNCHANGED <<tried, records>>,
         FaultsTogether', ~Safe'
  PROVE  LogInv'
<1>1. OpSound' /\ AppendSound' /\ CarrySound' /\ NewUnacked'
  BY DEF Settled, OpSound, AppendSound, CarrySound, NewUnacked, InAppend, Carrying
<1>2. CountsSound'
  BY DEF LogInv, LogSound, CountsSound
<1> QED
  BY <1>1, <1>2 DEF LogInv, LogSound, SafeInv

(* A failed append is taken back, or its line is dropped as it is.           *)
LEMMA RollbackKeeps == ASSUME LossesApart, LogInv, Rollback PROVE LogInv'
<1> USE DEF LogInv, LogSound
<1>1. op.pc = "rollback" /\ UNCHANGED <<dir, undone, tried, records>> /\ ~Safe /\ Owed' = Owed
  BY DEF Rollback, Rest, SafeInv, Owed
<1>2. CASE /\ dir.active # 0 /\ UNCHANGED faults
           /\ file' = [file EXCEPT ![dir.active] = Truncate(@, op.before)]
           /\ op' = AfterDrop
  <2>1. /\ FilesSound' /\ DOMAIN file' = DOMAIN file
        /\ \A i : \A h \in records.acked : Holds(i, h) => Holds(i, h)'
    BY <1>1, <1>2, TakenBack
  <2>2. DirsSound'
    BY <1>1, <2>1 DEF DirsSound, DirSound
  <2>3. OwedKept'
    BY <1>1, <2>1 DEF OwedKept, Owed
  <2>4. Settled(op')
    BY <1>2, AfterDropSettles
  <2>5. FaultsTogether' /\ ~Safe'
    BY <1>1, <1>2, NotFaulted
  <2> HIDE DEF LogInv, LogSound
  <2> QED
    BY <1>1, <2>1, <2>2, <2>3, <2>4, <2>5, SettledUnsafe
<1>3. CASE (UNCHANGED faults \/ Fault("truncate")) /\ DropLine /\ UNCHANGED file
  <2>1. Settled(op')
    BY <1>3, DropSettles
  <2>2. FaultsTogether' /\ ~Safe'
    BY <1>1, <1>3, Faulted, NotFaulted
  <2> HIDE DEF LogInv, LogSound
  <2> QED
    BY <1>1, <1>3, <2>1, <2>2, QuietStep DEF files
<1> QED
  BY <1>2, <1>3 DEF Rollback, Works

(* The greatest of some numbers that have a bound. *)
LEMMA Greatest ==
  ASSUME NEW n \in Nat, NEW S, S \subseteq 1..n, S # {}
  PROVE  Max(S) \in S
<1> DEFINE T == {n - x : x \in S}
<1>1. T \subseteq Nat /\ T # {}
  OBVIOUS
<1>2. PICK t \in T : \A u \in T : ~(<<u, t>> \in OpToRel(<, Nat))
  BY <1>1, NatLessThanWellFounded, WFMin, Zenon
<1>3. \A u \in T : ~(u < t)
  BY <1>1, <1>2 DEF OpToRel
<1>4. PICK x \in S : t = n - x
  BY <1>2
<1>5. ASSUME NEW y \in S PROVE x >= y
  <2>1. n - y \in T /\ x \in 1..n /\ y \in 1..n
    OBVIOUS
  <2>2. ~(n - y < n - x)
    BY <1>3, <1>4, <2>1
  <2> QED
    BY <2>1, <2>2
<1>6. \E z \in S : \A y \in S : z >= y
  BY <1>5
<1> QED
  BY <1>6 DEF Max

(* The damaged file goes back over one that holds nothing acknowledged.      *)
LEMMA PutBackKeeps == ASSUME LossesApart, LogInv, PutBack PROVE LogInv'
<1> USE DEF LogInv, LogSound
<1>1. op.pc = "rollback" /\ Carrying /\ UNCHANGED <<tried, records>> /\ ~Safe /\ Owed' = Owed
  BY DEF PutBack, Rest, SafeInv, Owed
<1>2. op.before = 0 /\ dir.corrupt # {}
  BY <1>1 DEF CarrySound
<1> DEFINE ino == Max(dir.corrupt)
<1>3. /\ DropLine /\ UNCHANGED faults
      /\ Moved([dir EXCEPT !.active = ino, !.corrupt = @ \ {ino}])
      /\ file' = IF dir.active = 0 THEN file ELSE [file EXCEPT ![dir.active] = Truncate(@, op.before)]
  <2>1. ~Fault("recovery")
    BY Faulted
  <2> QED
    BY <2>1 DEF PutBack, Works
<1>4. /\ FilesSound' /\ DOMAIN file' = DOMAIN file
      /\ \A i : \A h \in records.acked : Holds(i, h) => Holds(i, h)'
  <2>1. CASE dir.active = 0
    BY <1>3, <2>1, FilesUnchanged DEF Holds
  <2>2. CASE dir.active # 0
    <3>1. file' = [file EXCEPT ![dir.active] = Truncate(@, op.before)]
      BY <1>3, <2>2
    <3> HIDE DEF LogInv, LogSound
    <3> QED
      BY <1>1, <2>2, <3>1, TakenBack
  <2> QED
    BY <2>1, <2>2
<1>5. DirSound(dir) /\ ino \in dir.corrupt
  <2>1. DirSound(dir)
    BY DEF DirsSound
  <2>2. dir.corrupt \subseteq 1..Len(file) /\ Len(file) \in Nat
    BY <2>1, Appended DEF DirSound, FilesSound
  <2> QED
    BY <1>2, <2>1, <2>2, Greatest
<1> HIDE DEF ino
<1>6. /\ dir' = [active |-> ino, segments |-> dir.segments, corrupt |-> dir.corrupt \ {ino}]
      /\ undone' = undone \cup {dir}
  BY <1>3, <1>5 DEF Moved, DirSound
<1>7. DirsSound'
  <2>1. DirSound(dir)'
    BY <1>4, <1>5, <1>6 DEF DirSound
  <2>2. ASSUME NEW d \in undone \cup {dir} PROVE DirSound(d)'
    BY <1>4, <2>2 DEF DirSound, DirsSound
  <2> QED
    BY <1>6, <2>1, <2>2 DEF DirsSound
<1>8. LinkedIn(dir) \ {dir.active} \subseteq LinkedIn(dir')
  BY <1>6 DEF LinkedIn
<1>9. OwedKept'
  <2> SUFFICES ASSUME NEW h \in Owed' PROVE \E i \in LinkedIn(dir') : Holds(i, h)'
    BY DEF OwedKept
  <2>1. PICK i \in LinkedIn(dir) : Holds(i, h)
    BY <1>1 DEF OwedKept
  <2>2. i # dir.active
    <3> SUFFICES ASSUME i = dir.active PROVE FALSE
      OBVIOUS
    <3>1. Active = file[i].lines /\ FileSound(file[i])
      BY <2>1, NoFileIsZero DEF Holds, Active, Lines, FilesSound
    <3>2. PICK k \in DOMAIN Active : Active[k].hash = h
      BY <2>1, <3>1 DEF Holds
    <3>3. k > 0
      BY <3>1, Appended DEF FileSound
    <3> QED
      BY <1>1, <1>2, <3>2, <3>3 DEF NewUnacked, InAppend, Owed
  <2> QED
    BY <1>1, <1>4, <1>8, <2>1, <2>2 DEF Owed
<1>10. Settled(op')
  BY <1>3, DropSettles
<1>11. FaultsTogether' /\ ~Safe'
  BY <1>1, <1>3, NotFaulted
<1> HIDE DEF LogInv, LogSound
<1> QED
  BY <1>1, <1>4, <1>7, <1>9, <1>10, <1>11, SettledUnsafe

-------------------------------------------------------------------------------
(* A deleted segment held only what is then counted as deleted.                *)
LEMMA UnlinkKeeps == ASSUME LossesApart, LogInv, Unlink PROVE LogInv'
<1> USE DEF LogInv, LogSound
<1>1. op.pc = "unlink" /\ tried' = tried /\ ~Carrying /\ ~Fresh
  BY DEF Unlink, CarrySound, InAppend, Fresh
<1>2. CASE /\ UNCHANGED faults \/ Fault("unlink")
           /\ op' = Idle /\ UNCHANGED <<files, records>>
  <2>1. Settled(op') /\ FaultsTogether' /\ (Safe' => Safe)
    BY <1>2, RestSettles, Faulted, NotFaulted
  <2> HIDE DEF LogInv, LogSound
  <2> QED
    BY <1>1, <1>2, <2>1, QuietStep
<1> DEFINE ino == Head(op.named).ino
           gone == {line.hash : line \in ToSet(Lines(ino))}
<1>3. CASE /\ UNCHANGED <<faults, file>> /\ LogGoto("unlinkSync")
           /\ Moved([dir EXCEPT !.segments = {x \in @ : x.ino # ino}])
           /\ records' = [records EXCEPT !.deleted = @ \cup gone]
  <2>1. ASSUME NEW h, Holds(ino, h) PROVE h \in gone
    <3>1. Lines(ino) = file[ino].lines
      BY <2>1, NoFileIsZero DEF Lines, Holds
    <3> QED
      BY <2>1, <3>1 DEF Holds, ToSet
  <2> HIDE DEF gone, ino
  <2>2. DirSound(dir)
    BY DEF DirsSound
  <2>3. /\ dir' = [active |-> dir.active, segments |-> {x \in dir.segments : x.ino # ino},
                   corrupt |-> dir.corrupt]
        /\ undone' = undone \cup {dir}
    BY <1>3, <2>2 DEF Moved, DirSound
  <2>4. records' = [acked |-> records.acked, deleted |-> records.deleted \cup gone]
    BY <1>3 DEF CountsSound
  <2>5. op' = [pc |-> "unlinkSync", job |-> op.job, kind |-> op.kind, of |-> op.of,
               carry |-> op.carry, before |-> op.before, created |-> op.created,
               todo |-> op.todo, named |-> op.named]
    BY <1>3 DEF LogGoto, OpSound
  <2>6. OpSound' /\ AppendSound' /\ CarrySound' /\ NewUnacked' /\ CountsSound'
    BY <1>1, <2>4, <2>5
    DEF OpSound, AppendSound, CarrySound, NewUnacked, CountsSound, InAppend, Carrying
  <2>7. FilesSound' /\ FaultsTogether' /\ (Safe' <=> Safe)
    BY <1>3, FilesUnchanged, NotFaulted
  <2>8. DirsSound'
    <3>1. DirSound(dir)'
      BY <1>3, <2>2, <2>3 DEF DirSound
    <3>2. ASSUME NEW d \in undone PROVE DirSound(d)'
      BY <1>3, <3>2 DEF DirSound, DirsSound
    <3>3. DirSound(dir) => DirSound(dir)'
      BY <3>1
    <3>4. \A d \in {dir} : /\ d = [active |-> d.active, segments |-> d.segments, corrupt |-> d.corrupt]
                           /\ d.active \in {0} \cup DOMAIN file'
                           /\ d.corrupt \subseteq DOMAIN file'
      BY <1>3, <2>2 DEF DirSound
    <3> QED
      BY <2>3, <3>1, <3>2, <3>4 DEF DirsSound, DirSound
  <2>9. ASSUME NEW h \in Owed' PROVE h \in Owed /\ h \notin gone
    BY <2>4, <2>9 DEF Owed
  <2>10. ASSUME NEW h \in Owed', NEW i, Holds(i, h) PROVE i # ino /\ Holds(i, h)'
    BY <1>3, <2>1, <2>9, <2>10 DEF Holds
  <2>11. \A i \in LinkedIn(dir) : i # ino => i \in LinkedIn(dir')
    BY <2>3 DEF LinkedIn
  <2>12. OwedKept'
    <3> SUFFICES ASSUME NEW h \in Owed' PROVE \E i \in LinkedIn(dir') : Holds(i, h)'
      BY DEF OwedKept
    <3>1. PICK i \in LinkedIn(dir) : Holds(i, h)
      BY <2>9 DEF OwedKept
    <3> QED
      BY <2>10, <2>11, <3>1
  <2>13. Safe => Durable'
    <3> SUFFICES ASSUME Safe, NEW h \in Owed'
                 PROVE  \E i \in DOMAIN file' :
                            HoldsSynced(i, h)' /\ \A d \in undone' \cup {dir'} : i \in LinkedIn(d)
      BY DEF Durable
    <3>1. PICK i \in DOMAIN file :
             HoldsSynced(i, h) /\ \A d \in undone \cup {dir} : i \in LinkedIn(d)
      BY <2>9 DEF SafeInv, Durable
    <3>2. Holds(i, h)
      <4>1. FileSound(file[i])
        BY DEF FilesSound
      <4>2. DOMAIN file[i].lines = 1..Len(file[i].lines) /\ file[i].synced \in 0..Len(file[i].lines)
            /\ Len(file[i].lines) \in Nat
        BY <4>1, Appended DEF FileSound
      <4> QED
        BY <3>1, <4>2 DEF Holds, HoldsSynced
    <3>3. i # ino /\ i \in DOMAIN file' /\ HoldsSynced(i, h)'
      BY <1>3, <2>10, <3>1, <3>2 DEF HoldsSynced
    <3> QED
      BY <2>3, <2>11, <3>1, <3>3
  <2>14. SafeInv'
    <3>1. Safe => ActiveDurable'
      BY <1>1, <2>3 DEF SafeInv, ActiveDurable, LinkedIn
    <3> QED
      BY <2>5, <2>7, <2>13, <3>1 DEF SafeInv
  <2> QED
    BY <2>6, <2>7, <2>8, <2>12, <2>14
<1> QED
  BY <1>2, <1>3 DEF Unlink, Works

(* The deletion is synced, or the sweep ends.                                *)
LEMMA UnlinkSyncKeeps == ASSUME LossesApart, LogInv, UnlinkSync PROVE LogInv'
<1> USE DEF LogInv, LogSound
<1>1. op.pc = "unlinkSync" /\ UNCHANGED <<tried, records>> /\ ~Carrying /\ ~Fresh
  BY DEF UnlinkSync, CarrySound, InAppend, Fresh
<1>2. CASE /\ undone' = {} /\ UNCHANGED <<file, dir, faults>>
           /\ op' = [op EXCEPT !.pc = "unlink", !.named = Tail(@)]
  <2> DEFINE named == Tail(op.named)
  <2>1. op' = [op EXCEPT !.pc = "unlink", !.named = named]
    BY <1>2
  <2> HIDE DEF named
  <2>2. op' = [pc |-> "unlink", job |-> op.job, kind |-> op.kind, of |-> op.of,
               carry |-> op.carry, before |-> op.before, created |-> op.created,
               todo |-> op.todo, named |-> named]
    BY <2>1 DEF OpSound
  <2>3. Settled(op')
    BY <1>1, <2>2 DEF Settled, InAppend, Carrying
  <2>4. FilesSound' /\ Grown /\ DirsSound' /\ LinkedIn(dir') = LinkedIn(dir)
    BY <1>2, FilesUnchanged DEF DirsSound, DirSound, LinkedIn
  <2>5. FaultsTogether' /\ (Safe' => Safe) /\ Owed' = Owed
    BY <1>1, <1>2, NotFaulted DEF Owed
  <2>6. records' = [acked |-> records'.acked, deleted |-> records'.deleted]
    BY <1>1 DEF CountsSound
  <2> HIDE DEF LogInv, LogSound
  <2> QED
    BY <1>1, <1>2, <2>3, <2>4, <2>5, <2>6, SettledStep
<1>3. CASE Fault("sync") /\ op' = Idle /\ UNCHANGED files
  <2>1. Settled(op') /\ FaultsTogether' /\ ~Safe'
    BY <1>3, RestSettles, Faulted DEF Unsynced
  <2> HIDE DEF LogInv, LogSound
  <2> QED
    BY <1>1, <1>3, <2>1, QuietStep
<1> QED
  BY <1>2, <1>3 DEF UnlinkSync, SyncDirectory, Works

-------------------------------------------------------------------------------
(* A process that dies leaves its files alone.                               *)
LEMMA CrashKeeps == ASSUME LossesApart, LogInv, LogCrash PROVE LogInv'
<1>1. Settled(op') /\ UNCHANGED <<files, tried, records>>
  BY RestSettles DEF LogCrash, Dies, Die, Rest
<1>2. Fault(IF Carrying THEN "recovery" ELSE "crash")
  BY DEF LogCrash, Dies
<1>3. FaultsTogether' /\ ~Safe'
  BY <1>2, Faulted DEF Unsynced, LogInv, LogSound
<1> QED
  BY <1>1, <1>3, QuietStep

(* What is left of a file.                                                    *)
LEMMA Joined ==
  ASSUME NEW s, IsSeq(s), NEW x
  PROVE  s \o <<>> = s /\ s \o <<x>> = Append(s, x)
<1> DEFINE S == {s[k] : k \in DOMAIN s}
           T == S \cup {x}
<1>1. s \in Seq(S)
  BY DEF IsSeq
<1> HIDE DEF S
<1>2. s \in Seq(T)
  BY <1>1
<1> HIDE DEF T
<1>3. x \in T
  BY DEF T
<1>4. s \o <<>> = s
  BY <1>2, ConcatEmptySeq
<1>5. s \o <<x>> = Append(s, x)
  BY <1>2, <1>3, AppendIsConcat
<1> QED
  BY <1>4, <1>5

(* A file keeps the lines that were synced.                                  *)
LEMMA SyncedLeft ==
  ASSUME NEW f, FileSound(f), NEW lines,
         lines \in {f.lines, SubSeq(f.lines, 1, f.synced), Append(SubSeq(f.lines, 1, f.synced), Torn)}
  PROVE  /\ IsSeq(lines) /\ f.synced \in Nat /\ Len(lines) \in Nat /\ f.synced <= Len(lines)
         /\ \A k \in 1..f.synced : lines[k] = f.lines[k]
<1> DEFINE n == f.synced
           s == SubSeq(f.lines, 1, n)
<1>1. IsSeq(f.lines) /\ n \in 0..Len(f.lines) /\ Len(f.lines) \in Nat /\ n \in Nat
  BY Appended DEF FileSound
<1>2. CASE lines = f.lines
  BY <1>1, <1>2
<1>3. /\ IsSeq(s) /\ Len(s) = n /\ DOMAIN s = 1..n
      /\ \A k \in 1..n : s[k] = f.lines[k]
  BY <1>1, Prefix
<1> HIDE DEF s
<1>4. CASE lines = s
  BY <1>1, <1>3, <1>4
<1>5. CASE lines = Append(s, Torn)
  <2>1. IsSeq(lines) /\ Len(lines) = n + 1 /\ \A k \in 1..n : lines[k] = s[k]
    BY <1>3, <1>5, Appended
  <2> QED
    BY <1>1, <1>3, <2>1
<1> QED
  BY <1>2, <1>4, <1>5 DEF s

(* Whatever a power loss leaves of the others.                               *)
LEMMA CutShort ==
  ASSUME NEW f, FileSound(f), NEW after, NEW lines,
         lines = IF after = "all" \/ f.synced = Len(f.lines) THEN f.lines
                 ELSE SubSeq(f.lines, 1, f.synced) \o IF after = "torn" THEN <<Torn>> ELSE <<>>
  PROVE  /\ IsSeq(lines) /\ f.synced \in Nat /\ Len(lines) \in Nat /\ f.synced <= Len(lines)
         /\ \A k \in 1..f.synced : lines[k] = f.lines[k]
<1> DEFINE s == SubSeq(f.lines, 1, f.synced)
<1>1. IsSeq(s)
  BY Prefix DEF FileSound
<1>2. lines \in {f.lines, s \o <<>>, s \o <<Torn>>}
  BY Zenon
<1> HIDE DEF s
<1>3. s \o <<>> = s /\ s \o <<Torn>> = Append(s, Torn)
  BY <1>1, Joined
<1>4. lines \in {f.lines, s, Append(s, Torn)}
  BY <1>2, <1>3, Zenon
<1> QED
  BY <1>4, SyncedLeft, Zenon DEF s

(* What is owed is synced, in every directory that a power loss may go back  *)
(* to.                                                                       *)
LEMMA PowerLossKeeps == ASSUME LossesApart, LogInv, PowerLoss PROVE LogInv'
<1> USE DEF LogInv, LogSound
<1>1. /\ op' = Down /\ UNCHANGED <<tried, records>> /\ undone' = {} /\ dir' \in undone \cup {dir}
      /\ Fault(IF Carrying THEN "recovery" ELSE "power")
  BY DEF PowerLoss, Dies, Die, Rest
<1>2. Fault("power") /\ FaultsTogether' /\ Safe
  BY <1>1, Faulted
<1>3. PICK after \in {"all", "torn", "synced"} :
         file' = [i \in DOMAIN file |->
             LET f == file[i]
                 lines == IF after = "all" \/ f.synced = Len(f.lines) THEN f.lines
                          ELSE SubSeq(f.lines, 1, f.synced)
                                   \o IF after = "torn" THEN <<Torn>> ELSE <<>>
             IN  [lines |-> lines, synced |-> Len(lines)]]
  BY DEF PowerLoss
<1> DEFINE left(f) == IF after = "all" \/ f.synced = Len(f.lines) THEN f.lines
                      ELSE SubSeq(f.lines, 1, f.synced)
                               \o IF after = "torn" THEN <<Torn>> ELSE <<>>
<1>4. file' = [i \in DOMAIN file |-> [lines |-> left(file[i]), synced |-> Len(left(file[i]))]]
  BY <1>3
<1>5. ASSUME NEW i \in DOMAIN file
      PROVE  /\ IsSeq(left(file[i])) /\ file[i].synced \in Nat /\ Len(left(file[i])) \in Nat
             /\ file[i].synced <= Len(left(file[i]))
             /\ \A k \in 1..file[i].synced : left(file[i])[k] = file[i].lines[k]
  <2>1. FileSound(file[i])
    BY DEF FilesSound
  <2>2. left(file[i]) = left(file[i])
    OBVIOUS
  <2> QED
    BY <2>1, CutShort
<1> HIDE DEF left
<1>6. /\ DOMAIN file' = DOMAIN file
      /\ \A i \in DOMAIN file : file'[i] = [lines |-> left(file[i]), synced |-> Len(left(file[i]))]
  BY <1>4
<1>7. \A i \in DOMAIN file : FileSound(file'[i])
  BY <1>5, <1>6 DEF FileSound
<1>8. FilesSound'
  <2>1. IsSeq(file')
    BY <1>4, <1>6, Mapped DEF FilesSound
  <2> QED
    BY <1>6, <1>7, <2>1 DEF FilesSound, FileSound
<1>9. DirsSound'
  BY <1>1, <1>6 DEF DirsSound, DirSound
<1>10. OpSound' /\ AppendSound' /\ CarrySound' /\ NewUnacked'
  <2>1. Settled(op')
    BY <1>1, RestSettles
  <2> QED
    BY <2>1 DEF Settled, OpSound, AppendSound, CarrySound, NewUnacked, InAppend, Carrying
<1>11. CountsSound' /\ Owed' = Owed
  BY <1>1 DEF CountsSound, Owed
<1>12. ASSUME NEW h \in Owed'
       PROVE  \E i \in DOMAIN file' : HoldsSynced(i, h)' /\ Holds(i, h)' /\ i \in LinkedIn(dir')
  <2>1. PICK i \in DOMAIN file :
           HoldsSynced(i, h) /\ \A d \in undone \cup {dir} : i \in LinkedIn(d)
    BY <1>2, <1>11 DEF SafeInv, Durable
  <2>2. PICK k \in 1..file[i].synced : file[i].lines[k].hash = h
    BY <2>1 DEF HoldsSynced
  <2>3. /\ file'[i].lines[k].hash = h /\ k \in 1..file'[i].synced
        /\ i \in DOMAIN file' /\ IsSeq(file'[i].lines)
        /\ file'[i].synced = Len(file'[i].lines)
    BY <1>5, <1>6, <2>2
  <2>4. k \in DOMAIN file'[i].lines
    BY <2>3, Appended
  <2> QED
    BY <1>1, <2>1, <2>3, <2>4 DEF HoldsSynced, Holds
<1>13. OwedKept' /\ Durable'
  BY <1>1, <1>12 DEF OwedKept, Durable
<1>14. SafeInv'
  <2>1. op'.pc = "down"
    BY <1>1 DEF Down
  <2> QED
    BY <1>1, <1>13, <2>1 DEF SafeInv, ActiveDurable
<1> QED
  BY <1>2, <1>8, <1>9, <1>10, <1>11, <1>13, <1>14

-------------------------------------------------------------------------------
(* An empty directory owes nothing.                                          *)
LEMMA LogStarts == LogInit => LogInv
<1> SUFFICES ASSUME LogInit PROVE LogInv
  OBVIOUS
<1> USE DEF LogInit
<1>1. FilesSound /\ DirsSound /\ CountsSound /\ FaultsTogether
  BY DEF FilesSound, IsSeq, DirsSound, DirSound, CountsSound, FaultsTogether
<1>2. OpSound /\ AppendSound /\ CarrySound /\ NewUnacked
  BY RestSettles
  DEF Settled, OpSound, AppendSound, CarrySound, NewUnacked, InAppend, Carrying
<1>3. OwedKept /\ Durable /\ ActiveDurable /\ op.pc = "down"
  BY DEF OwedKept, Durable, ActiveDurable, Owed, Down
<1> QED
  BY <1>1, <1>2, <1>3 DEF LogInv, LogSound, SafeInv

(* Every step keeps the invariant.                                           *)
LEMMA LogStepKeeps == ASSUME LossesApart, LogInv, [LogNext]_logVars PROVE LogInv'
<1>1. CASE LogNext
  BY <1>1, StartKeeps, ProbeKeeps, ProcessKeeps, EnsureKeeps, WriteKeeps, SealSyncKeeps,
     AppendLineKeeps, FsyncKeeps, DirSyncKeeps, RollbackKeeps, PutBackKeeps, UnlinkKeeps,
     UnlinkSyncKeeps, CrashKeeps, PowerLossKeeps
  DEF LogNext
<1>2. CASE UNCHANGED logVars
  <2>1. UNCHANGED <<file, dir, undone, op, tried, records, faults>>
    BY <1>2 DEF logVars
  <2>2. LogSound' /\ NewUnacked'
    BY <2>1 DEF LogInv, LogSound, FilesSound, DirsSound, DirSound, OpSound, CountsSound,
                FaultsTogether, AppendSound, CarrySound, Carrying, NewUnacked, Active, Lines
  <2>3. OwedKept' /\ SafeInv'
    BY <2>1 DEF LogInv, OwedKept, Owed, Holds, SafeInv, Safe, Durable, HoldsSynced, ActiveDurable,
                Fresh, Active, Lines
  <2> QED
    BY <2>2, <2>3 DEF LogInv
<1> QED
  BY <1>1, <1>2

(* What is owed is in a file that has a name.                                *)
LEMMA NothingIsLost == LogInv => AckedKept
<1> SUFFICES ASSUME LogInv, NEW h \in records.acked, h \notin records.deleted
             PROVE  h \in HashesIn(Linked)
  BY DEF AckedKept
<1>1. PICK i \in LinkedIn(dir) : Holds(i, h)
  BY DEF LogInv, OwedKept, Owed
<1>2. i \in Linked
  BY <1>1 DEF LinkedIn, Linked
<1>3. Lines(i) = file[i].lines
  BY <1>1, NoFileIsZero DEF LogInv, LogSound, Holds, Lines
<1>4. PICK k \in DOMAIN Lines(i) : Lines(i)[k].hash = h
  BY <1>1, <1>3 DEF Holds
<1>5. Lines(i)[k] \in ToSet(Lines(i))
  BY DEF ToSet
<1> QED
  BY <1>2, <1>4, <1>5 DEF HashesIn

(* A record that was acknowledged is not lost to anything that fails, dies or   *)
(* loses power, for any size of segments, interval of anchors and number of     *)
(* appends and faults: acknowledge comes after the sync of the line and of the  *)
(* name of its file, rollback takes back nothing acknowledged, and a segment is *)
(* deleted only by prune.  This needs LossesApart, and the run audit_power is   *)
(* what happens without it.                                                  *)
THEOREM AcknowledgedKept == ASSUME LossesApart PROVE LogSpec => []AckedKept
<1>1. LogInv /\ [LogNext]_logVars => LogInv'
  BY LogStepKeeps
<1> QED
  BY <1>1, LogStarts, NothingIsLost, PTL DEF LogSpec
================================================================================
