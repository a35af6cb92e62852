------------------------------- MODULE AuditLog -------------------------------
(***************************************************************************)
(* The hash-chained audit log of obs/audit.ts, at the grain of the calls that *)
(* change the disk: appends, anchors, sealed segments, retention, and the     *)
(* recovery of a damaged active file, with failing calls, dying processes and *)
(* power losses that undo what was not synced.                               *)
(*                                                                         *)
(* A hash is the number of the append that made the record: it stands for the *)
(* record and all before it.  A Merkle frontier, and an anchor's root, are    *)
(* the sequence of the hashes that they cover.  The bytes of a segment are    *)
(* counted in records.  Nobody else writes to the directory.                 *)
(***************************************************************************)
EXTENDS Naturals, SequencesExt, FiniteSetsExt

CONSTANTS
    AnchorEvery,
    SegmentLines,    \* records for which an active file has room (segmentBytes)
    MaxTried,        \* bound on appends before the last record or prune
    MaxFaults,       \* bound on faults
    Troubles         \* sets of kinds of faults that come together: see Fault

VARIABLES
    file,            \* inode -> lines, and how many of them are synced
    dir,             \* which inodes are the active file, segments and .corrupt copies
    undone,          \* the directories that a power loss may go back to
    log,             \* state of the process
    op,              \* where it stands in record, prune or createAuditLog
    tried,           \* appends so far
    records,         \* hashes acknowledged, and those of deleted segments
    faults           \* how many there were, and which

logVars == <<file, dir, undone, log, op, tried, records, faults>>
files == <<file, dir, undone>>

Nothing == [seq |-> 0, hash |-> 0, frontier |-> <<>>]     \* a boundary that is none
Genesis == [seq |-> 0, prev |-> 0, frontier |-> <<>>, sinceAnchor |-> 0, activeFirst |-> 1,
            known |-> FALSE]

(* kind and of: the line to write; carry: the boundary to write before it;     *)
(* before and created: of the active file, for the append that is under way;  *)
(* todo and named: the segments to delete, without and with their record.     *)
Down == [pc |-> "down", job |-> "start", kind |-> "none", of |-> Nothing, carry |-> Nothing,
         before |-> 0, created |-> FALSE, todo |-> <<>>, named |-> <<>>]
Idle == [Down EXCEPT !.pc = "idle", !.job = "none"]

LogInit ==
    /\ file = <<>> /\ dir = [active |-> 0, segments |-> {}, corrupt |-> {}]
    /\ undone = {}
    /\ log = Genesis
    /\ op = Down
    /\ tried = 0 /\ records = [acked |-> {}, deleted |-> {}] /\ faults = [count |-> 0, kinds |-> {}]

(* "crash", "power"; "recovery": either of them in recoverFrom; and the calls  *)
(* that fail: "rename", "write", "sync", "truncate", "unlink".                 *)
Fault(kind) ==
    /\ faults.count < MaxFaults
    /\ faults' = [count |-> faults.count + 1, kinds |-> faults.kinds \cup {kind}]
    /\ \E together \in Troubles : faults.kinds \cup {kind} \subseteq together
Works == UNCHANGED faults

LogGoto(pc) == op' = [op EXCEPT !.pc = pc]
Lines(ino) == IF ino = 0 THEN <<>> ELSE file[ino].lines

-------------------------------------------------------------------------------
(* scanChain.                                                                *)
Torn == [kind |-> "torn", seq |-> 0, hash |-> 0, prev |-> 0, of |-> Nothing]

Sealed(d) ==
    LET s == SetToSortSeq(d.segments, LAMBDA x, y : x.first < y.first)
    IN  [i \in DOMAIN s |-> s[i].ino]

\* checkLine, and the root of an anchor.
Fits(c, line) ==
    /\ line.kind # "torn" /\ line.seq = c.seq + 1 /\ line.prev = c.prev
    /\ line.kind = "anchor" => line.of.seq = c.seq /\ line.of.frontier = c.frontier

\* acceptLine.
Accept(c, line, active) ==
    IF c.broken # 0 THEN c
    ELSE IF ~Fits(c, line[2]) THEN [c EXCEPT !.broken = line[1]]
    ELSE [c EXCEPT
             !.seq = @ + 1, !.prev = line[2].hash, !.frontier = Append(@, line[2].hash),
             !.sinceAnchor = IF line[2].kind = "anchor" THEN 0 ELSE @ + 1,
             !.activeFirst = IF line[1] # active THEN line[2].seq + 1 ELSE @,
             !.retentions = IF line[1] = active /\ line[2].kind = "pruned"
                            THEN Append(@, line[2].of) ELSE @]

\* Of the files `inos`, the last of which may be the active one.  A chain that does not
\* start at 1 resumes from the boundary that a record names, or that is carried; without
\* one, it is broken, or unreadable if a file ends in the middle of a line.
ScanChain(inos, active, carried) ==
    LET all == FlattenSeq([i \in DOMAIN inos |->
                   [k \in DOMAIN Lines(inos[i]) |-> <<inos[i], Lines(inos[i])[k]>>]])
        head == all[1][2]
        Names(b) == b.seq = head.seq - 1 /\ b.hash = head.prev
        inChain == {b \in {all[i][2].of : i \in {j \in DOMAIN all : all[j][2].kind = "pruned"}} :
                        Names(b)}
        found == inChain \cup {b \in ToSet(carried) : Names(b)}
        pruned == all # <<>> /\ head.seq > 1
        start == IF pruned /\ found # {} THEN CHOOSE b \in found : TRUE ELSE Nothing
        scan == [seq |-> start.seq, prev |-> start.hash, frontier |-> start.frontier,
                 sinceAnchor |-> 0, activeFirst |-> start.seq + 1, broken |-> 0,
                 retentions |-> <<>>, unreadable |-> FALSE,
                 carried |-> IF pruned /\ inChain = {} THEN start ELSE Nothing]
    IN  IF pruned /\ found = {}
        THEN [scan EXCEPT !.broken = all[1][1],
                          !.unreadable = \E i \in DOMAIN all : all[i][2].kind = "torn"]
        ELSE FoldLeft(LAMBDA c, line : Accept(c, line, active), scan, all)

Scan ==
    ScanChain(IF dir.active = 0 THEN Sealed(dir) ELSE Append(Sealed(dir), dir.active),
              dir.active, <<>>)

Adopt(scan, known) ==
    [seq |-> scan.seq, prev |-> scan.prev, frontier |-> scan.frontier,
     sinceAnchor |-> scan.sinceAnchor, activeFirst |-> scan.activeFirst, known |-> known]

\* Mutated Resume: the boundary is not written again.
ResumeOnly(check) ==
    [scan |-> ScanChain(Sealed(dir), 0, check.retentions), carry |-> Nothing]

\* recoverFrom: where the log resumes without its active file, and the boundary to carry.
Resume(check) ==
    LET sealed == ScanChain(Sealed(dir), 0, check.retentions)
    IN  IF sealed.seq = 0 /\ check.retentions # <<>>
        THEN LET b == Last(check.retentions)
             IN  [scan |-> [sealed EXCEPT !.seq = b.seq, !.prev = b.hash, !.frontier = b.frontier,
                                          !.activeFirst = b.seq + 1],
                  carry |-> b]
        ELSE [scan |-> sealed, carry |-> sealed.carried]

Recoverable(check) ==
    /\ ~check.unreadable /\ check.broken = dir.active
    /\ ScanChain(Sealed(dir), 0, check.retentions).broken = 0

Startable == LET check == Scan IN check.broken = 0 \/ Recoverable(check)

-------------------------------------------------------------------------------
Moved(d) == dir' = d /\ undone' = undone \cup {dir}
Die == op' = Down /\ log' = Genesis
Rest == UNCHANGED <<tried, records>>

\* Where a call goes on: once the log knows its files, after the anchor, after a dropped line.
Ready ==
    CASE op.job = "start" -> "probe"
      [] op.kind = "prune" -> "select"
      [] OTHER -> "write"
AfterAnchor == IF op.job = "prune" THEN [op EXCEPT !.pc = "retain"] ELSE Idle
AfterDrop ==
    CASE op.kind = "pruned" -> [op EXCEPT !.pc = "unlink", !.carry = Nothing]
      [] op.kind = "anchor" -> AfterAnchor
      [] OTHER -> Idle
DropLine ==
    IF op.job = "start" THEN Die
    ELSE op' = AfterDrop /\ log' = [log EXCEPT !.known = FALSE]

\* adoptDisk, and the start: the log goes on from what the files hold.  A damaged active
\* file is moved aside, and the boundary that only it held is written again.
FromDisk ==
    LET check == Scan
        resume == Resume(check)
    IN  \/ check.broken = 0 /\ log' = Adopt(check, TRUE) /\ LogGoto(Ready) /\ Works /\ UNCHANGED files
        \/ check.broken # 0 /\ ~Recoverable(check) /\ DropLine /\ Works /\ UNCHANGED files
        \/ check.broken # 0 /\ Recoverable(check) /\ Fault("rename") /\ DropLine /\ UNCHANGED files
        \/ /\ check.broken # 0 /\ Recoverable(check) /\ Works
           /\ Moved([dir EXCEPT !.active = 0, !.corrupt = @ \cup {dir.active}])
           /\ log' = Adopt(resume.scan, TRUE)
           /\ op' = IF resume.carry = Nothing THEN [op EXCEPT !.pc = Ready]
                    ELSE [op EXCEPT !.pc = "append", !.carry = resume.carry, !.before = 0,
                                    !.created = TRUE]
           /\ UNCHANGED file

Start == op.pc = "down" /\ FromDisk /\ Rest

(* createAuditLog opens the active file, and syncs the directory if it is new. *)
Probe ==
    /\ op.pc = "probe"
    /\ IF dir.active # 0 THEN op' = Idle /\ UNCHANGED <<files, log, faults>>
       ELSE /\ file' = Append(file, [lines |-> <<>>, synced |-> 0])
            /\ dir' = [dir EXCEPT !.active = Len(file')]
            /\ \/ op' = Idle /\ undone' = {} /\ Works /\ UNCHANGED log
               \/ Die /\ undone' = undone \cup {dir} /\ Fault("sync")
    /\ Rest

(* record: a security event.                                                 *)
Record ==
    /\ op.pc = "idle" /\ tried < MaxTried
    /\ op' = [op EXCEPT !.pc = "ensure", !.job = "record", !.kind = "event"]
    /\ UNCHANGED <<files, log, tried, records, faults>>

(* ensureDisk.                                                               *)
Ensure ==
    /\ op.pc = "ensure"
    /\ IF log.known THEN LogGoto(Ready) /\ UNCHANGED <<files, log, faults>> ELSE FromDisk
    /\ Rest

Full ==
    LET n == Len(Lines(dir.active)) IN n > 0 /\ n + 1 > SegmentLines

ToAppend ==
    op' = [op EXCEPT !.pc = "append", !.before = Len(Lines(dir.active)),
                     !.created = dir.active = 0]

(* writeRecord, before it opens the file: a full active file is sealed.  An   *)
(* anchor is written only when it is due.                                    *)
Write ==
    /\ op.pc = "write"
    /\ \/ /\ op.kind = "anchor" /\ log.sinceAnchor < AnchorEvery
          /\ op' = AfterAnchor /\ Works /\ UNCHANGED <<files, log>>
       \/ /\ op.kind = "anchor" => log.sinceAnchor >= AnchorEvery
          /\ \/ ~Full /\ ToAppend /\ Works /\ UNCHANGED <<files, log>>
             \/ Full /\ Fault("rename") /\ ToAppend /\ UNCHANGED <<files, log>>
             \/ /\ Full /\ Works
                /\ Moved([dir EXCEPT !.active = 0,
                                     !.segments = @ \cup {[first |-> log.activeFirst, ino |-> dir.active]}])
                /\ log' = [log EXCEPT !.activeFirst = log.seq + 1, !.known = FALSE]
                /\ op' = [op EXCEPT !.pc = "sealSync", !.before = 0, !.created = TRUE]
                /\ UNCHANGED file
    /\ Rest

SyncDirectory == undone' = {} /\ UNCHANGED <<file, dir>>

(* A seal that cannot be synced is only reported.                             *)
SealSync ==
    /\ op.pc = "sealSync"
    /\ \/ SyncDirectory /\ Works
       \/ Fault("sync") /\ UNCHANGED files
    /\ LogGoto("append") /\ UNCHANGED log /\ Rest

Carrying == op.carry # Nothing
NewLine ==
    [kind |-> IF Carrying THEN "pruned" ELSE op.kind,
     seq |-> log.seq + 1, hash |-> tried + 1, prev |-> log.prev,
     of |-> CASE Carrying -> op.carry
              [] ~Carrying /\ op.kind = "anchor" ->
                     [seq |-> log.seq, hash |-> 0, frontier |-> log.frontier]
              [] OTHER -> op.of]

PutLine(line) ==
    IF dir.active = 0
    THEN /\ file' = Append(file, [lines |-> <<line>>, synced |-> 0])
         /\ Moved([dir EXCEPT !.active = Len(file) + 1])
    ELSE /\ file' = [file EXCEPT ![dir.active].lines = Append(@, line)]
         /\ UNCHANGED <<dir, undone>>

(* The line is written; or a part of it, or nothing; or the process dies at it. *)
AppendLine ==
    /\ op.pc = "append"
    /\ tried' = tried + 1
    /\ \/ PutLine(NewLine) /\ LogGoto("fsync") /\ Works /\ UNCHANGED log
       \/ PutLine(Torn) /\ LogGoto("rollback") /\ Fault("write") /\ UNCHANGED log
       \/ LogGoto("rollback") /\ Fault("write") /\ UNCHANGED <<files, log>>
       \/ PutLine(Torn) /\ Die /\ Fault(IF Carrying THEN "recovery" ELSE "crash")
    /\ UNCHANGED records

(* The line is durable: the state follows, the record is streamed.            *)
Acknowledge ==
    /\ log' = [log EXCEPT !.seq = @ + 1, !.prev = tried, !.frontier = Append(@, tried),
                          !.sinceAnchor = IF op.kind = "anchor" /\ ~Carrying THEN 0 ELSE @ + 1,
                          !.known = TRUE]
    /\ records' = IF Carrying THEN records ELSE [records EXCEPT !.acked = @ \cup {tried}]
    /\ op' = CASE Carrying -> [op EXCEPT !.pc = Ready, !.carry = Nothing]
               [] ~Carrying /\ op.kind = "anchor" -> AfterAnchor
               [] ~Carrying /\ op.kind = "event" -> [op EXCEPT !.pc = "write", !.kind = "anchor"]
               [] ~Carrying /\ op.kind = "pruned" ->
                      [op EXCEPT !.pc = "write", !.kind = "anchor", !.of = Nothing,
                                 !.todo = Tail(@), !.named = Append(@, Head(op.todo))]

\* Mutated Fsync: the directory of a new file is not synced.
FsyncFileOnly ==
    /\ op.pc = "fsync" /\ Works
    /\ file' = [file EXCEPT ![dir.active].synced = Len(Lines(dir.active))]
    /\ Acknowledge
    /\ UNCHANGED <<dir, undone, tried>>

Fsync ==
    /\ op.pc = "fsync"
    /\ \/ /\ Works
          /\ file' = [file EXCEPT ![dir.active].synced = Len(Lines(dir.active))]
          /\ IF op.created THEN LogGoto("dirSync") /\ UNCHANGED <<log, records>> ELSE Acknowledge
       \/ Fault("sync") /\ LogGoto("rollback") /\ UNCHANGED <<file, log, records>>
    /\ UNCHANGED <<dir, undone, tried>>

(* The directory of a file that the append created.                           *)
DirSync ==
    /\ op.pc = "dirSync"
    /\ \/ SyncDirectory /\ Works /\ Acknowledge
       \/ Fault("sync") /\ LogGoto("rollback") /\ UNCHANGED <<files, log, records>>
    /\ UNCHANGED tried

Truncate(f, n) == [lines |-> SubSeq(f.lines, 1, n), synced |-> IF f.synced > n THEN n ELSE f.synced]

\* Mutated Rollback: what was written stays.
RollbackNothing ==
    /\ op.pc = "rollback" /\ ~Carrying
    /\ op' = AfterDrop /\ log' = [log EXCEPT !.known = TRUE]
    /\ UNCHANGED <<files, tried, records, faults>>

(* An append that failed is taken back; the line is dropped.                  *)
Rollback ==
    /\ op.pc = "rollback" /\ ~Carrying
    /\ \/ /\ dir.active # 0 /\ Works
          /\ file' = [file EXCEPT ![dir.active] = Truncate(@, op.before)]
          /\ op' = AfterDrop /\ log' = [log EXCEPT !.known = TRUE]
       \/ /\ \/ dir.active = 0 /\ Works
             \/ Fault("truncate")
          /\ DropLine /\ UNCHANGED file
    /\ UNCHANGED <<dir, undone>> /\ Rest

(* A boundary that cannot be carried is taken back, and the damaged file goes  *)
(* back over it.                                                             *)
PutBack ==
    /\ op.pc = "rollback" /\ Carrying
    /\ file' = IF dir.active = 0 THEN file ELSE [file EXCEPT ![dir.active] = Truncate(@, op.before)]
    /\ \/ /\ Works
          /\ LET ino == Max(dir.corrupt)
             IN  Moved([dir EXCEPT !.active = ino, !.corrupt = @ \ {ino}])
       \/ Fault("recovery") /\ UNCHANGED <<dir, undone>>
    /\ DropLine /\ Rest

-------------------------------------------------------------------------------
(* The hourly sweep.                                                         *)
PruneSegments ==
    /\ op.pc = "idle" /\ tried < MaxTried /\ dir.segments # {}
    /\ op' = [op EXCEPT !.pc = "ensure", !.job = "prune", !.kind = "prune"]
    /\ UNCHANGED <<files, log, tried, records, faults>>

(* The segments that are old enough: the first ones of a chain that verifies. *)
Select ==
    /\ op.pc = "select"
    /\ LET check == Scan
           segments == Sealed(dir)
           BoundaryOf(ino) ==
               LET line == Last(Lines(ino))
               IN  [seq |-> line.seq, hash |-> line.hash,
                    frontier |-> SubSeq(check.frontier, 1, line.seq)]
       IN  IF check.broken # 0 THEN op' = Idle
           ELSE \E n \in 0..Len(segments) :
                   op' = [op EXCEPT !.pc = "retain",
                                    !.todo = [i \in 1..n |-> [ino |-> segments[i],
                                                              of |-> BoundaryOf(segments[i])]]]
    /\ UNCHANGED <<files, log, tried, records, faults>>

(* retain, for each of them.                                                 *)
Retain ==
    /\ op.pc = "retain"
    /\ op' = IF op.todo = <<>> THEN [op EXCEPT !.pc = "unlink"]
             ELSE [op EXCEPT !.pc = "ensure", !.kind = "pruned", !.of = Head(op.todo).of]
    /\ UNCHANGED <<files, log, tried, records, faults>>

(* Those with a record are deleted, the oldest first.                         *)
Unlink ==
    /\ op.pc = "unlink"
    /\ \/ op.named = <<>> /\ op' = Idle /\ UNCHANGED <<files, records, faults>>
       \/ op.named # <<>> /\ Fault("unlink") /\ op' = Idle /\ UNCHANGED <<files, records>>
       \/ /\ op.named # <<>> /\ Works
          /\ LET ino == Head(op.named).ino
             IN  /\ Moved([dir EXCEPT !.segments = {x \in @ : x.ino # ino}])
                 /\ records' = [records EXCEPT !.deleted = @ \cup {line.hash : line \in ToSet(Lines(ino))}]
          /\ LogGoto("unlinkSync") /\ UNCHANGED file
    /\ UNCHANGED <<log, tried>>

UnlinkSync ==
    /\ op.pc = "unlinkSync"
    /\ \/ SyncDirectory /\ Works /\ op' = [op EXCEPT !.pc = "unlink", !.named = Tail(@)]
       \/ Fault("sync") /\ op' = Idle /\ UNCHANGED files
    /\ UNCHANGED <<log, tried, records>>

-------------------------------------------------------------------------------
Dies(kind) == op.pc # "down" /\ Die /\ Fault(IF Carrying THEN "recovery" ELSE kind) /\ Rest

LogCrash == Dies("crash") /\ UNCHANGED files

(* What was not synced is lost, or torn, or is there; a rename, a creation or  *)
(* a deletion is undone together with those after it.                         *)
PowerLoss ==
    /\ Dies("power")
    /\ \E after \in {"all", "torn", "synced"} :
          file' = [i \in DOMAIN file |->
              LET f == file[i]
                  lines == IF after = "all" \/ f.synced = Len(f.lines) THEN f.lines
                           ELSE SubSeq(f.lines, 1, f.synced)
                                    \o IF after = "torn" THEN <<Torn>> ELSE <<>>
              IN  [lines |-> lines, synced |-> Len(lines)]]
    /\ dir' \in undone \cup {dir}
    /\ undone' = {}

LogNext ==
    \/ Start \/ Probe \/ Record \/ Ensure \/ Write \/ SealSync \/ AppendLine \/ Fsync \/ DirSync
    \/ Rollback \/ PutBack \/ PruneSegments \/ Select \/ Retain \/ Unlink \/ UnlinkSync
    \/ LogCrash \/ PowerLoss

LogSpec == LogInit /\ [][LogNext]_logVars
-------------------------------------------------------------------------------
Linked == {dir.active} \cup {x.ino : x \in dir.segments} \cup dir.corrupt
HashesIn(inos) == UNION {{line.hash : line \in ToSet(Lines(i))} : i \in inos}

(* The faults after which a line, or the name of a new file, may be unsynced.   *)
Unsynced == {"crash", "write", "sync", "truncate"}

(* No power is lost where such a fault comes with it, and no recovery is        *)
(* interrupted.                                                              *)
LossesApart ==
    \A t \in Troubles : "recovery" \notin t /\ ("power" \in t => t \cap Unsynced = {})

(* A record that was acknowledged is in the chain, or in a copy of a damaged   *)
(* file, until the segment it is in is old enough to be deleted, whatever     *)
(* fails, dies or loses power.                                               *)
AckedKept == records.acked \subseteq records.deleted \cup HashesIn(Linked)

(* Whenever the log believes that it knows its files, they verify and end at   *)
(* its head, with the frontier its next anchor is made of.                   *)
KnowsItsFiles ==
    (op.pc = "idle" /\ log.known) =>
        LET scan == Scan
        IN  /\ scan.broken = 0
            /\ <<log.seq, log.prev, log.frontier, log.activeFirst>>
                  = <<scan.seq, scan.prev, scan.frontier, scan.activeFirst>>

(* "A crash at any point leaves a directory that verifies on restart": the    *)
(* next process finds a chain, or a damaged active file that it can do        *)
(* without.                                                                 *)
StartsAgain == op.pc = "down" => Startable
===============================================================================
