---------------------------- MODULE NexusLedger ----------------------------
(***************************************************************************)
(* The ledger of the Nexus supervisor (nexus/ledger.py) as its writers use  *)
(* it (nexus/checkpoint_engine.py, nexus/supervisor.py): save a checkpoint  *)
(* file, then append a frame that names it.  The threads of one process     *)
(* share a ledger object; os.write may write less than it was given or      *)
(* fail, the process may be killed, the machine may lose power.             *)
(*                                                                          *)
(* A record is written as three parts: the first half of its JSON text, the *)
(* second half, the newline.  No two records have the same hash, so a frame *)
(* stands for its hash, and 0 for the hash before the first record.         *)
(***************************************************************************)
EXTENDS Naturals, Sequences, FiniteSets

CONSTANTS Thread,
          Nobody,      \* the owner of a free lock
          MaxFrames,   \* bound: frames and checkpoints created
          MaxCrashes   \* bound: kills and power losses

ASSUME LedgerAssumption == /\ Nobody \notin Thread
                           /\ MaxFrames \in Nat /\ MaxCrashes \in Nat

Frame == 1 .. MaxFrames
Part == 1 .. 3
NewLine == 3

VARIABLES file,     \* the ledger: a sequence of parts of records
          synced,   \* how many of them survive a power loss
          visible,  \* checkpoints whose file has its final name
          kept,     \* those whose directory entry survives a power loss
          pc, cur,  \* per thread: the next step, the frame it creates
          next_part,  \* per thread: the first part not written yet
          lock,     \* _lock
          created,  \* frames created so far
          prev, parent,  \* per frame: previous_record_hash, parent_uuid
          acked,    \* history: frames whose append_frame returned
          ignored,  \* history: checkpoints whose directory was not fsynced
          crashes

fileVars   == <<file, synced>>
ckptVars   == <<visible, kept>>
threadVars == <<pc, cur, next_part, lock>>
frameVars  == <<created, prev, parent, acked, ignored>>
vars == <<fileVars, ckptVars, threadVars, frameVars, crashes>>

Init == /\ file = <<>> /\ synced = 0 /\ visible = {} /\ kept = {}
        /\ pc = [t \in Thread |-> "idle"] /\ cur = [t \in Thread |-> 0]
        /\ next_part = [t \in Thread |-> 1] /\ lock = Nobody
        /\ created = 0 /\ acked = {} /\ ignored = {} /\ crashes = 0
        /\ prev = [f \in Frame |-> 0] /\ parent = [f \in Frame |-> 0]
-----------------------------------------------------------------------------
(* How the file is read: split at newlines; a line is a record when it is   *)
(* the two halves of one.  A line is named by the position it starts at.    *)
Lines == {i \in DOMAIN file : i = 1 \/ file[i - 1].part = NewLine}

Good(i) == /\ i + 1 \in DOMAIN file
           /\ file[i].part = 1 /\ file[i + 1] = [file[i] EXCEPT !.part = 2]
           /\ i + 2 \in DOMAIN file => file[i + 2].part = NewLine

LastLine == CHOOSE i \in Lines : \A j \in Lines : j <= i
TailHash == IF file = <<>> THEN 0 ELSE file[LastLine].frame
TailGood == \A i \in Lines : (\A j \in Lines : j <= i) => Good(i)

(* iter_frames yields records until it raises at the first bad line.        *)
Readable == {file[i].frame : i \in {j \in Lines : \A k \in Lines : k <= j => Good(k)}}

(* The lines verify goes through, and the hash that precedes each.          *)
Previous(i) == IF i = 1 THEN 0
               ELSE file[CHOOSE j \in Lines : j < i /\ \A k \in Lines : k < i => k <= j].frame

VerifyOk == \A i \in Lines : /\ Good(i)
                             /\ prev[file[i].frame] = Previous(i)
                             /\ parent[file[i].frame] \in {0} \cup Readable
-----------------------------------------------------------------------------
(* symbolic_drift_checkpoint_engine looks the parent up in the ledger; the  *)
(* supervisor's decision frame takes one whose append returned.  Then       *)
(* save_checkpoint writes and fsyncs a temporary file.                      *)
Begin(t) ==
  /\ pc[t] = "idle" /\ created < MaxFrames
  /\ created' = created + 1
  /\ cur' = [cur EXCEPT ![t] = created']
  /\ \E p \in {0} \cup Readable \cup acked : parent' = [parent EXCEPT ![created'] = p]
  /\ pc' = [pc EXCEPT ![t] = "replace"]
  /\ UNCHANGED <<fileVars, ckptVars, next_part, lock, prev, acked, ignored, crashes>>

Replace(t) ==
  /\ pc[t] = "replace"
  /\ visible' = visible \cup {cur[t]}
  /\ pc' = [pc EXCEPT ![t] = "dir_fsync"]
  /\ UNCHANGED <<fileVars, kept, cur, next_part, lock, frameVars, crashes>>

(* Writing the temporary file raises.                                       *)
SaveFails(t) ==
  /\ pc[t] = "replace"
  /\ pc' = [pc EXCEPT ![t] = "idle"]
  /\ UNCHANGED <<fileVars, ckptVars, cur, next_part, lock, frameVars, crashes>>

(* Mutant: the directory is not fsynced.                                    *)
SyncDir_Skipped(t) ==
  /\ pc[t] = "dir_fsync"
  /\ pc' = [pc EXCEPT ![t] = "append"]
  /\ UNCHANGED <<fileVars, ckptVars, cur, next_part, lock, frameVars, crashes>>

(* The directory's fsync is best effort: an OSError is ignored.             *)
SyncDir(t) ==
  /\ pc[t] = "dir_fsync"
  /\ \/ kept' = visible /\ UNCHANGED ignored
     \/ ignored' = ignored \cup {cur[t]} /\ UNCHANGED kept
  /\ pc' = [pc EXCEPT ![t] = "append"]
  /\ UNCHANGED <<fileVars, visible, cur, next_part, lock, created, prev, parent, acked,
                 crashes>>

(* Mutants: a corrupt tail is overlooked; the lock is not taken.            *)
ReadTail_NoRefusal(t) ==
  /\ pc[t] = "append" /\ lock = Nobody
  /\ lock' = t
  /\ prev' = [prev EXCEPT ![cur[t]] = TailHash]
  /\ pc' = [pc EXCEPT ![t] = "write"]
  /\ UNCHANGED <<fileVars, ckptVars, cur, next_part, created, parent, acked, ignored, crashes>>

ReadTail_NoLock(t) ==
  /\ pc[t] = "append"
  /\ TailGood
  /\ prev' = [prev EXCEPT ![cur[t]] = TailHash]
  /\ pc' = [pc EXCEPT ![t] = "write"]
  /\ UNCHANGED <<fileVars, ckptVars, cur, next_part, lock, created, parent, acked, ignored, crashes>>

(* append_frame, under the lock: _last_record_hash.                         *)
ReadTail(t) ==
  /\ pc[t] = "append" /\ lock = Nobody
  /\ TailGood
  /\ lock' = t
  /\ prev' = [prev EXCEPT ![cur[t]] = TailHash]
  /\ pc' = [pc EXCEPT ![t] = "write"]
  /\ UNCHANGED <<fileVars, ckptVars, cur, next_part, created, parent, acked, ignored, crashes>>

(* "ledger tail is corrupt; refusing to append"                             *)
Refuse(t) ==
  /\ pc[t] = "append" /\ lock = Nobody
  /\ ~TailGood
  /\ pc' = [pc EXCEPT ![t] = "idle"]
  /\ UNCHANGED <<fileVars, ckptVars, cur, next_part, lock, frameVars, crashes>>

(* One os.write of the loop, as far as it gets.                             *)
Write(t) ==
  /\ pc[t] = "write" /\ next_part[t] <= NewLine
  /\ \E last \in next_part[t] .. NewLine :
       /\ file' = file \o [i \in 1 .. last + 1 - next_part[t] |->
                             [frame |-> cur[t], part |-> next_part[t] + i - 1]]
       /\ next_part' = [next_part EXCEPT ![t] = last + 1]
  /\ UNCHANGED <<synced, ckptVars, pc, cur, lock, frameVars, crashes>>

(* Mutant: the lock is kept when an exception leaves append_frame.          *)
WriteFails_KeepsLock(t) ==
  /\ pc[t] = "write"
  /\ pc' = [pc EXCEPT ![t] = "idle"]
  /\ next_part' = [next_part EXCEPT ![t] = 1]
  /\ UNCHANGED <<fileVars, ckptVars, cur, lock, frameVars, crashes>>

(* os.write or os.fsync raises (no space): what was written stays.          *)
WriteFails(t) ==
  /\ pc[t] = "write"
  /\ pc' = [pc EXCEPT ![t] = "idle"]
  /\ next_part' = [next_part EXCEPT ![t] = 1]
  /\ lock' = Nobody
  /\ UNCHANGED <<fileVars, ckptVars, cur, frameVars, crashes>>

(* Mutant: append_frame returns without fsync.                              *)
Sync_Skipped(t) ==
  /\ pc[t] = "write" /\ next_part[t] > NewLine
  /\ acked' = acked \cup {cur[t]}
  /\ lock' = Nobody
  /\ next_part' = [next_part EXCEPT ![t] = 1]
  /\ pc' = [pc EXCEPT ![t] = "idle"]
  /\ UNCHANGED <<fileVars, ckptVars, cur, created, prev, parent, ignored, crashes>>

(* os.fsync, and append_frame returns.                                      *)
Sync(t) ==
  /\ pc[t] = "write" /\ next_part[t] > NewLine
  /\ synced' = Len(file)
  /\ acked' = acked \cup {cur[t]}
  /\ lock' = Nobody
  /\ next_part' = [next_part EXCEPT ![t] = 1]
  /\ pc' = [pc EXCEPT ![t] = "idle"]
  /\ UNCHANGED <<file, ckptVars, cur, created, prev, parent, ignored, crashes>>

Restart == /\ crashes < MaxCrashes /\ crashes' = crashes + 1
           /\ pc' = [t \in Thread |-> "idle"] /\ cur' = [t \in Thread |-> 0]
           /\ next_part' = [t \in Thread |-> 1] /\ lock' = Nobody
           /\ UNCHANGED frameVars

Kill == Restart /\ UNCHANGED <<fileVars, ckptVars>>

(* What was not fsynced survives in part: a prefix of the file, any of the  *)
(* renames.                                                                 *)
PowerLoss ==
  /\ Restart
  /\ \E n \in synced .. Len(file) : file' = SubSeq(file, 1, n) /\ synced' = n
  /\ \E lost \in SUBSET (visible \ kept) : visible' = visible \ lost /\ kept' = visible'

Step(t) == \/ Begin(t) \/ Replace(t) \/ SaveFails(t) \/ SyncDir(t) \/ ReadTail(t)
           \/ Refuse(t) \/ Write(t) \/ WriteFails(t) \/ Sync(t)

Next == (\E t \in Thread : Step(t)) \/ Kill \/ PowerLoss

(* Every thread inside a call goes on; the lock is handed on fairly.  No    *)
(* thread has to start another call.                                        *)
Spec == /\ Init /\ [][Next]_vars
        /\ \A t \in Thread : /\ WF_vars(Step(t) /\ pc[t] # "idle")
                             /\ SF_vars(ReadTail(t) \/ Refuse(t))
-----------------------------------------------------------------------------
(* Type invariant: one thread at a time is between reading the tail and the *)
(* end of its append.                                                       *)
TypeOK ==
  /\ file \in Seq([frame : Frame, part : Part]) /\ synced \in 0 .. Len(file)
  /\ kept \subseteq visible /\ visible \subseteq Frame
  /\ pc \in [Thread -> {"idle", "replace", "dir_fsync", "append", "write"}]
  /\ cur \in [Thread -> 0 .. MaxFrames] /\ next_part \in [Thread -> 1 .. NewLine + 1]
  /\ \A t \in Thread : pc[t] = "write" <=> lock = t
  /\ created \in 0 .. MaxFrames /\ acked \cup ignored \subseteq Frame
  /\ prev \in [Frame -> 0 .. MaxFrames] /\ parent \in [Frame -> 0 .. MaxFrames]
  /\ crashes \in 0 .. MaxCrashes

(* ledger.py, "refusing to append": short writes, failed writes, kills and  *)
(* power losses damage the last line at most, so that every other record    *)
(* stays readable and the damage is where the next append looks for it.     *)
OnlyTailBad == \A i, j \in Lines : i < j => Good(i)

(* "Writes are serialized within the process": threads that append at the   *)
(* same time, with crashes in between, never fork or break the chain, nor   *)
(* refer to a parent that is gone: verify complains about a bad tail only.  *)
VerifyFailsOnTailOnly == TailGood => VerifyOk

(* checkpoint_engine.py: never a ledger entry that points to a checkpoint   *)
(* which was not durably written first, unless the fsync of the directory   *)
(* was the step that failed.                                                *)
CheckpointFirst == Readable \ ignored \subseteq visible

(* A frame whose append returned stays readable, whatever happens to the    *)
(* process and the machine later.  The exception is a frame appended right  *)
(* behind a record that lost its newline and nothing else: that tail is a   *)
(* valid record, so the append is not refused, and the two share a line.    *)
Joined(f) == \E i \in DOMAIN file : /\ i > 1 /\ file[i] = [frame |-> f, part |-> 1]
                                    /\ file[i - 1].part = 2

AckedReadable == \A f \in acked : f \in Readable \/ Joined(f)

(* symbolic_drift_checkpoint_engine: "persist a checkpoint, and append an   *)
(* immutable frame", without that exception.                                *)
FramesStay == acked \subseteq Readable

(* "Append-only JSONL DAG ledger": of the frames whose append returned, each *)
(* was appended behind all before it, and no thread, failure or crash later *)
(* moves it or changes the hash and the parent it refers to, although the   *)
(* file around it is cut and torn.                                          *)
Place(f) == CHOOSE i \in DOMAIN file :
              file[i].frame = f /\ \A j \in DOMAIN file : file[j].frame = f => i <= j
Confirmed == {[frame |-> f, place |-> Place(f), previous |-> prev[f], parent |-> parent[f]]
               : f \in acked}
Ledger == INSTANCE AppendOnlyLog WITH log <- Confirmed
ImplementsLog == Ledger!Spec

(* Every call returns, with a result or an exception, although threads      *)
(* compete for the lock and writes fail while it is held.                   *)
CallsReturn == \A t \in Thread : pc[t] # "idle" ~> pc[t] = "idle"
=============================================================================
