------------------------ MODULE SessionJournalProofs ------------------------
(***************************************************************************)
(* For any entries, batches, failures and crashes: what was reported as    *)
(* written is in the file from then on, a rejected batch stays out, and    *)
(* the flags tell the truth.  A title write that fails after its epoch has *)
(* passed is excluded (LateTitleFails); with it the theorem is false.      *)
(*                                                                         *)
(* The argument is about the present epoch.  Only one task of it runs at a *)
(* time, behind a raised fence and with no writer open; what it has        *)
(* serialized holds all that was acknowledged, and whatever is recorded    *)
(* after that makes it superseded, or dirty, or is a title with a task of  *)
(* its own.  Tasks of earlier epochs no longer touch the file.             *)
(***************************************************************************)
EXTENDS SessionJournal, SequenceTheorems, TLAPS

Ents         == RangeOf(entries)
InTime(i)    == tasks[i].epoch = diskEpoch
Over(i)      == tasks[i].pc \in {"free", "done"}
Rewriting(i) == tasks[i].pc \in {"closing", "writing", "written"}
Active(i)    == tasks[i].pc = "titling" \/ Rewriting(i)
Repairing    == repair.at # "none" /\ repair.epoch = diskEpoch

-----------------------------------------------------------------------------
(* The chain.                                                              *)

(* Who was scheduled belongs to an epoch, and is free no more. *)
EpochsPast ==
    /\ \A i \in Tasks : /\ tasks[i].epoch <= diskEpoch
                        /\ Over(i) <=> tasks[i].epoch = 0
                        /\ ~Over(i) => tasks[i].kind # "none"
                        /\ tasks[i].kind = "title" => tasks[i].entry \in Titles
                        /\ tasks[i].pc = "titling" => tasks[i].kind = "title"
    /\ \A i, j \in Tasks : i < j /\ tasks[i].pc = "free" => tasks[j].pc = "free"
    /\ repair.epoch <= diskEpoch

(* Nothing of the present epoch is left once the manager is released. *)
ReleasedIsOver == released => ~Repairing /\ \A i \in Tasks : ~InTime(i)

(* The tasks of the present epoch run one at a time, in their order, and   *)
(* the tail stands behind all of them.                                     *)
InOrder ==
    /\ \A i \in Tasks : InTime(i) => diskTail # 0 /\ InTime(diskTail) /\ i <= diskTail
    /\ \A i, j \in Tasks : InTime(i) /\ InTime(j) /\ i # j /\ Active(i) =>
         i < j /\ tasks[j].pc = "queued"
    /\ \A i, j \in Tasks : InTime(i) /\ InTime(j) /\ j < i /\ tasks[i].pc = "queued" =>
         tasks[i].after # 0 /\ InTime(tasks[i].after) /\ j <= tasks[i].after

-----------------------------------------------------------------------------
(* The fence.                                                              *)

(* Behind the fence of the present epoch no writer is open. *)
FenceHolds ==
    /\ writer # "detached"
    /\ \A i \in Tasks : InTime(i) /\ Rewriting(i) => fence = diskEpoch /\ writer = "none"

(* A repair has latched a failure, so that no task starts while it runs. *)
RepairAlone ==
    /\ batch.at = "committing" => repair.at = "none"
    /\ Repairing => /\ diskFailure /\ fence = diskEpoch /\ writer = "none" /\ forceFileCreation
                    /\ \A i \in Tasks : InTime(i) => ~Active(i)

-----------------------------------------------------------------------------
(* The file.                                                               *)

(* What was acknowledged is recorded, and whatever is about to replace the *)
(* file has it.                                                            *)
AckedKept ==
    /\ acked \subseteq OnDisk /\ (~released => acked \subseteq Ents)
    /\ batch.at = "committing" => acked \cap RangeOf(Staged) = {}
    /\ \A i \in Tasks : InTime(i) /\ tasks[i].pc = "writing" => acked \subseteq RangeOf(tasks[i].body)
    /\ Repairing /\ repair.at = "writing" => acked \subseteq RangeOf(repair.body)

(* What a rewrite has serialized is all but titles there is, or it is      *)
(* dirty; and then the flags say that the file is not current.             *)
Unknown == unmarked /\ batch.at # "committing"
BodyIsCurrent ==
    \A i \in Tasks : InTime(i) =>
        /\ Rewriting(i) /\ dirty => rewriteRequired
        /\ tasks[i].pc = "writing" =>
             Unknown \/ dirty \/ Ents \ Titles \subseteq RangeOf(tasks[i].body)
        /\ tasks[i].pc = "written" => Unknown \/ dirty \/ Ents \ Titles \subseteq OnDisk
RepairIsCurrent ==
    Repairing => /\ repair.at = "writing" => dirty \/ Ents \subseteq RangeOf(repair.body)
                 /\ repair.at = "written" => dirty \/ Ents \subseteq OnDisk

(* The flags, but for what a failure is latched for. *)
FileIsCurrent ==
    /\ fileIsCurrent => disk # NoFile
    /\ fileIsCurrent /\ ~rewriteRequired /\ (~diskFailure \/ batch.at = "committing") =>
         Unknown \/ Ents \ Titles \subseteq OnDisk
    /\ \A i \in Tasks : InTime(i) /\ tasks[i].kind = "title" =>
         (fileIsCurrent \/ rewriteRequired) /\ disk # NoFile
    /\ \A i \in Tasks : InTime(i) /\ tasks[i].pc = "written" => disk # NoFile
    /\ Repairing /\ repair.at = "written" => disk # NoFile

(* A file is wanted where one is current or being written. *)
FileIsWanted ==
    ~released /\ (fileIsCurrent \/ \E i \in Tasks : InTime(i)) =>
        forceFileCreation \/ Ents \cap Assistants # {}

(* A title that is not in the file is still to be written by a task.       *)
WillWrite(i, t) ==
    /\ InTime(i)
    /\ \/ tasks[i].pc = "queued" /\ (tasks[i].kind = "rewrite" \/ tasks[i].entry = t)
       \/ tasks[i].pc = "closing"
       \/ tasks[i].pc = "writing" /\ t \in RangeOf(tasks[i].body)
TitlesDue ==
    \A t \in Titles \cap Ents :
        /\ Current /\ ~rewriteRequired /\ ~released =>
             t \in OnDisk \/ \E i \in Tasks : WillWrite(i, t)
        /\ \A i \in Tasks : InTime(i) =>
             /\ tasks[i].pc = "writing" =>
                  t \in RangeOf(tasks[i].body) \/ \E j \in Tasks \ {i} : WillWrite(j, t)
             /\ tasks[i].pc = "written" =>
                  t \in OnDisk \/ \E j \in Tasks \ {i} : WillWrite(j, t)

-----------------------------------------------------------------------------
(* The batch.                                                              *)

(* Its entries are where they were staged, and nowhere else. *)
BatchPlaced ==
    batch.at = "committing" /\ (entries # <<>> \/ ~released) =>
        /\ batch.from + Len(Staged) <= Len(entries)
        /\ \A k \in 1..Len(entries) :
             entries[k] \in RangeOf(Staged) <=> k \in (batch.from + 1)..(batch.from + Len(Staged))

(* Once it was rolled back they are in nothing that is or will be written; *)
(* nor are those of a batch that was rejected for good.                    *)
Without(S) ==
    /\ S \cap Ents = {}
    /\ Repairing /\ repair.at = "writing" => S \cap RangeOf(repair.body) = {}
RolledBack ==
    batch.at = "repairing" => /\ Without(RangeOf(Staged))
                              /\ Repairing /\ repair.at = "written" => RangeOf(Staged) \cap OnDisk = {}
RejectedIsOut ==
    /\ Without(rejected) /\ rejected \cap OnDisk = {}
    /\ \A i \in Tasks : InTime(i) /\ tasks[i].pc = "writing" =>
         rejected \cap RangeOf(tasks[i].body) = {}

JournalIInv ==
    /\ TypeOK /\ EpochsPast /\ ReleasedIsOver /\ InOrder /\ FenceHolds /\ RepairAlone
    /\ AckedKept /\ BodyIsCurrent /\ RepairIsCurrent /\ FileIsCurrent /\ FileIsWanted /\ TitlesDue
    /\ BatchPlaced /\ RolledBack /\ RejectedIsOut

-----------------------------------------------------------------------------
(* Sequences as sets of what is in them.                                   *)

LEMMA RangeTyped ==
  ASSUME NEW S, NEW s \in Seq(S)
  PROVE  /\ RangeOf(s) \subseteq S /\ RangeOf(s) = {s[k] : k \in 1..Len(s)} /\ Len(s) \in Nat
         /\ \A k \in 1..Len(s) : s[k] \in S /\ s[k] \in RangeOf(s)
  BY DEF RangeOf

LEMMA RangeEmpty == RangeOf(<<>>) = {}
  BY DEF RangeOf

LEMMA RangeAppend ==
  ASSUME NEW S, NEW s \in Seq(S), NEW e \in S
  PROVE  /\ Append(s, e) \in Seq(S) /\ RangeOf(Append(s, e)) = RangeOf(s) \cup {e}
         /\ Len(Append(s, e)) = Len(s) + 1 /\ Append(s, e) # <<>>
  <1>1. /\ Append(s, e) \in Seq(S) /\ Len(Append(s, e)) = Len(s) + 1 /\ Len(s) \in Nat
        /\ Append(s, e)[Len(s) + 1] = e /\ \A k \in 1..Len(s) : Append(s, e)[k] = s[k]
    OBVIOUS
  <1>2. 1..(Len(s) + 1) = 1..Len(s) \cup {Len(s) + 1} /\ Append(s, e) # <<>>
    BY <1>1
  <1>3. RangeOf(Append(s, e)) = {Append(s, e)[k] : k \in 1..(Len(s) + 1)}
    BY <1>1, RangeTyped
  <1>4. RangeOf(s) = {s[k] : k \in 1..Len(s)}
    BY RangeTyped
  <1> QED
    BY <1>1, <1>2, <1>3, <1>4

LEMMA RangeConcat ==
  ASSUME NEW S, NEW s \in Seq(S), NEW t \in Seq(S)
  PROVE  /\ s \o t \in Seq(S) /\ RangeOf(s \o t) = RangeOf(s) \cup RangeOf(t)
         /\ Len(s \o t) = Len(s) + Len(t)
         /\ \A k \in 1..Len(s) : (s \o t)[k] = s[k]
         /\ \A k \in 1..Len(t) : (s \o t)[Len(s) + k] = t[k]
  <1>1. /\ s \o t \in Seq(S) /\ Len(s \o t) = Len(s) + Len(t) /\ Len(s) \in Nat /\ Len(t) \in Nat
        /\ \A k \in 1..Len(s) : (s \o t)[k] = s[k]
    OBVIOUS
  <1>2. ASSUME NEW k \in 1..Len(t) PROVE (s \o t)[Len(s) + k] = t[k]
    <2>1. Len(s) + k \in 1..(Len(s) + Len(t)) /\ Len(s) + k > Len(s)
      BY <1>1
    <2> QED
      BY <1>1, <2>1
  <1>3. \A k \in 1..(Len(s) + Len(t)) : k \in 1..Len(s) \/ k - Len(s) \in 1..Len(t)
    BY <1>1
  <1>4. \A k \in 1..(Len(s) + Len(t)) :
          \/ (s \o t)[k] = s[k] /\ k \in 1..Len(s)
          \/ k - Len(s) \in 1..Len(t) /\ (s \o t)[k] = t[k - Len(s)]
    <2> SUFFICES ASSUME NEW k \in 1..(Len(s) + Len(t)), k \notin 1..Len(s)
                 PROVE  k - Len(s) \in 1..Len(t) /\ (s \o t)[k] = t[k - Len(s)]
      BY <1>1
    <2>1. k - Len(s) \in 1..Len(t) /\ Len(s) + (k - Len(s)) = k
      BY <1>1, <1>3
    <2> QED
      BY <1>2, <2>1
  <1>5. \A k \in 1..Len(s) : k \in 1..(Len(s) + Len(t))
    BY <1>1
  <1>6. \A k \in 1..Len(t) : Len(s) + k \in 1..(Len(s) + Len(t))
    BY <1>1
  <1>7. /\ RangeOf(s \o t) = {(s \o t)[k] : k \in 1..(Len(s) + Len(t))}
        /\ RangeOf(s) = {s[k] : k \in 1..Len(s)} /\ RangeOf(t) = {t[k] : k \in 1..Len(t)}
    BY <1>1, RangeTyped
  <1>8. RangeOf(s \o t) \subseteq RangeOf(s) \cup RangeOf(t)
    BY <1>4, <1>7
  <1>9. RangeOf(s) \subseteq RangeOf(s \o t)
    BY <1>1, <1>5, <1>7
  <1>10. RangeOf(t) \subseteq RangeOf(s \o t)
    BY <1>2, <1>6, <1>7
  <1> QED
    BY <1>1, <1>2, <1>8, <1>9, <1>10

(* The constants, and the numbers of a typed state. *)
LEMMA Constants ==
  /\ Staged \in Seq(Entries) /\ Len(Staged) \in Nat /\ RangeOf(Staged) \subseteq Entries
  /\ Messages \subseteq Entries /\ Titles \subseteq Entries /\ Assistants \subseteq Messages
  /\ Messages \cap Titles = {} /\ (Messages \cup Titles) \cap RangeOf(Staged) = {}
  /\ MaxTasks \in Nat /\ MaxFaults \in Nat /\ NoFile \notin Seq(Entries) /\ Tasks \subseteq Nat
  /\ 0 \notin Tasks /\ \A i : i \in Tasks <=> i \in 1..MaxTasks
  <1>1. Staged \in Seq(RangeOf(Staged)) /\ RangeOf(Staged) \subseteq Entries
    BY JournalAssumption DEF Entries
  <1>2. Staged \in Seq(Entries) /\ Len(Staged) \in Nat
    BY <1>1
  <1> QED
    BY <1>1, <1>2, JournalAssumption DEF Entries, Tasks

(* Taking the batch out leaves what was not staged. *)
LEMMA RetainedRange ==
  ASSUME entries \in Seq(Entries), batch \in BatchType, BatchPlaced, batch.at = "committing"
  PROVE  Retained \in Seq(Entries) /\ RangeOf(Retained) = Ents \ RangeOf(Staged)
  <1> DEFINE n == Len(entries)
             m == Len(Staged)
             f == batch.from
             r == [k \in 1..(n - m) |-> IF k <= f THEN entries[k] ELSE entries[k + m]]
  <1>1. n \in Nat /\ m \in Nat /\ f \in Nat /\ \A k \in 1..n : entries[k] \in Entries
    BY Constants DEF BatchType
  <1>2. Ents = {entries[k] : k \in 1..n}
    BY RangeTyped DEF Ents
  <1>3. CASE entries = <<>>
    <2>1. n = 0 /\ 1..(n - m) = {} /\ Ents = {}
      BY <1>1, <1>2, <1>3
    <2>2. r = <<>>
      BY <2>1
    <2> QED
      BY <2>1, <2>2, RangeEmpty DEF Retained
  <1>4. CASE entries # <<>>
    <2>1. f + m <= n /\ \A k \in 1..n : entries[k] \in RangeOf(Staged) <=> k \in (f + 1)..(f + m)
      BY <1>4 DEF BatchPlaced
    <2>2. n - m \in Nat /\ \A k \in 1..(n - m) : k \in 1..n /\ k + m \in 1..n
      BY <1>1, <2>1
    <2>3. r \in [1..(n - m) -> Entries]
      BY <1>1, <2>2
    <2>4. r \in Seq(Entries)
      BY <2>2, <2>3, SeqDef
    <2>5. Len(r) = n - m
      BY <2>2, <2>3, <2>4, LenProperties
    <2>6. ASSUME NEW k \in 1..(n - m) PROVE r[k] = IF k <= f THEN entries[k] ELSE entries[k + m]
      BY ONLY <2>6 DEF r
    <2> HIDE DEF r
    <2>7. RangeOf(r) = {r[k] : k \in 1..(n - m)}
      BY <2>4, <2>5, RangeTyped
    <2>8. \A k \in 1..(n - m) : r[k] \in Ents \ RangeOf(Staged)
      <3> SUFFICES ASSUME NEW k \in 1..(n - m) PROVE r[k] \in Ents \ RangeOf(Staged)
        OBVIOUS
      <3>1. CASE k <= f
        <4>1. k \in 1..n /\ k \notin (f + 1)..(f + m)
          BY <1>1, <2>2, <3>1
        <4> QED
          BY <1>2, <2>1, <2>6, <3>1, <4>1
      <3>2. CASE ~(k <= f)
        <4>1. k + m \in 1..n /\ k + m \notin (f + 1)..(f + m)
          BY <1>1, <2>2, <3>2
        <4> QED
          BY <1>2, <2>1, <2>6, <3>2, <4>1
      <3> QED
        BY <3>1, <3>2
    <2>9. ASSUME NEW k \in 1..n, entries[k] \notin RangeOf(Staged)
          PROVE  \E j \in 1..(n - m) : r[j] = entries[k]
      <3>1. CASE k <= f
        <4>1. k \in 1..(n - m)
          BY <1>1, <2>1, <3>1
        <4> QED
          BY <2>6, <3>1, <4>1
      <3>2. CASE k > f
        <4>1. k \notin (f + 1)..(f + m)
          BY <2>1, <2>9
        <4>2. k > f + m
          BY <1>1, <3>2, <4>1
        <4>3. k - m \in 1..(n - m) /\ ~(k - m <= f) /\ (k - m) + m = k
          BY <1>1, <4>2
        <4> QED
          BY <2>6, <4>3
      <3> QED
        BY <1>1, <3>1, <3>2
    <2>10. RangeOf(r) = Ents \ RangeOf(Staged)
      BY <1>2, <2>7, <2>8, <2>9
    <2> QED
      BY <2>4, <2>10 DEF Retained, r
  <1> QED
    BY <1>3, <1>4

-----------------------------------------------------------------------------
(* What is typed, piece by piece. *)

Stages == {"free", "queued", "titling", "closing", "writing", "written", "done"}

LEMMA TaskPieces ==
  ASSUME TypeOK, NEW i \in Tasks
  PROVE  /\ tasks[i] \in TaskType /\ tasks[i].pc \in Stages /\ tasks[i].epoch \in Nat
         /\ tasks[i].kind \in {"none", "rewrite", "title"} /\ tasks[i].entry \in Titles \cup {None}
         /\ tasks[i].after \in 0..MaxTasks /\ tasks[i].body \in Seq(Entries)
         /\ tasks[i].bad \in BOOLEAN /\ tasks[i].ok \in BOOLEAN
         /\ RangeOf(tasks[i].body) \subseteq Entries
  <1>1. tasks[i] \in TaskType
    BY DEF TypeOK
  <1>2. tasks[i].body \in Seq(Entries)
    BY <1>1 DEF TaskType
  <1>3. RangeOf(tasks[i].body) \subseteq Entries
    BY <1>2, RangeTyped
  <1> QED
    BY <1>1, <1>3 DEF TaskType, Stages

LEMMA Pieces ==
  ASSUME TypeOK
  PROVE  /\ diskEpoch \in Nat /\ diskEpoch # 0 /\ fence \in Nat /\ fence <= diskEpoch
         /\ diskTail \in 0..MaxTasks /\ entries \in Seq(Entries) /\ Ents \subseteq Entries
         /\ OnDisk \subseteq Entries /\ (disk # NoFile => disk \in Seq(Entries) /\ OnDisk = RangeOf(disk))
         /\ batch.at \in {"none", "committing", "repairing"} /\ batch.task \in 0..MaxTasks
         /\ batch.from \in Nat /\ repair.at \in {"none", "draining", "writing", "written"}
         /\ repair.epoch \in Nat /\ repair.after \in 0..MaxTasks /\ repair.body \in Seq(Entries)
         /\ acked \subseteq Entries /\ rejected \subseteq RangeOf(Staged)
  <1>1. diskEpoch \in Nat /\ diskEpoch # 0 /\ fence \in Nat /\ fence <= diskEpoch
    BY DEF TypeOK
  <1>2. entries \in Seq(Entries) /\ Ents \subseteq Entries
    BY RangeTyped DEF TypeOK, Ents
  <1>3. OnDisk \subseteq Entries /\ (disk # NoFile => disk \in Seq(Entries) /\ OnDisk = RangeOf(disk))
    <2>1. disk \in Seq(Entries) \cup {NoFile}
      BY DEF TypeOK
    <2> QED
      BY <2>1, RangeTyped DEF OnDisk
  <1>4. batch \in BatchType /\ repair \in RepairType
    BY DEF TypeOK
  <1>5. diskTail \in 0..MaxTasks /\ acked \subseteq Entries /\ rejected \subseteq RangeOf(Staged)
    BY DEF TypeOK
  <1> QED
    BY <1>1, <1>2, <1>3, <1>4, <1>5 DEF BatchType, RepairType

(* How a task moves. *)

Others(i)      == \A j \in Tasks : j # i => tasks'[j] = tasks[j]
KeepsPlace(i)  == /\ tasks'[i].epoch = tasks[i].epoch /\ tasks'[i].kind = tasks[i].kind
                  /\ tasks'[i].entry = tasks[i].entry
Ends(i)        == /\ tasks'[i].pc = "done" /\ tasks'[i].epoch = 0 /\ tasks'[i].kind = "none"

LEMMA FreeTyped ==
  ASSUME NEW p \in Stages, NEW ok \in BOOLEAN
  PROVE  LET t == [FreeTask EXCEPT !.pc = p, !.ok = ok] IN
         t \in TaskType /\ t.epoch = 0 /\ t.pc = p /\ t.kind = "none"
  <1>1. <<>> \in Seq(Entries) /\ 0 \in 0..MaxTasks
    BY Constants
  <1> QED
    BY <1>1 DEF FreeTask, TaskType, Stages

LEMMA TaskBecomes ==
  ASSUME TypeOK, NEW i \in Tasks, NEW t \in TaskType, tasks' = [tasks EXCEPT ![i] = t]
  PROVE  tasks' \in [Tasks -> TaskType] /\ tasks'[i] = t /\ Others(i)
  BY DEF TypeOK, Others

LEMMA DoneMoves ==
  ASSUME TypeOK, NEW i \in Tasks, NEW ok \in BOOLEAN, Done(i, ok)
  PROVE  tasks' \in [Tasks -> TaskType] /\ Others(i) /\ Ends(i)
  <1> DEFINE gone == [FreeTask EXCEPT !.pc = "done", !.ok = ok]
  <1>1. gone \in TaskType /\ gone.epoch = 0 /\ gone.pc = "done" /\ gone.kind = "none"
    BY FreeTyped DEF Stages
  <1>2. tasks' = [tasks EXCEPT ![i] = gone]
    BY DEF Done
  <1> HIDE DEF gone
  <1>3. tasks' \in [Tasks -> TaskType] /\ tasks'[i] = gone /\ Others(i)
    BY ONLY TypeOK, <1>1, <1>2, TaskBecomes
  <1> QED
    BY <1>1, <1>3 DEF Ends

LEMMA ClosingMoves ==
  ASSUME TypeOK, NEW i \in Tasks, NEW b \in BOOLEAN,
         tasks' = [tasks EXCEPT ![i].pc = "closing", ![i].bad = b]
  PROVE  /\ tasks' \in [Tasks -> TaskType] /\ Others(i) /\ KeepsPlace(i)
         /\ tasks'[i].pc = "closing"
  <1> DEFINE t == [tasks[i] EXCEPT !.pc = "closing", !.bad = b]
  <1>1. /\ t \in TaskType /\ t.pc = "closing" /\ t.epoch = tasks[i].epoch
        /\ t.kind = tasks[i].kind /\ t.entry = tasks[i].entry
    BY DEF TypeOK, TaskType
  <1>2. tasks' = [tasks EXCEPT ![i] = t]
    BY DEF TypeOK
  <1> HIDE DEF t
  <1>3. tasks' \in [Tasks -> TaskType] /\ tasks'[i] = t /\ Others(i)
    BY ONLY TypeOK, <1>1, <1>2, TaskBecomes
  <1> QED
    BY <1>1, <1>3 DEF KeepsPlace

LEMMA TitlingMoves ==
  ASSUME TypeOK, NEW i \in Tasks, tasks' = [tasks EXCEPT ![i].pc = "titling"]
  PROVE  /\ tasks' \in [Tasks -> TaskType] /\ Others(i) /\ KeepsPlace(i)
         /\ tasks'[i].pc = "titling"
  <1> DEFINE t == [tasks[i] EXCEPT !.pc = "titling"]
  <1>1. /\ t \in TaskType /\ t.pc = "titling" /\ t.epoch = tasks[i].epoch
        /\ t.kind = tasks[i].kind /\ t.entry = tasks[i].entry
    BY DEF TypeOK, TaskType
  <1>2. tasks' = [tasks EXCEPT ![i] = t]
    BY DEF TypeOK
  <1> HIDE DEF t
  <1>3. tasks' \in [Tasks -> TaskType] /\ tasks'[i] = t /\ Others(i)
    BY ONLY TypeOK, <1>1, <1>2, TaskBecomes
  <1> QED
    BY <1>1, <1>3 DEF KeepsPlace

LEMMA BodyMoves ==
  ASSUME TypeOK, NEW i \in Tasks, NEW p \in Stages, NEW s \in Seq(Entries),
         tasks' = [tasks EXCEPT ![i].pc = p, ![i].body = s]
  PROVE  /\ tasks' \in [Tasks -> TaskType] /\ Others(i) /\ KeepsPlace(i)
         /\ tasks'[i].pc = p /\ tasks'[i].body = s
  <1> DEFINE t == [tasks[i] EXCEPT !.pc = p, !.body = s]
  <1>1. /\ t \in TaskType /\ t.pc = p /\ t.body = s /\ t.epoch = tasks[i].epoch
        /\ t.kind = tasks[i].kind /\ t.entry = tasks[i].entry
    BY DEF TypeOK, TaskType, Stages
  <1>2. tasks' = [tasks EXCEPT ![i] = t]
    BY DEF TypeOK
  <1> HIDE DEF t
  <1>3. tasks' \in [Tasks -> TaskType] /\ tasks'[i] = t /\ Others(i)
    BY ONLY TypeOK, <1>1, <1>2, TaskBecomes
  <1> QED
    BY <1>1, <1>3 DEF KeepsPlace

-----------------------------------------------------------------------------
(* The chain. *)

(* Nothing else of its epoch runs beside, or before, a task that runs or   *)
(* starts. *)
First(i) ==
    \A j \in Tasks : InTime(i) /\ InTime(j) /\ j # i => i < j /\ tasks[j].pc = "queued"

LEMMA RunsFirst ==
  ASSUME JournalIInv, NEW i \in Tasks,
         Active(i) \/ (tasks[i].pc = "queued" /\ Settled(tasks[i].after))
  PROVE  First(i)
  <1> SUFFICES ASSUME NEW j \in Tasks, InTime(i), InTime(j), j # i
               PROVE  i < j /\ tasks[j].pc = "queued"
    BY DEF First
  <1>1. TypeOK /\ InOrder /\ EpochsPast
    BY DEF JournalIInv
  <1>2. CASE Active(i)
    BY <1>1, <1>2 DEF InOrder
  <1>3. CASE tasks[i].pc = "queued" /\ Settled(tasks[i].after)
    <2>1. ~(j < i)
      <3> SUFFICES ASSUME j < i PROVE FALSE
        OBVIOUS
      <3>1. tasks[i].after # 0 /\ InTime(tasks[i].after)
        BY <1>1, <1>3 DEF InOrder
      <3>2. tasks[i].after \in Tasks
        BY <1>1, <3>1, TaskPieces DEF Tasks
      <3>3. tasks[tasks[i].after].pc = "done"
        BY <1>3, <3>1 DEF Settled
      <3>4. tasks[tasks[i].after].epoch = 0
        BY <1>1, <3>2, <3>3 DEF EpochsPast, Over
      <3> QED
        BY <1>1, <3>1, <3>4, Pieces DEF InTime
    <2>2. ~Active(j)
      BY <1>1, <1>3, <2>1 DEF InOrder
    <2>3. ~Over(j)
      BY <1>1, Pieces DEF EpochsPast, InTime
    <2>4. tasks[j].pc = "queued"
      BY <1>1, <2>2, <2>3, TaskPieces DEF Over, Active, Rewriting, Stages
    <2> QED
      BY <2>1, <2>4, Constants
  <1> QED
    BY <1>2, <1>3

(* The chain over a step of the task that runs, or starts. *)
LEMMA ChainStep ==
  ASSUME JournalIInv, NEW i \in Tasks, First(i), ~Over(i), Others(i),
         Ends(i) \/ (KeepsPlace(i) /\ Active(i)' /\
                       (tasks'[i].pc = "titling" => tasks[i].kind = "title")),
         UNCHANGED <<diskEpoch, diskTail, released, repair>>
  PROVE  EpochsPast' /\ ReleasedIsOver' /\ InOrder'
  <1>1. TypeOK /\ EpochsPast /\ ReleasedIsOver /\ InOrder
    BY DEF JournalIInv
  <1>2. /\ diskEpoch \in Nat /\ diskEpoch # 0 /\ diskTail \in 0..MaxTasks
        /\ \A j \in Tasks : tasks[j].epoch \in Nat
    BY <1>1, Pieces, TaskPieces
  <1>3. /\ tasks[i].epoch # 0 /\ tasks[i].kind # "none" /\ Others(i)
        /\ \A j \in Tasks : j # i => tasks'[j] = tasks[j]
    BY <1>1 DEF EpochsPast, Others
  <1>4. \A j \in Tasks : InTime(j)' => InTime(j)
    BY <1>2, <1>3 DEF InTime, Ends, KeepsPlace
  <1>5. EpochsPast'
    <2>1. /\ tasks'[i].epoch <= diskEpoch /\ (Over(i)' <=> tasks'[i].epoch = 0)
          /\ ~Over(i)' => tasks'[i].kind # "none"
          /\ tasks'[i].kind = "title" => tasks'[i].entry \in Titles
          /\ tasks'[i].pc = "titling" => tasks'[i].kind = "title"
          /\ tasks'[i].pc # "free" /\ tasks[i].pc # "free"
      BY <1>1, <1>2, <1>3 DEF EpochsPast, Ends, KeepsPlace, Over, Active, Rewriting
    <2> QED
      BY <1>1, <1>3, <2>1 DEF EpochsPast, Over
  <1>6. ReleasedIsOver'
    BY <1>1, <1>4 DEF ReleasedIsOver, Repairing
  <1>7. ASSUME NEW j \in Tasks, InTime(j)'
        PROVE  diskTail # 0 /\ InTime(diskTail)' /\ j <= diskTail
    <2>1. InTime(j) /\ diskTail # 0 /\ InTime(diskTail) /\ j <= diskTail
      BY <1>1, <1>4, <1>7 DEF InOrder
    <2>2. diskTail \in Tasks
      BY <1>2, <2>1 DEF Tasks
    <2>3. CASE diskTail # i
      BY <1>3, <2>1, <2>2, <2>3 DEF InTime
    <2>4. CASE diskTail = i
      <3>1. j = i
        <4>1. j # i => i < j
          BY <2>1, <2>4 DEF First
        <4> QED
          BY <2>1, <2>4, <4>1, Constants
      <3> QED
        BY <1>7, <2>1, <2>4, <3>1
    <2> QED
      BY <2>3, <2>4
  <1>8. ASSUME NEW j \in Tasks, NEW k \in Tasks, InTime(j)', InTime(k)', j # k, Active(j)'
        PROVE  j < k /\ tasks'[k].pc = "queued"
    <2>1. InTime(j) /\ InTime(k)
      BY <1>4, <1>8
    <2>2. CASE j = i
      BY <1>3, <1>8, <2>1, <2>2 DEF First
    <2>3. CASE j # i
      <3>1. Active(j)
        BY <1>3, <1>8, <2>3 DEF Active, Rewriting
      <3>2. k = i => tasks[j].pc = "queued"
        BY <2>1, <2>3 DEF First
      <3>3. k # i
        BY <3>1, <3>2 DEF Active, Rewriting
      <3> QED
        BY <1>1, <1>3, <1>8, <2>1, <3>1, <3>3 DEF InOrder
    <2> QED
      BY <2>2, <2>3
  <1>9. ASSUME NEW j \in Tasks, NEW k \in Tasks, InTime(j)', InTime(k)', k < j,
               tasks'[j].pc = "queued"
        PROVE  /\ tasks'[j].after # 0 /\ k <= tasks'[j].after /\ InTime(tasks[j].after)'
    <2>1. InTime(j) /\ InTime(k) /\ j # i
      BY <1>4, <1>9 DEF Ends, Active, Rewriting
    <2>2. tasks'[j] = tasks[j] /\ tasks[j].after # 0 /\ InTime(tasks[j].after) /\ k <= tasks[j].after
      BY <1>1, <1>3, <1>9, <2>1 DEF InOrder
    <2>3. tasks[j].after \in Tasks
      BY <1>1, <2>2, TaskPieces DEF Tasks
    <2>4. CASE tasks[j].after # i
      BY <1>3, <2>2, <2>3, <2>4 DEF InTime
    <2>5. CASE tasks[j].after = i
      <3>1. KeepsPlace(i)
        <4> SUFFICES ASSUME Ends(i) PROVE FALSE
          OBVIOUS
        <4>1. k # i
          BY <1>2, <1>9 DEF Ends, InTime
        <4>2. i < k
          BY <2>1, <2>2, <2>5, <4>1 DEF First
        <4> QED
          BY <2>2, <2>5, <4>2, Constants
      <3> QED
        BY <2>2, <2>5, <3>1 DEF InTime, KeepsPlace
    <2> QED
      BY <2>4, <2>5
  <1>10. InOrder'
    BY <1>7, <1>8, <1>9 DEF InOrder
  <1> QED
    BY <1>5, <1>6, <1>10

-----------------------------------------------------------------------------
(* The steps of a task.  What none of them touches: *)
KeepsRest ==
    UNCHANGED <<entries, released, forceFileCreation, diskEpoch, diskTail, callers, history>>

(* A task that is dropped, or fails before its body lands: of the present  *)
(* epoch only with a failure latched. *)
LEMMA TaskDropped ==
  ASSUME JournalIInv, NEW i \in Tasks, First(i), ~Over(i), NEW ok \in BOOLEAN, Done(i, ok),
         KeepsRest, UNCHANGED <<dirty, disk, writer, fileIsCurrent, rewriteRequired>>,
         diskFailure' = diskFailure \/ diskFailure' = TRUE, InTime(i) => diskFailure' = TRUE,
         fence' = fence \/ (Active(i) /\ fence' = LowerFence(tasks[i].epoch)),
         faults' \in 0..MaxFaults
  PROVE  JournalIInv'
  <1>1. TypeOK /\ EpochsPast /\ InOrder
    BY DEF JournalIInv
  <1>2. tasks' \in [Tasks -> TaskType] /\ Others(i) /\ Ends(i)
    BY <1>1, DoneMoves
  <1>3. /\ UNCHANGED <<entries, released, forceFileCreation, diskEpoch, diskTail, batch, repair>>
        /\ UNCHANGED <<acked, rejected, unmarked>>
    BY DEF KeepsRest, callers, history
  <1>4. EpochsPast' /\ ReleasedIsOver' /\ InOrder'
    BY <1>2, <1>3, ChainStep
  <1>5. TypeOK'
    <2>1. fence \in 0..diskEpoch /\ diskFailure \in BOOLEAN /\ diskEpoch \in Nat
      BY <1>1 DEF TypeOK
    <2>2. fence' \in 0..diskEpoch'
      BY <1>3, <2>1 DEF LowerFence
    <2>3. diskFailure' \in BOOLEAN
      BY <2>1
    <2> QED
      BY <1>1, <1>2, <1>3, <2>2, <2>3 DEF TypeOK
  <1>6. /\ ~InTime(i)' /\ tasks'[i].pc = "done"
        /\ \A j \in Tasks : j # i => tasks'[j] = tasks[j]
        /\ \A j \in Tasks : InTime(j)' => j # i /\ InTime(j)
        /\ diskEpoch' = diskEpoch
    BY <1>1, <1>2, <1>3, Pieces DEF Ends, Others, InTime
  <1>7. FenceHolds' /\ RepairAlone'
    <2>1. FenceHolds /\ RepairAlone /\ fence \in Nat
      BY <1>1, Pieces DEF JournalIInv
    <2>2. ASSUME NEW j \in Tasks, InTime(j)', Rewriting(j)' PROVE fence' = diskEpoch' /\ writer' = "none"
      <3>1. j # i /\ InTime(j) /\ Rewriting(j) /\ fence = diskEpoch /\ writer = "none"
        BY <1>6, <2>1, <2>2 DEF FenceHolds, Rewriting
      <3>2. ~InTime(i)
        BY <3>1 DEF First, Rewriting
      <3> QED
        BY <1>3, <3>1, <3>2 DEF LowerFence, InTime
    <2>3. Repairing' => Repairing /\ (Active(i) => ~InTime(i))
      BY <1>3, <2>1 DEF Repairing, RepairAlone
    <2>4. RepairAlone'
      BY <1>3, <1>6, <2>1, <2>3 DEF RepairAlone, LowerFence, InTime, Active, Rewriting
    <2> QED
      BY <1>3, <2>1, <2>2, <2>4 DEF FenceHolds
  <1>8. AckedKept' /\ BodyIsCurrent' /\ RepairIsCurrent' /\ BatchPlaced' /\ RolledBack' /\ RejectedIsOut'
    <2>1. OnDisk' = OnDisk /\ Ents' = Ents /\ Unknown' = Unknown /\ (Repairing' <=> Repairing)
      BY <1>3 DEF OnDisk, Ents, Unknown, Repairing
    <2>2. AckedKept'
      BY <1>3, <1>6, <2>1 DEF JournalIInv, AckedKept
    <2>3. BodyIsCurrent'
      BY <1>3, <1>6, <2>1 DEF JournalIInv, BodyIsCurrent, Rewriting
    <2>4. RepairIsCurrent' /\ BatchPlaced' /\ RolledBack'
      BY <1>3, <2>1 DEF JournalIInv, RepairIsCurrent, BatchPlaced, RolledBack, Without
    <2>5. RejectedIsOut'
      BY <1>3, <1>6, <2>1 DEF JournalIInv, RejectedIsOut, Without
    <2> QED
      BY <2>2, <2>3, <2>4, <2>5
  <1>9. FileIsCurrent' /\ FileIsWanted'
    <2>1. OnDisk' = OnDisk /\ Ents' = Ents /\ Unknown' = Unknown /\ (Repairing' <=> Repairing)
      BY <1>3 DEF OnDisk, Ents, Unknown, Repairing
    <2>2. FileIsCurrent'
      <3>1. ~diskFailure' => ~diskFailure
        BY <1>1 DEF TypeOK
      <3> QED
        BY <1>3, <1>6, <2>1, <3>1 DEF JournalIInv, FileIsCurrent
    <2>3. FileIsWanted'
      BY <1>3, <1>6, <2>1 DEF JournalIInv, FileIsWanted
    <2> QED
      BY <2>2, <2>3
  <1>10. TitlesDue'
    <2> SUFFICES ASSUME NEW t \in Titles, t \in Ents
                 PROVE  TitlesDue!(t)'
      BY <1>3 DEF TitlesDue, Ents
    <2>1. TitlesDue!(t)
      BY DEF JournalIInv, TitlesDue
    <2>2. \A j \in Tasks : j # i /\ WillWrite(j, t) => WillWrite(j, t)'
      BY <1>3, <1>6 DEF WillWrite, InTime
    <2>3. (Current /\ ~rewriteRequired /\ ~released)' => ~InTime(i) /\ Current /\ ~rewriteRequired /\ ~released
      BY <1>1, <1>3 DEF Current, TypeOK
    <2>4. ~InTime(i) => ~WillWrite(i, t)
      BY DEF WillWrite
    <2>5. ASSUME NEW j \in Tasks, InTime(j)', tasks'[j].pc \in {"writing", "written"} PROVE ~InTime(i)
      BY <1>6, <2>5 DEF First
    <2> QED
      BY <1>3, <1>6, <2>1, <2>2, <2>3, <2>4, <2>5 DEF OnDisk
  <1> QED
    BY <1>4, <1>5, <1>7, <1>8, <1>9, <1>10 DEF JournalIInv

(* A task of the present epoch takes its turn: it closes the writer behind *)
(* the fence. *)
LEMMA TaskCloses ==
  ASSUME JournalIInv, NEW i \in Tasks, First(i), ~Over(i), InTime(i), ~Repairing,
         NEW b \in BOOLEAN, tasks' = [tasks EXCEPT ![i].pc = "closing", ![i].bad = b],
         KeepsRest, UNCHANGED <<disk, fileIsCurrent, rewriteRequired>>,
         dirty' = FALSE, writer' = "none", fence' = diskEpoch,
         diskFailure' = diskFailure \/ diskFailure' = TRUE, faults' \in 0..MaxFaults
  PROVE  JournalIInv'
  <1>1. TypeOK /\ EpochsPast /\ InOrder
    BY DEF JournalIInv
  <1>2. /\ tasks' \in [Tasks -> TaskType] /\ Others(i) /\ KeepsPlace(i)
        /\ tasks'[i].pc = "closing"
    BY <1>1, ClosingMoves
  <1>3. /\ UNCHANGED <<entries, released, forceFileCreation, diskEpoch, diskTail, batch, repair>>
        /\ UNCHANGED <<acked, rejected, unmarked>>
    BY DEF KeepsRest, callers, history
  <1>4. EpochsPast' /\ ReleasedIsOver' /\ InOrder'
    BY <1>2, <1>3, ChainStep DEF Active, Rewriting
  <1>5. TypeOK'
    <2>1. diskFailure \in BOOLEAN /\ diskEpoch \in Nat
      BY <1>1 DEF TypeOK
    <2>2. diskEpoch \in 0..diskEpoch
      BY ONLY <2>1
    <2>3. fence' \in 0..diskEpoch' /\ dirty' \in BOOLEAN
      BY <1>3, <2>2
    <2>4. diskFailure' \in BOOLEAN
      BY <2>1
    <2> QED
      BY <1>1, <1>2, <1>3, <2>3, <2>4 DEF TypeOK
  <1>6. /\ InTime(i)' /\ tasks'[i].kind = tasks[i].kind /\ diskEpoch' = diskEpoch
        /\ \A j \in Tasks : j # i => tasks'[j] = tasks[j]
        /\ \A j \in Tasks : InTime(j)' => InTime(j) /\ (j # i => tasks'[j].pc = "queued")
    BY <1>1, <1>2, <1>3 DEF KeepsPlace, Others, InTime, First
  <1>7. /\ OnDisk' = OnDisk /\ Ents' = Ents /\ Unknown' = Unknown /\ ~Repairing'
    BY <1>3 DEF OnDisk, Ents, Unknown, Repairing
  <1>8. FenceHolds' /\ RepairAlone' /\ RepairIsCurrent' /\ BatchPlaced' /\ RolledBack'
    BY <1>3, <1>7 DEF JournalIInv, FenceHolds, RepairAlone, RepairIsCurrent, BatchPlaced,
                      RolledBack, Without
  <1>9. AckedKept' /\ RejectedIsOut'
    BY <1>2, <1>3, <1>6, <1>7 DEF JournalIInv, AckedKept, RejectedIsOut, Without
  <1>10. BodyIsCurrent'
    BY <1>2, <1>6 DEF BodyIsCurrent, Rewriting
  <1>11. FileIsCurrent' /\ FileIsWanted'
    <2>1. FileIsCurrent'
      BY <1>1, <1>3, <1>6, <1>7 DEF JournalIInv, FileIsCurrent, TypeOK
    <2>2. FileIsWanted'
      BY <1>3, <1>6, <1>7 DEF JournalIInv, FileIsWanted
    <2> QED
      BY <2>1, <2>2
  <1>12. TitlesDue'
    BY <1>2, <1>6 DEF TitlesDue, WillWrite
  <1> QED
    BY <1>4, <1>5, <1>8, <1>9, <1>10, <1>11, <1>12 DEF JournalIInv

(* The writer is closed: the body is what is recorded now. *)
LEMMA TaskSerializes ==
  ASSUME JournalIInv, NEW i \in Tasks, First(i), tasks[i].pc = "closing", InTime(i),
         tasks' = [tasks EXCEPT ![i].pc = "writing", ![i].body = entries], KeepsRest,
         UNCHANGED <<disk, writer, dirty, fence, fileIsCurrent, rewriteRequired, diskFailure, faults>>
  PROVE  JournalIInv'
  <1>1. TypeOK /\ EpochsPast /\ InOrder /\ ~Over(i) /\ ~Repairing /\ ~released
    BY DEF JournalIInv, Over, RepairAlone, Active, Rewriting, ReleasedIsOver
  <1>2. /\ tasks' \in [Tasks -> TaskType] /\ Others(i) /\ KeepsPlace(i)
        /\ tasks'[i].pc = "writing" /\ tasks'[i].body = entries
    BY <1>1, BodyMoves, Pieces DEF Stages
  <1>3. /\ UNCHANGED <<entries, released, forceFileCreation, diskEpoch, diskTail, batch, repair>>
        /\ UNCHANGED <<acked, rejected, unmarked>>
    BY DEF KeepsRest, callers, history
  <1>4. EpochsPast' /\ ReleasedIsOver' /\ InOrder'
    BY <1>1, <1>2, <1>3, ChainStep DEF Active, Rewriting
  <1>5. TypeOK'
    BY <1>1, <1>2, <1>3 DEF TypeOK
  <1>6. /\ InTime(i)' /\ tasks'[i].kind = tasks[i].kind /\ diskEpoch' = diskEpoch
        /\ \A j \in Tasks : j # i => tasks'[j] = tasks[j]
        /\ \A j \in Tasks : InTime(j)' => InTime(j) /\ (j # i => tasks'[j].pc = "queued")
    BY <1>1, <1>2, <1>3 DEF KeepsPlace, Others, InTime, First
  <1>7. /\ OnDisk' = OnDisk /\ Ents' = Ents /\ Unknown' = Unknown /\ ~Repairing'
        /\ RangeOf(tasks'[i].body) = Ents
    BY <1>1, <1>2, <1>3 DEF OnDisk, Ents, Unknown, Repairing
  <1>8. FenceHolds' /\ RepairAlone' /\ RepairIsCurrent' /\ BatchPlaced' /\ RolledBack'
    <2>1. fence = diskEpoch /\ writer = "none"
      BY DEF JournalIInv, FenceHolds, Rewriting
    <2> QED
      BY <1>3, <1>7, <2>1 DEF JournalIInv, FenceHolds, RepairAlone, RepairIsCurrent, BatchPlaced,
                        RolledBack, Without
  <1>9. AckedKept' /\ RejectedIsOut'
    BY <1>1, <1>2, <1>3, <1>6, <1>7 DEF JournalIInv, AckedKept, RejectedIsOut, Without
  <1>10. BodyIsCurrent'
    <2>1. dirty => rewriteRequired
      BY DEF JournalIInv, BodyIsCurrent, Rewriting
    <2> QED
      BY <1>2, <1>6, <1>7, <2>1 DEF BodyIsCurrent, Rewriting
  <1>11. FileIsCurrent' /\ FileIsWanted'
    <2>1. FileIsCurrent'
      BY <1>1, <1>3, <1>6, <1>7 DEF JournalIInv, FileIsCurrent, TypeOK
    <2>2. FileIsWanted'
      BY <1>3, <1>6, <1>7 DEF JournalIInv, FileIsWanted
    <2> QED
      BY <2>1, <2>2
  <1>12. TitlesDue'
    BY <1>2, <1>6, <1>7 DEF TitlesDue, WillWrite
  <1> QED
    BY <1>4, <1>5, <1>8, <1>9, <1>10, <1>11, <1>12 DEF JournalIInv

(* A title of the present epoch is appended to the file. *)
LEMMA TaskTitles ==
  ASSUME JournalIInv, NEW i \in Tasks, First(i), tasks[i].pc = "queued", InTime(i), ~diskFailure,
         tasks[i].kind = "title", WriteLine(tasks[i].entry, TRUE),
         tasks' = [tasks EXCEPT ![i].pc = "titling"], KeepsRest,
         UNCHANGED <<dirty, fence, fileIsCurrent, rewriteRequired, diskFailure>>,
         faults' \in 0..MaxFaults
  PROVE  JournalIInv'
  <1>1. /\ TypeOK /\ EpochsPast /\ InOrder /\ FenceHolds /\ ~Over(i) /\ ~Repairing
        /\ writer # "detached" /\ tasks[i].entry \in Titles /\ disk # NoFile
    BY DEF JournalIInv, Over, RepairAlone, FenceHolds, EpochsPast, FileIsCurrent
  <1>2. /\ tasks' \in [Tasks -> TaskType] /\ Others(i) /\ KeepsPlace(i)
        /\ tasks'[i].pc = "titling"
    BY <1>1, TitlingMoves
  <1>3. /\ UNCHANGED <<entries, released, forceFileCreation, diskEpoch, diskTail, batch, repair>>
        /\ UNCHANGED <<acked, rejected, unmarked>>
    BY DEF KeepsRest, callers, history
  <1>4. EpochsPast' /\ ReleasedIsOver' /\ InOrder'
    BY <1>1, <1>2, <1>3, ChainStep DEF Active
  <1>5. /\ disk' = Append(disk, tasks[i].entry) /\ writer' \in {"open", "none", "broken"}
        /\ disk \in Seq(Entries) /\ OnDisk = RangeOf(disk) /\ tasks[i].entry \in Entries
    <2>1. disk' = Append(disk, tasks[i].entry) /\ writer \in {"none", "open", "broken"}
      BY <1>1 DEF WriteLine, TypeOK
    <2>2. writer' \in {"open", "none", "broken"}
      BY <2>1 DEF WriteLine
    <2> QED
      BY <1>1, <2>1, <2>2, Pieces, Constants
  <1>6. /\ disk' \in Seq(Entries) /\ disk' # NoFile /\ OnDisk' = OnDisk \cup {tasks[i].entry}
    <2>1. /\ disk' \in Seq(Entries) /\ RangeOf(disk') = RangeOf(disk) \cup {tasks[i].entry}
      BY <1>5, RangeAppend
    <2>2. disk' # NoFile
      BY <2>1, Constants
    <2> QED
      BY <1>5, <2>1, <2>2 DEF OnDisk
  <1>7. TypeOK'
    BY <1>1, <1>2, <1>3, <1>5, <1>6 DEF TypeOK
  <1>8. /\ InTime(i)' /\ tasks'[i].kind = tasks[i].kind /\ diskEpoch' = diskEpoch
        /\ \A j \in Tasks : j # i => tasks'[j] = tasks[j]
        /\ \A j \in Tasks : InTime(j)' => InTime(j) /\ (j # i => tasks'[j].pc = "queued")
    BY <1>1, <1>2, <1>3 DEF KeepsPlace, Others, InTime, First
  <1>9. /\ Ents' = Ents /\ Unknown' = Unknown /\ ~Repairing'
    BY <1>1, <1>3 DEF Ents, Unknown, Repairing
  <1>10. FenceHolds' /\ RepairAlone' /\ RepairIsCurrent' /\ BatchPlaced' /\ RolledBack'
    <2>1. FenceHolds'
      BY <1>2, <1>5, <1>8 DEF FenceHolds, Rewriting
    <2> QED
      BY <1>3, <1>9, <2>1 DEF JournalIInv, RepairAlone, RepairIsCurrent, BatchPlaced,
                        RolledBack, Without
  <1>11. AckedKept'
    BY <1>2, <1>3, <1>6, <1>8, <1>9 DEF JournalIInv, AckedKept
  <1>12. RejectedIsOut'
    <2>1. tasks[i].entry \notin rejected
      BY <1>1, Pieces, Constants
    <2> QED
      BY <1>2, <1>3, <1>6, <1>8, <1>9, <2>1 DEF JournalIInv, RejectedIsOut, Without
  <1>13. BodyIsCurrent'
    BY <1>2, <1>8 DEF BodyIsCurrent, Rewriting
  <1>14. FileIsCurrent' /\ FileIsWanted'
    <2>1. FileIsCurrent'
      BY <1>1, <1>3, <1>6, <1>8, <1>9 DEF JournalIInv, FileIsCurrent
    <2>2. FileIsWanted'
      BY <1>3, <1>8, <1>9 DEF JournalIInv, FileIsWanted
    <2> QED
      BY <2>1, <2>2
  <1>15. TitlesDue'
    <2> SUFFICES ASSUME NEW t \in Titles, t \in Ents PROVE TitlesDue!(t)'
      BY <1>9 DEF TitlesDue
    <2>1. TitlesDue!(t)
      BY DEF JournalIInv, TitlesDue
    <2>2. \A j \in Tasks : j # i /\ WillWrite(j, t) => WillWrite(j, t)'
      BY <1>3, <1>8 DEF WillWrite, InTime
    <2>3. WillWrite(i, t) => t = tasks[i].entry
      BY DEF WillWrite
    <2>4. (Current /\ ~rewriteRequired /\ ~released)' => Current /\ ~rewriteRequired /\ ~released
      BY <1>3 DEF Current
    <2>5. \A j \in Tasks : InTime(j)' => tasks'[j].pc \notin {"writing", "written"}
      BY <1>2, <1>8
    <2> QED
      BY <1>6, <2>1, <2>2, <2>3, <2>4, <2>5
  <1> QED
    BY <1>4, <1>7, <1>10, <1>11, <1>12, <1>13, <1>14, <1>15 DEF JournalIInv

(* Its body replaces the file, whether the task is told so or not. *)
LEMMA TaskLands ==
  ASSUME JournalIInv, NEW i \in Tasks, First(i), tasks[i].pc = "writing", InTime(i),
         Replace(tasks[i].body), KeepsRest,
         \/ /\ tasks' = [tasks EXCEPT ![i].pc = "written", ![i].body = <<>>]
            /\ UNCHANGED <<fence, diskFailure>>
         \/ TaskFails(i),
         UNCHANGED <<dirty, fileIsCurrent, rewriteRequired>>, faults' \in 0..MaxFaults
  PROVE  JournalIInv'
  <1>1. /\ TypeOK /\ EpochsPast /\ InOrder /\ FenceHolds /\ ~Over(i) /\ ~Repairing /\ Rewriting(i)
        /\ writer = "none" /\ fence = diskEpoch
    BY DEF JournalIInv, Over, RepairAlone, FenceHolds, Active, Rewriting
  <1>2. /\ tasks' \in [Tasks -> TaskType] /\ Others(i)
        /\ Ends(i) \/ (KeepsPlace(i) /\ tasks'[i].pc = "written")
        /\ Ends(i) => diskFailure' = TRUE
    <2>1. CASE tasks' = [tasks EXCEPT ![i].pc = "written", ![i].body = <<>>]
      <3>1. <<>> \in Seq(Entries)
        OBVIOUS
      <3>2. /\ tasks' \in [Tasks -> TaskType] /\ Others(i) /\ KeepsPlace(i)
            /\ tasks'[i].pc = "written"
        BY <1>1, <2>1, <3>1, BodyMoves DEF Stages
      <3> QED
        BY <3>2 DEF Ends
    <2>2. CASE TaskFails(i)
      BY <1>1, <2>2, DoneMoves DEF TaskFails
    <2> QED
      BY <2>1, <2>2
  <1>3. /\ UNCHANGED <<entries, released, forceFileCreation, diskEpoch, diskTail, batch, repair>>
        /\ UNCHANGED <<acked, rejected, unmarked>>
    BY DEF KeepsRest, callers, history
  <1>4. EpochsPast' /\ ReleasedIsOver' /\ InOrder'
    BY <1>1, <1>2, <1>3, ChainStep DEF Active, Rewriting
  <1>5. /\ disk' = tasks[i].body /\ writer' = "none" /\ disk' \in Seq(Entries) /\ disk' # NoFile
        /\ OnDisk' = RangeOf(tasks[i].body)
    <2>1. disk' = tasks[i].body /\ writer' = "none"
      BY <1>1 DEF Replace
    <2>2. disk' \in Seq(Entries) /\ disk' # NoFile
      BY <1>1, <2>1, TaskPieces, Constants
    <2> QED
      BY <2>1, <2>2 DEF OnDisk
  <1>6. TypeOK'
    <2>1. fence \in 0..diskEpoch /\ diskFailure \in BOOLEAN /\ diskEpoch \in Nat
      BY <1>1 DEF TypeOK
    <2>2. /\ fence' = fence \/ fence' = LowerFence(tasks[i].epoch)
          /\ diskFailure' = diskFailure \/ diskFailure' = TRUE
      BY DEF TaskFails
    <2>3. fence' \in 0..diskEpoch' /\ diskFailure' \in BOOLEAN
      <3>1. (fence' = fence \/ fence' = 0) /\ diskEpoch' = diskEpoch
        BY <1>3, <2>2 DEF LowerFence
      <3>2. fence' \in 0..diskEpoch'
        BY ONLY <2>1, <3>1
      <3> QED
        BY ONLY <2>1, <2>2, <3>2
    <2>4. disk' \in Seq(Entries) \cup {NoFile} /\ writer' \in {"none", "open", "detached", "broken"}
      BY <1>5
    <2> QED
      BY <1>1, <1>2, <1>3, <2>3, <2>4 DEF TypeOK
  <1>7. /\ diskEpoch' = diskEpoch /\ tasks'[i].pc \in {"written", "done"}
        /\ InTime(i)' => tasks'[i].kind = tasks[i].kind /\ fence' = fence /\ diskFailure' = diskFailure
        /\ \A j \in Tasks : j # i => tasks'[j] = tasks[j]
        /\ \A j \in Tasks : InTime(j)' => InTime(j) /\ (j # i => tasks'[j].pc = "queued")
    <2>1. Ends(i) => ~InTime(i)'
      BY <1>1, <1>3, Pieces DEF Ends, InTime
    <2>2. KeepsPlace(i) /\ ~Ends(i) => fence' = fence /\ diskFailure' = diskFailure
      BY <1>1, DoneMoves DEF TaskFails
    <2> QED
      BY <1>1, <1>2, <1>3, <2>1, <2>2 DEF KeepsPlace, Ends, Others, InTime, First
  <1>8. Ents' = Ents /\ Unknown' = Unknown /\ ~Repairing'
    BY <1>1, <1>3 DEF Ents, Unknown, Repairing
  <1>9. FenceHolds' /\ RepairAlone' /\ RepairIsCurrent' /\ BatchPlaced' /\ RolledBack'
    <2>1. FenceHolds'
      BY <1>1, <1>5, <1>7 DEF FenceHolds, Rewriting
    <2> QED
      BY <1>3, <1>8, <2>1 DEF JournalIInv, RepairAlone, RepairIsCurrent, BatchPlaced,
                        RolledBack, Without
  <1>10. AckedKept'
    BY <1>3, <1>5, <1>7, <1>8 DEF JournalIInv, AckedKept
  <1>11. RejectedIsOut'
    BY <1>3, <1>5, <1>7, <1>8 DEF JournalIInv, RejectedIsOut, Without
  <1>12. /\ Unknown \/ dirty \/ Ents \ Titles \subseteq OnDisk'
         /\ dirty => rewriteRequired
    BY <1>1, <1>5 DEF JournalIInv, BodyIsCurrent
  <1>13. BodyIsCurrent'
    BY <1>7, <1>8, <1>12 DEF BodyIsCurrent, Rewriting
  <1>14. FileIsCurrent' /\ FileIsWanted'
    <2>1. FileIsCurrent'
      <3>1. \A j \in Tasks : InTime(j)' /\ tasks'[j].kind = "title" => (fileIsCurrent \/ rewriteRequired)
        BY <1>7 DEF JournalIInv, FileIsCurrent
      <3> QED
        BY <1>5, <1>8, <1>12, <3>1 DEF FileIsCurrent
    <2>2. FileIsWanted'
      BY <1>3, <1>7, <1>8 DEF JournalIInv, FileIsWanted
    <2> QED
      BY <2>1, <2>2
  <1>15. TitlesDue'
    <2> SUFFICES ASSUME NEW t \in Titles, t \in Ents PROVE TitlesDue!(t)'
      BY <1>8 DEF TitlesDue
    <2>1. t \in OnDisk' \/ \E j \in Tasks \ {i} : WillWrite(j, t)
      BY <1>5 DEF JournalIInv, TitlesDue
    <2>2. \A j \in Tasks : j # i /\ WillWrite(j, t) => WillWrite(j, t)'
      BY <1>3, <1>7 DEF WillWrite, InTime
    <2>3. \A j \in Tasks : InTime(j)' => tasks'[j].pc # "writing" /\ (tasks'[j].pc = "written" => j = i)
      BY <1>7
    <2> QED
      BY <2>1, <2>2, <2>3
  <1> QED
    BY <1>4, <1>6, <1>9, <1>10, <1>11, <1>13, <1>14, <1>15 DEF JournalIInv

(* The publish of a task of an earlier epoch does nothing. *)
LEMMA TaskPasses ==
  ASSUME JournalIInv, NEW i \in Tasks, First(i), tasks[i].pc = "writing", ~InTime(i),
         tasks' = [tasks EXCEPT ![i].pc = "written", ![i].body = <<>>], KeepsRest,
         UNCHANGED <<fence, dirty, disk, writer, fileIsCurrent, rewriteRequired, diskFailure>>,
         faults' \in 0..MaxFaults
  PROVE  JournalIInv'
  <1>1. TypeOK /\ EpochsPast /\ InOrder /\ ~Over(i)
    BY DEF JournalIInv, Over
  <1>2. /\ tasks' \in [Tasks -> TaskType] /\ Others(i) /\ KeepsPlace(i) /\ tasks'[i].pc = "written"
    <2>1. <<>> \in Seq(Entries)
      OBVIOUS
    <2> QED
      BY <1>1, <2>1, BodyMoves DEF Stages
  <1>3. /\ UNCHANGED <<entries, released, forceFileCreation, diskEpoch, diskTail, batch, repair>>
        /\ UNCHANGED <<acked, rejected, unmarked>>
    BY DEF KeepsRest, callers, history
  <1>4. EpochsPast' /\ ReleasedIsOver' /\ InOrder'
    BY <1>1, <1>2, <1>3, ChainStep DEF Active, Rewriting
  <1>5. TypeOK'
    BY <1>1, <1>2, <1>3 DEF TypeOK
  <1>6. /\ diskEpoch' = diskEpoch /\ ~InTime(i)'
        /\ \A j \in Tasks : j # i => tasks'[j] = tasks[j]
        /\ \A j \in Tasks : InTime(j)' <=> j # i /\ InTime(j)
    BY <1>1, <1>2, <1>3 DEF KeepsPlace, Others, InTime
  <1>7. OnDisk' = OnDisk /\ Ents' = Ents /\ Unknown' = Unknown /\ (Repairing' <=> Repairing)
    BY <1>3 DEF OnDisk, Ents, Unknown, Repairing
  <1>8. FenceHolds' /\ RepairAlone' /\ RepairIsCurrent' /\ BatchPlaced' /\ RolledBack'
    <2>1. FenceHolds' /\ RepairAlone'
      BY <1>3, <1>6, <1>7 DEF JournalIInv, FenceHolds, RepairAlone, Active, Rewriting
    <2> QED
      BY <1>3, <1>7, <2>1 DEF JournalIInv, RepairIsCurrent, BatchPlaced, RolledBack, Without
  <1>9. AckedKept' /\ RejectedIsOut'
    BY <1>3, <1>6, <1>7 DEF JournalIInv, AckedKept, RejectedIsOut, Without
  <1>10. BodyIsCurrent'
    BY <1>3, <1>6, <1>7 DEF JournalIInv, BodyIsCurrent, Rewriting
  <1>11. FileIsCurrent' /\ FileIsWanted'
    <2>1. FileIsCurrent'
      BY <1>3, <1>6, <1>7 DEF JournalIInv, FileIsCurrent
    <2>2. FileIsWanted'
      BY <1>3, <1>6, <1>7 DEF JournalIInv, FileIsWanted
    <2> QED
      BY <2>1, <2>2
  <1>12. TitlesDue'
    <2> SUFFICES ASSUME NEW t \in Titles, t \in Ents PROVE TitlesDue!(t)'
      BY <1>7 DEF TitlesDue
    <2>1. TitlesDue!(t)
      BY DEF JournalIInv, TitlesDue
    <2>2. \A j \in Tasks : WillWrite(j, t) => j # i /\ WillWrite(j, t)'
      BY <1>3, <1>6 DEF WillWrite, InTime
    <2>3. (Current /\ ~rewriteRequired /\ ~released)' => Current /\ ~rewriteRequired /\ ~released
      BY <1>3 DEF Current
    <2> QED
      BY <1>6, <1>7, <2>1, <2>2, <2>3
  <1> QED
    BY <1>4, <1>5, <1>8, <1>9, <1>10, <1>11, <1>12 DEF JournalIInv

(* A task of the present epoch succeeds: the file is current. *)
LEMMA TaskSucceeds ==
  ASSUME JournalIInv, NEW i \in Tasks, First(i), InTime(i), Done(i, TRUE), KeepsRest,
         UNCHANGED <<dirty, disk, writer, faults>>, fileIsCurrent' = TRUE,
         \/ /\ tasks[i].pc = "titling" /\ UNCHANGED <<fence, rewriteRequired, diskFailure>>
         \/ /\ tasks[i].pc = "written" /\ ~dirty /\ fence' = LowerFence(tasks[i].epoch)
            /\ rewriteRequired' = FALSE
            /\ diskFailure' = (diskFailure /\ tasks[i].kind = "rewrite")
  PROVE  JournalIInv'
  <1>1. TypeOK /\ EpochsPast /\ InOrder /\ ~Over(i) /\ Active(i) /\ ~Repairing /\ ~released
    BY DEF JournalIInv, Over, Active, Rewriting, RepairAlone, ReleasedIsOver
  <1>2. tasks' \in [Tasks -> TaskType] /\ Others(i) /\ Ends(i)
    BY <1>1, DoneMoves
  <1>3. /\ UNCHANGED <<entries, released, forceFileCreation, diskEpoch, diskTail, batch, repair>>
        /\ UNCHANGED <<acked, rejected, unmarked>>
    BY DEF KeepsRest, callers, history
  <1>4. EpochsPast' /\ ReleasedIsOver' /\ InOrder'
    BY <1>1, <1>2, <1>3, ChainStep
  <1>5. TypeOK'
    <2>1. fence \in 0..diskEpoch /\ diskFailure \in BOOLEAN /\ diskEpoch \in Nat /\ rewriteRequired \in BOOLEAN
      BY <1>1 DEF TypeOK
    <2>2. /\ fence' = fence \/ fence' = LowerFence(tasks[i].epoch)
          /\ rewriteRequired' = rewriteRequired \/ rewriteRequired' = FALSE
          /\ diskFailure' = diskFailure \/ diskFailure' = (diskFailure /\ tasks[i].kind = "rewrite")
      OBVIOUS
    <2>3. fence' \in 0..diskEpoch' /\ diskFailure' \in BOOLEAN /\ rewriteRequired' \in BOOLEAN
      <3>1. (fence' = fence \/ fence' = 0) /\ diskEpoch' = diskEpoch
        BY <1>3, <2>2 DEF LowerFence
      <3>2. fence' \in 0..diskEpoch'
        BY ONLY <2>1, <3>1
      <3> QED
        BY ONLY <2>1, <2>2, <3>2
    <2> QED
      BY <1>1, <1>2, <1>3, <2>3 DEF TypeOK
  <1>6. /\ diskEpoch' = diskEpoch
        /\ \A j \in Tasks : j # i => tasks'[j] = tasks[j]
        /\ \A j \in Tasks : InTime(j)' => j # i /\ InTime(j) /\ tasks'[j].pc = "queued"
    BY <1>1, <1>2, <1>3, Pieces DEF Ends, Others, InTime, First
  <1>7. OnDisk' = OnDisk /\ Ents' = Ents /\ Unknown' = Unknown /\ ~Repairing'
    BY <1>1, <1>3 DEF OnDisk, Ents, Unknown, Repairing
  <1>8. FenceHolds' /\ RepairAlone' /\ RepairIsCurrent' /\ BatchPlaced' /\ RolledBack'
    <2>1. FenceHolds'
      BY <1>3, <1>6 DEF JournalIInv, FenceHolds, Rewriting
    <2> QED
      BY <1>3, <1>7, <2>1 DEF JournalIInv, RepairAlone, RepairIsCurrent, BatchPlaced,
                        RolledBack, Without
  <1>9. AckedKept' /\ RejectedIsOut'
    BY <1>3, <1>6, <1>7 DEF JournalIInv, AckedKept, RejectedIsOut, Without
  <1>10. BodyIsCurrent'
    BY <1>6 DEF BodyIsCurrent, Rewriting
  <1>11. FileIsCurrent' /\ FileIsWanted'
    <2>1. disk # NoFile
      BY <1>1 DEF JournalIInv, FileIsCurrent, EpochsPast
    <2>2. ~rewriteRequired' /\ (~diskFailure' \/ batch.at = "committing") => Unknown \/ Ents \ Titles \subseteq OnDisk
      <3>1. CASE tasks[i].pc = "titling"
        <4>1. fileIsCurrent \/ rewriteRequired
          BY <1>1, <3>1 DEF JournalIInv, FileIsCurrent, EpochsPast
        <4> QED
          BY <1>1, <3>1, <4>1 DEF JournalIInv, FileIsCurrent, TypeOK
      <3>2. CASE tasks[i].pc = "written" /\ ~dirty
        BY <3>2 DEF JournalIInv, BodyIsCurrent
      <3> QED
        BY <3>1, <3>2
    <2>3. FileIsCurrent'
      BY <1>3, <1>6, <1>7, <2>1, <2>2 DEF FileIsCurrent
    <2>4. FileIsWanted'
      BY <1>3, <1>7 DEF JournalIInv, FileIsWanted
    <2> QED
      BY <2>3, <2>4
  <1>12. TitlesDue'
    <2> SUFFICES ASSUME NEW t \in Titles, t \in Ents PROVE TitlesDue!(t)'
      BY <1>7 DEF TitlesDue
    <2>1. TitlesDue!(t)
      BY DEF JournalIInv, TitlesDue
    <2>2. \A j \in Tasks : j # i /\ WillWrite(j, t) => WillWrite(j, t)'
      BY <1>3, <1>6 DEF WillWrite, InTime
    <2>3. (Current /\ ~rewriteRequired)' => t \in OnDisk \/ \E j \in Tasks \ {i} : WillWrite(j, t)
      <3>1. CASE tasks[i].pc = "titling"
        <4>1. fileIsCurrent \/ rewriteRequired
          BY <1>1, <3>1 DEF JournalIInv, FileIsCurrent, EpochsPast
        <4>2. ~WillWrite(i, t)
          BY <3>1 DEF WillWrite
        <4> QED
          BY <1>1, <2>1, <3>1, <4>1, <4>2 DEF Current
      <3>2. CASE tasks[i].pc = "written"
        BY <2>1, <3>2
      <3> QED
        BY <3>1, <3>2
    <2> QED
      BY <1>6, <1>7, <2>2, <2>3
  <1> QED
    BY <1>4, <1>5, <1>8, <1>9, <1>10, <1>11, <1>12 DEF JournalIInv

LEMMA FaultsTyped ==
  ASSUME TypeOK, NEW ok \in BOOLEAN, Outcome(ok)
  PROVE  faults' \in 0..MaxFaults
  BY Constants DEF TypeOK, Outcome

(* Every step of a task, when a title write cannot fail late. *)
LEMMA StartKeeps ==
  ASSUME JournalIInv, NEW i \in Tasks, StartTask(i)
  PROVE  JournalIInv'
  <1>1. TypeOK /\ First(i) /\ tasks[i].pc = "queued" /\ ~Over(i) /\ faults \in 0..MaxFaults
    <2>1. TypeOK /\ tasks[i].pc = "queued" /\ Settled(tasks[i].after)
      BY DEF JournalIInv, StartTask
    <2> QED
      BY <2>1, RunsFirst DEF Over, TypeOK
  <1>2. KeepsRest
    BY DEF StartTask, KeepsRest
  <1>3. CASE /\ tasks[i].epoch # diskEpoch \/ (~diskFailure /\ released)
             /\ Done(i, TRUE)
             /\ UNCHANGED <<fence, dirty, storage, fileIsCurrent, rewriteRequired, diskFailure, faults>>
    <2>1. ~InTime(i)
      BY <1>3 DEF InTime, JournalIInv, ReleasedIsOver
    <2>2. UNCHANGED <<fence, dirty, disk, writer, fileIsCurrent, rewriteRequired, diskFailure, faults>>
      BY <1>3 DEF storage
    <2> QED
      BY <1>1, <1>2, <1>3, <2>1, <2>2, TaskDropped
  <1>4. CASE /\ tasks[i].epoch = diskEpoch /\ diskFailure
             /\ Done(i, FALSE)
             /\ UNCHANGED <<fence, dirty, storage, fileIsCurrent, rewriteRequired, diskFailure, faults>>
    <2>1. UNCHANGED <<fence, dirty, disk, writer, fileIsCurrent, rewriteRequired, diskFailure, faults>>
      BY <1>4 DEF storage
    <2>2. diskFailure' = TRUE
      BY <1>1, <1>4, <2>1 DEF TypeOK
    <2> QED
      BY <1>1, <1>2, <1>4, <2>1, <2>2, TaskDropped
  <1>5. ASSUME tasks[i].epoch = diskEpoch, ~diskFailure
        PROVE  InTime(i) /\ ~Repairing
    BY <1>5 DEF InTime, JournalIInv, RepairAlone
  <1>6. CASE /\ tasks[i].epoch = diskEpoch /\ ~diskFailure
             /\ RaiseFence(i, writer = "broken")
             /\ UNCHANGED <<disk, fileIsCurrent, rewriteRequired, diskFailure, faults>>
    <2>1. /\ tasks' = [tasks EXCEPT ![i].pc = "closing", ![i].bad = (writer = "broken")]
          /\ dirty' = FALSE /\ writer' = "none" /\ fence' = diskEpoch
      BY <1>6 DEF RaiseFence, CloseWriter
    <2>2. (writer = "broken") \in BOOLEAN
      OBVIOUS
    <2> QED
      BY <1>1, <1>2, <1>5, <1>6, <2>1, <2>2, TaskCloses
  <1>7. CASE /\ tasks[i].epoch = diskEpoch /\ ~diskFailure /\ tasks[i].kind = "title"
             /\ Outcome(TRUE) /\ WriteLine(tasks[i].entry, TRUE)
             /\ tasks' = [tasks EXCEPT ![i].pc = "titling"]
             /\ UNCHANGED <<fence, dirty, diskFailure, fileIsCurrent, rewriteRequired>>
    <2>1. faults' \in 0..MaxFaults
      BY <1>1, <1>7, FaultsTyped
    <2> QED
      BY <1>1, <1>2, <1>5, <1>7, <2>1, TaskTitles
  <1>8. CASE /\ tasks[i].epoch = diskEpoch /\ ~diskFailure
             /\ Outcome(FALSE) /\ RaiseFence(i, TRUE)
             /\ diskFailure' = TRUE /\ UNCHANGED <<disk, fileIsCurrent, rewriteRequired>>
    <2>1. faults' \in 0..MaxFaults
      BY <1>1, <1>8, FaultsTyped
    <2>2. /\ tasks' = [tasks EXCEPT ![i].pc = "closing", ![i].bad = TRUE]
          /\ dirty' = FALSE /\ writer' = "none" /\ fence' = diskEpoch
      BY <1>8 DEF RaiseFence, CloseWriter
    <2> QED
      BY <1>1, <1>2, <1>5, <1>8, <2>1, <2>2, TaskCloses
  <1> QED
    BY <1>3, <1>4, <1>6, <1>7, <1>8 DEF StartTask

LEMMA TitleKeeps ==
  ASSUME JournalIInv, NEW i \in Tasks, ~LateTitleFails, TitleWritten(i) \/ TitleCatch(i)
  PROVE  JournalIInv'
  <1>1. /\ TypeOK /\ First(i) /\ tasks[i].pc = "titling" /\ ~Over(i) /\ Active(i)
        /\ faults \in 0..MaxFaults
    <2>1. TypeOK /\ tasks[i].pc = "titling" /\ Active(i)
      BY DEF JournalIInv, TitleWritten, TitleCatch, Active
    <2> QED
      BY <2>1, RunsFirst DEF Over, TypeOK
  <1>2. CASE TitleWritten(i)
    <2>1. /\ KeepsRest /\ Done(i, TRUE) /\ fileIsCurrent' = (fileIsCurrent \/ InTime(i))
          /\ UNCHANGED <<dirty, fence, disk, writer, faults, rewriteRequired, diskFailure>>
      BY <1>2 DEF TitleWritten, KeepsRest, fencing, storage, callers, history, InTime
    <2>2. CASE InTime(i)
      <3>1. fileIsCurrent' = TRUE
        BY <2>1, <2>2
      <3> QED
        BY <1>1, <2>1, <2>2, <3>1, TaskSucceeds
    <2>3. CASE ~InTime(i)
      <3>1. fileIsCurrent' = fileIsCurrent
        BY <1>1, <2>1, <2>3 DEF TypeOK
      <3> QED
        BY <1>1, <2>1, <2>3, <3>1, TaskDropped
    <2> QED
      BY <2>2, <2>3
  <1>3. CASE TitleCatch(i)
    <2>1. InTime(i) /\ ~released /\ ~Repairing
      BY <1>1, <1>3 DEF TitleCatch, InTime, JournalIInv, ReleasedIsOver, RepairAlone
    <2>2. /\ KeepsRest /\ UNCHANGED <<disk, fileIsCurrent, rewriteRequired, diskFailure>>
          /\ tasks' = [tasks EXCEPT ![i].pc = "closing", ![i].bad = (writer = "broken")]
          /\ dirty' = FALSE /\ writer' = "none" /\ fence' = diskEpoch
      BY <1>3, <2>1 DEF TitleCatch, RaiseFence, CloseWriter, KeepsRest, flags, callers, history, InTime
    <2>3. faults' \in 0..MaxFaults /\ (writer = "broken") \in BOOLEAN
      BY <1>1, <1>3, FaultsTyped DEF TitleCatch
    <2> QED
      BY <1>1, <2>1, <2>2, <2>3, TaskCloses
  <1> QED
    BY <1>2, <1>3

LEMMA RewriteKeeps ==
  ASSUME JournalIInv, NEW i \in Tasks, WriterClosed(i) \/ Publish(i) \/ Published(i)
  PROVE  JournalIInv'
  <1>1. TypeOK /\ First(i) /\ ~Over(i) /\ Active(i) /\ Rewriting(i) /\ faults \in 0..MaxFaults
    <2>1. TypeOK /\ Rewriting(i) /\ Active(i)
      BY DEF JournalIInv, WriterClosed, Publish, Published, Active, Rewriting
    <2> QED
      BY <2>1, RunsFirst DEF Over, Rewriting, TypeOK
  <1>2. CASE WriterClosed(i)
    <2>1. /\ KeepsRest /\ UNCHANGED <<dirty, disk, writer, fileIsCurrent, rewriteRequired, faults>>
          /\ tasks[i].pc = "closing"
      BY <1>2 DEF WriterClosed, KeepsRest, storage, callers, history
    <2>2. CASE TaskFails(i)
      <3>1. Done(i, FALSE) /\ diskFailure' = TRUE /\ fence' = LowerFence(tasks[i].epoch)
        BY <2>2 DEF TaskFails
      <3> QED
        BY <1>1, <2>1, <3>1, TaskDropped
    <2>3. CASE /\ tasks[i].epoch # diskEpoch
               /\ Done(i, TRUE) /\ fence' = LowerFence(tasks[i].epoch)
               /\ UNCHANGED diskFailure
      BY <1>1, <2>1, <2>3, TaskDropped DEF InTime
    <2>4. CASE /\ tasks[i].epoch = diskEpoch
               /\ tasks' = [tasks EXCEPT ![i].pc = "writing", ![i].body = entries]
               /\ UNCHANGED <<fence, diskFailure>>
      BY <1>1, <2>1, <2>4, TaskSerializes DEF InTime
    <2> QED
      BY <1>2, <2>2, <2>3, <2>4 DEF WriterClosed
  <1>3. CASE Publish(i)
    <2>1. /\ KeepsRest /\ UNCHANGED <<dirty, fileIsCurrent, rewriteRequired>>
          /\ tasks[i].pc = "writing"
      BY <1>3 DEF Publish, KeepsRest, callers, history
    <2>2. CommitGuard(tasks[i].epoch) <=> InTime(i)
      BY DEF CommitGuard, InTime, JournalIInv, ReleasedIsOver
    <2>3. PICK ok \in BOOLEAN, lands \in BOOLEAN :
            /\ Outcome(ok) /\ (ok => lands)
            /\ IF lands /\ CommitGuard(tasks[i].epoch)
               THEN Replace(tasks[i].body) ELSE UNCHANGED storage
            /\ IF ok THEN /\ tasks' = [tasks EXCEPT ![i].pc = "written", ![i].body = <<>>]
                          /\ UNCHANGED <<fence, diskFailure>>
                     ELSE TaskFails(i)
      BY <1>3 DEF Publish
    <2>4. faults' \in 0..MaxFaults
      BY <1>1, <2>3, FaultsTyped
    <2>5. CASE lands /\ InTime(i)
      <3>1. Replace(tasks[i].body)
        BY <2>2, <2>3, <2>5
      <3>2. \/ /\ tasks' = [tasks EXCEPT ![i].pc = "written", ![i].body = <<>>]
               /\ UNCHANGED <<fence, diskFailure>>
            \/ TaskFails(i)
        BY <2>3
      <3> QED
        BY ONLY <1>1, <2>1, <2>4, <2>5, <3>1, <3>2, TaskLands, JournalIInv
    <2>6. CASE ~(lands /\ InTime(i))
      <3>1. UNCHANGED <<disk, writer>>
        BY <2>2, <2>3, <2>6 DEF storage
      <3>2. CASE ok
        <4>1. /\ tasks' = [tasks EXCEPT ![i].pc = "written", ![i].body = <<>>]
              /\ UNCHANGED <<fence, diskFailure>> /\ ~InTime(i)
          BY <2>3, <2>6, <3>2
        <4> QED
          BY <1>1, <2>1, <2>4, <3>1, <4>1, TaskPasses
      <3>3. CASE ~ok
        <4>1. Done(i, FALSE) /\ diskFailure' = TRUE /\ fence' = LowerFence(tasks[i].epoch)
          BY <2>3, <3>3 DEF TaskFails
        <4> QED
          BY <1>1, <2>1, <2>4, <3>1, <4>1, TaskDropped
      <3> QED
        BY <3>2, <3>3
    <2> QED
      BY <2>5, <2>6
  <1>4. CASE Published(i)
    <2>1. KeepsRest /\ UNCHANGED <<disk, faults>> /\ tasks[i].pc = "written"
      BY <1>4 DEF Published, KeepsRest, callers, history
    <2>2. CASE InTime(i) /\ dirty
      <3>1. ~Repairing /\ fence = diskEpoch
        BY <1>1, <2>2 DEF JournalIInv, RepairAlone, FenceHolds
      <3>2. /\ tasks' = [tasks EXCEPT ![i].pc = "closing", ![i].bad = (writer = "broken")]
            /\ dirty' = FALSE /\ writer' = "none" /\ fence' = diskEpoch
            /\ UNCHANGED <<fileIsCurrent, rewriteRequired, diskFailure>>
            /\ (writer = "broken") \in BOOLEAN
        BY <1>4, <2>2, <3>1 DEF Published, CloseWriter, InTime
      <3> QED
        BY <1>1, <2>1, <2>2, <3>1, <3>2, TaskCloses
    <2>3. CASE InTime(i) /\ ~dirty
      <3>1. /\ Done(i, TRUE) /\ fence' = LowerFence(tasks[i].epoch)
            /\ fileIsCurrent' = TRUE /\ rewriteRequired' = FALSE
            /\ diskFailure' = (diskFailure /\ tasks[i].kind = "rewrite")
            /\ UNCHANGED <<dirty, writer>>
        BY <1>4, <2>3 DEF Published, InTime
      <3> QED
        BY <1>1, <2>1, <2>3, <3>1, TaskSucceeds
    <2>4. CASE ~InTime(i)
      <3>1. /\ Done(i, TRUE) /\ fence' = LowerFence(tasks[i].epoch)
            /\ UNCHANGED <<fileIsCurrent, rewriteRequired, diskFailure, dirty, writer>>
        BY <1>4, <2>4 DEF Published, InTime
      <3> QED
        BY <1>1, <2>1, <2>4, <3>1, TaskDropped
    <2> QED
      BY <2>2, <2>3, <2>4
  <1> QED
    BY <1>2, <1>3, <1>4

-----------------------------------------------------------------------------
(* A new entry. *)
LEMMA EntryRecorded ==
  ASSUME JournalIInv, NEW e \in Messages \cup Titles, Fresh(e), ~released, UNCHANGED <<released, batch>>,
         entries' = Append(entries, e)
  PROVE  /\ entries' \in Seq(Entries) /\ RangeOf(entries') = Ents \cup {e} /\ Ents' = Ents \cup {e}
         /\ e \in Entries /\ e \notin Ents \cup OnDisk \cup acked \cup rejected \cup RangeOf(Staged)
         /\ BatchPlaced'
  <1>1. TypeOK /\ BatchPlaced
    BY DEF JournalIInv
  <1>2. /\ entries \in Seq(Entries) /\ e \in Entries /\ e \notin RangeOf(Staged)
        /\ Len(entries) \in Nat /\ Len(Staged) \in Nat /\ batch.from \in Nat
    BY <1>1, Pieces, Constants
  <1>3. /\ entries' \in Seq(Entries) /\ RangeOf(entries') = Ents \cup {e}
        /\ Len(entries') = Len(entries) + 1
    BY <1>2, RangeAppend DEF Ents
  <1>4. entries'[Len(entries) + 1] = e /\ \A k \in 1..Len(entries) : entries'[k] = entries[k]
    BY <1>2
  <1>5. BatchPlaced'
    <2> SUFFICES ASSUME batch.at = "committing"
                 PROVE  /\ batch.from + Len(Staged) <= Len(entries')
                        /\ \A k \in 1..Len(entries') :
                             entries'[k] \in RangeOf(Staged) <=>
                               k \in (batch.from + 1)..(batch.from + Len(Staged))
      BY DEF BatchPlaced
    <2>1. /\ batch.from + Len(Staged) <= Len(entries)
          /\ \A k \in 1..Len(entries) :
               entries[k] \in RangeOf(Staged) <=> k \in (batch.from + 1)..(batch.from + Len(Staged))
      BY <1>1 DEF BatchPlaced
    <2>2. batch.from + Len(Staged) <= Len(entries')
      BY <1>2, <1>3, <2>1
    <2>3. ASSUME NEW k \in 1..Len(entries')
          PROVE  entries'[k] \in RangeOf(Staged) <=> k \in (batch.from + 1)..(batch.from + Len(Staged))
      <3>1. k \in 1..Len(entries) \/ k = Len(entries) + 1
        BY <1>2, <1>3
      <3>2. Len(entries) + 1 \notin (batch.from + 1)..(batch.from + Len(Staged))
        BY <1>2, <2>1
      <3> QED
        BY <1>2, <1>4, <2>1, <3>1, <3>2
    <2> QED
      BY <2>2, <2>3
  <1> QED
    BY <1>2, <1>3, <1>5 DEF Ents, Fresh

(* No task of the present epoch is left. *)
Quiet == \A i \in Tasks : ~InTime(i)

LEMMA NewEpoch ==
  ASSUME JournalIInv, diskEpoch' = diskEpoch + 1, tasks' = tasks, repair'.epoch <= diskEpoch'
  PROVE  /\ EpochsPast' /\ InOrder' /\ Quiet' /\ BodyIsCurrent'
         /\ repair' = repair => ~Repairing'
  <1>1. /\ TypeOK /\ EpochsPast /\ diskEpoch \in Nat /\ repair.epoch \in Nat
        /\ \A i \in Tasks : tasks[i].epoch \in Nat
    BY Pieces, TaskPieces DEF JournalIInv
  <1>2. Quiet'
    BY <1>1 DEF Quiet, InTime, EpochsPast
  <1>3. EpochsPast'
    BY <1>1 DEF EpochsPast, Over
  <1>4. repair' = repair => ~Repairing'
    BY <1>1 DEF Repairing, EpochsPast
  <1> QED
    BY <1>2, <1>3, <1>4 DEF Quiet, InOrder, BodyIsCurrent

(* What is left to show when no task of the present epoch remains and no   *)
(* repair either. *)
LEMMA QuietHolds ==
  ASSUME TypeOK', EpochsPast', InOrder', Quiet', ~Repairing', writer' # "detached",
         (batch.at = "committing" => repair.at = "none")',
         (acked \subseteq OnDisk)', (~released => acked \subseteq Ents)',
         (batch.at = "committing" => acked \cap RangeOf(Staged) = {})',
         (fileIsCurrent => disk # NoFile)',
         (fileIsCurrent /\ ~rewriteRequired /\ (~diskFailure \/ batch.at = "committing") =>
            Unknown \/ Ents \ Titles \subseteq OnDisk)',
         (~released /\ fileIsCurrent => forceFileCreation \/ Ents \cap Assistants # {})',
         (Current /\ ~rewriteRequired /\ ~released => Titles \cap Ents \subseteq OnDisk)',
         BatchPlaced',
         (batch.at = "repairing" => RangeOf(Staged) \cap Ents = {})',
         (rejected \cap Ents = {})', (rejected \cap OnDisk = {})'
  PROVE  JournalIInv'
  <1>1. ReleasedIsOver' /\ FenceHolds' /\ RepairAlone' /\ RepairIsCurrent'
    BY DEF ReleasedIsOver, FenceHolds, RepairAlone, RepairIsCurrent, Quiet
  <1>2. AckedKept' /\ RolledBack' /\ RejectedIsOut'
    BY DEF AckedKept, RolledBack, RejectedIsOut, Without, Quiet
  <1>3. BodyIsCurrent' /\ FileIsWanted'
    BY DEF BodyIsCurrent, FileIsWanted, Quiet
  <1>4. FileIsCurrent'
    BY DEF FileIsCurrent, Quiet
  <1>5. TitlesDue'
    BY DEF TitlesDue, Quiet
  <1> QED
    BY <1>1, <1>2, <1>3, <1>4, <1>5 DEF JournalIInv

(* A synchronous rewrite of what is recorded, one new entry included. *)
LEMMA SyncKeeps ==
  ASSUME JournalIInv, ~released, NEW ok \in BOOLEAN, NEW current \in BOOLEAN, NEW required \in BOOLEAN,
         \/ UNCHANGED entries
         \/ \E e \in Messages \cup Titles : Fresh(e) /\ entries' = Append(entries, e),
         RewriteSync(entries', ok, current, required), ShouldHaveFile(entries', current),
         current => fileIsCurrent, batch.at = "committing" => ~current,
         UNCHANGED <<released, forceFileCreation, fence, tasks, callers, rejected>>,
         dirty' \in BOOLEAN, faults' \in 0..MaxFaults
  PROVE  JournalIInv'
  <1>1. TypeOK /\ BatchPlaced /\ acked \subseteq Ents /\ acked \subseteq OnDisk
    BY DEF JournalIInv, AckedKept
  <1>2. UNCHANGED <<batch, repair>>
    BY DEF callers
  <1>3. /\ entries' \in Seq(Entries) /\ Ents' = RangeOf(entries') /\ Ents \subseteq Ents'
        /\ BatchPlaced' /\ (Ents' \ Ents) \cap (rejected \cup RangeOf(Staged)) = {}
    <2>1. CASE UNCHANGED entries
      BY <1>1, <1>2, <2>1, Pieces DEF Ents, BatchPlaced
    <2>2. CASE \E e \in Messages \cup Titles : Fresh(e) /\ entries' = Append(entries, e)
      <3>1. PICK e \in Messages \cup Titles : Fresh(e) /\ entries' = Append(entries, e)
        BY <2>2
      <3> QED
        BY <1>2, <3>1, EntryRecorded
    <2> QED
      BY <2>1, <2>2
  <1>4. /\ diskEpoch' = diskEpoch + 1 /\ diskTail' = 0 /\ writer' = "none"
        /\ disk' = (IF ok THEN entries' ELSE disk)
        /\ diskFailure' = ~ok
        /\ fileIsCurrent' = (ok \/ current) /\ rewriteRequired' = (~ok /\ required)
        /\ acked' = (IF ok THEN acked \cup (RangeOf(entries') \ InBatch) ELSE acked)
        /\ unmarked' = (unmarked /\ ~ok)
    BY DEF RewriteSync
  <1>5. /\ OnDisk' = (IF ok THEN Ents' ELSE OnDisk) /\ (disk' = NoFile => ~ok /\ disk = NoFile)
        /\ disk' \in Seq(Entries) \cup {NoFile}
    BY <1>1, <1>3, <1>4, Constants DEF OnDisk, TypeOK
  <1>6. /\ acked' \subseteq OnDisk' /\ acked' \subseteq Ents' /\ acked' \subseteq Entries
        /\ batch.at = "committing" => acked' \cap RangeOf(Staged) = {}
    <2>1. Ents' \subseteq Entries
      BY <1>3, RangeTyped
    <2>2. batch.at = "committing" => acked \cap RangeOf(Staged) = {} /\ InBatch = RangeOf(Staged)
      BY DEF JournalIInv, AckedKept, InBatch
    <2> QED
      BY <1>1, <1>3, <1>4, <1>5, <2>1, <2>2
  <1>7. TypeOK'
    <2>1. /\ diskEpoch \in Nat /\ fence \in 0..diskEpoch /\ 0 \in 0..MaxTasks
          /\ unmarked \in BOOLEAN
      BY <1>1, Constants DEF TypeOK
    <2>2. /\ fence' \in 0..diskEpoch' /\ diskEpoch' \in Nat \ {0} /\ diskTail' \in 0..MaxTasks
      BY <1>4, <2>1
    <2>3. /\ diskFailure' \in BOOLEAN /\ fileIsCurrent' \in BOOLEAN /\ rewriteRequired' \in BOOLEAN
          /\ unmarked' \in BOOLEAN
      BY <1>4, <2>1
    <2> QED
      BY <1>1, <1>2, <1>3, <1>4, <1>5, <1>6, <2>2, <2>3 DEF TypeOK
  <1>8. EpochsPast' /\ InOrder' /\ Quiet' /\ ~Repairing'
    <2>1. repair'.epoch <= diskEpoch'
      BY <1>1, <1>2, <1>4, Pieces DEF JournalIInv, EpochsPast
    <2> QED
      BY <1>2, <1>4, <2>1, NewEpoch
  <1>9. /\ (batch.at = "committing" => repair.at = "none")'
        /\ (batch.at = "repairing" => RangeOf(Staged) \cap Ents = {})'
        /\ (rejected \cap Ents = {})' /\ (rejected \cap OnDisk = {})'
    BY <1>2, <1>3, <1>5 DEF JournalIInv, RepairAlone, RolledBack, RejectedIsOut, Without
  <1>10. /\ (fileIsCurrent => disk # NoFile)'
         /\ (fileIsCurrent /\ ~rewriteRequired /\ (~diskFailure \/ batch.at = "committing") =>
               Unknown \/ Ents \ Titles \subseteq OnDisk)'
         /\ (Current /\ ~rewriteRequired /\ ~released => Titles \cap Ents \subseteq OnDisk)'
    BY <1>2, <1>4, <1>5 DEF JournalIInv, FileIsCurrent, Current
  <1>11. (~released /\ fileIsCurrent => forceFileCreation \/ Ents \cap Assistants # {})'
    <2>1. forceFileCreation \/ current \/ RangeOf(entries') \cap Assistants # {}
      BY DEF ShouldHaveFile
    <2>2. current => forceFileCreation \/ Ents \cap Assistants # {}
      BY DEF JournalIInv, FileIsWanted
    <2> QED
      BY <1>3, <2>1, <2>2
  <1>12. (writer # "detached")' /\ (~released => acked \subseteq Ents)'
         /\ (batch.at = "committing" => acked \cap RangeOf(Staged) = {})'
    BY <1>2, <1>4, <1>6
  <1> QED
    BY ONLY <1>3, <1>4, <1>6, <1>7, <1>8, <1>9, <1>10, <1>11, <1>12, QuietHolds

LEMMA RewritesKeep ==
  ASSUME JournalIInv, FlushSync \/ \E e \in Messages : AppendByRewrite(e)
  PROVE  JournalIInv'
  <1>1. TypeOK /\ fileIsCurrent \in BOOLEAN /\ rewriteRequired \in BOOLEAN /\ dirty \in BOOLEAN
        /\ diskFailure \in BOOLEAN
    BY DEF JournalIInv, TypeOK
  <1>2. CASE FlushSync
    <2>1. PICK ok \in BOOLEAN : Outcome(ok) /\ RewriteSync(entries, ok, fileIsCurrent, rewriteRequired)
      BY <1>2 DEF FlushSync
    <2>2. /\ UNCHANGED <<released, forceFileCreation, fence, tasks, callers, rejected>>
          /\ UNCHANGED <<dirty, entries>> /\ ~released /\ batch.at = "none"
          /\ ShouldHaveFile(entries, fileIsCurrent)
      BY <1>2 DEF FlushSync
    <2>3. faults' \in 0..MaxFaults /\ dirty' \in BOOLEAN
      BY <1>1, <2>1, <2>2, FaultsTyped
    <2>4. /\ RewriteSync(entries', ok, fileIsCurrent, rewriteRequired)
          /\ ShouldHaveFile(entries', fileIsCurrent)
      BY <2>1, <2>2
    <2> QED
      BY ONLY JournalIInv, <1>1, <2>2, <2>3, <2>4, SyncKeeps
  <1>3. CASE \E e \in Messages : AppendByRewrite(e)
    <2>1. PICK e \in Messages : AppendByRewrite(e)
      BY <1>3
    <2>2. PICK ok \in BOOLEAN :
            /\ Outcome(ok)
            /\ RewriteSync(entries', ok, Current, rewriteRequired \/ diskFailure)
      BY <2>1 DEF AppendByRewrite
    <2>3. /\ UNCHANGED <<released, forceFileCreation, fence, tasks, callers, rejected>>
          /\ ~released /\ batch.at = "none" /\ Fresh(e) /\ entries' = Append(entries, e)
          /\ ShouldHaveFile(entries', Current) /\ dirty' = (dirty \/ Fenced)
      BY <2>1 DEF AppendByRewrite
    <2>4. /\ faults' \in 0..MaxFaults /\ dirty' \in BOOLEAN /\ Current \in BOOLEAN
          /\ (rewriteRequired \/ diskFailure) \in BOOLEAN /\ (Current => fileIsCurrent)
      BY <1>1, <2>2, <2>3, FaultsTyped DEF Current, Fenced
    <2>5. \E m \in Messages \cup Titles : Fresh(m) /\ entries' = Append(entries, m)
      BY <2>3
    <2> QED
      BY ONLY JournalIInv, <2>2, <2>3, <2>4, <2>5, SyncKeeps
  <1> QED
    BY <1>2, <1>3

-----------------------------------------------------------------------------
(* Appends that touch no task. *)

(* What the next three leave to show: the epoch stands, and so do the tasks. *)
LEMMA ChainStands ==
  ASSUME JournalIInv, UNCHANGED <<released, diskEpoch, diskTail, tasks, repair>>
  PROVE  /\ EpochsPast' /\ ReleasedIsOver' /\ InOrder' /\ (Repairing' <=> Repairing)
         /\ \A i \in Tasks : InTime(i)' <=> InTime(i)
         /\ \A i \in Tasks, t \in Titles : WillWrite(i, t)' <=> WillWrite(i, t)
  <1>1. \A i \in Tasks : InTime(i)' <=> InTime(i)
    BY DEF InTime
  <1>2. EpochsPast' /\ ReleasedIsOver'
    BY DEF JournalIInv, EpochsPast, ReleasedIsOver, InTime, Repairing, Over
  <1>3. InOrder'
    BY DEF JournalIInv, InOrder, InTime, Active, Rewriting
  <1> QED
    BY <1>1, <1>2, <1>3 DEF Repairing, WillWrite, InTime

(* Before the lazy gate has opened nothing is wanted and nothing is there. *)
LEMMA LazyKeeps ==
  ASSUME JournalIInv, ~released, NEW e \in Messages \cup Titles, Fresh(e),
         entries' = Append(entries, e), ~forceFileCreation, RangeOf(entries') \cap Assistants = {},
         fileIsCurrent' = FALSE, rewriteRequired' \in BOOLEAN,
         UNCHANGED <<released, forceFileCreation, diskFailure, diskEpoch, diskTail, fence, dirty>>,
         UNCHANGED <<disk, writer, tasks, batch, repair, acked, rejected, unmarked, faults>>
  PROVE  JournalIInv'
  <1>1. TypeOK /\ RepairAlone /\ FileIsWanted /\ RolledBack /\ RejectedIsOut /\ AckedKept /\ FenceHolds
    BY DEF JournalIInv
  <1>2. /\ entries' \in Seq(Entries) /\ Ents' = Ents \cup {e} /\ BatchPlaced'
        /\ RangeOf(entries') = Ents' /\ e \notin rejected \cup RangeOf(Staged)
    BY EntryRecorded
  <1>3. Quiet /\ ~Repairing
    BY <1>1, <1>2 DEF FileIsWanted, RepairAlone, Quiet
  <1>4. EpochsPast' /\ InOrder' /\ Quiet' /\ ~Repairing'
    BY <1>3, ChainStands DEF Quiet
  <1>5. TypeOK'
    BY <1>1, <1>2 DEF TypeOK
  <1>6. OnDisk' = OnDisk
    BY DEF OnDisk
  <1>7. /\ writer' # "detached" /\ (batch.at = "committing" => repair.at = "none")'
        /\ (acked \subseteq OnDisk)' /\ (~released => acked \subseteq Ents)'
        /\ (batch.at = "committing" => acked \cap RangeOf(Staged) = {})'
    BY <1>1, <1>2, <1>6 DEF FenceHolds, RepairAlone, AckedKept
  <1>8. /\ (batch.at = "repairing" => RangeOf(Staged) \cap Ents = {})'
        /\ (rejected \cap Ents = {})' /\ (rejected \cap OnDisk = {})'
    BY <1>1, <1>2, <1>6 DEF RolledBack, RejectedIsOut, Without
  <1>9. ~fileIsCurrent' /\ ~Current'
    BY DEF Current
  <1> QED
    BY ONLY <1>2, <1>4, <1>5, <1>7, <1>8, <1>9, QuietHolds

LEMMA LazilyKeeps ==
  ASSUME JournalIInv, NEW e \in Messages, AppendLazily(e)
  PROVE  JournalIInv'
  <1>1. /\ ~released /\ Fresh(e) /\ entries' = Append(entries, e) /\ e \in Messages \cup Titles
        /\ ~forceFileCreation /\ RangeOf(entries') \cap Assistants = {}
        /\ fileIsCurrent' = FALSE /\ rewriteRequired' = (rewriteRequired \/ diskFailure)
    BY DEF AppendLazily, ShouldHaveFile
  <1>2. rewriteRequired' \in BOOLEAN
    BY <1>1 DEF JournalIInv, TypeOK
  <1>3. /\ UNCHANGED <<released, forceFileCreation, diskFailure, diskEpoch, diskTail, fence, dirty>>
        /\ UNCHANGED <<disk, writer, tasks, batch, repair, acked, rejected, unmarked, faults>>
    BY DEF AppendLazily, fencing, storage, callers, history
  <1> QED
    BY ONLY JournalIInv, <1>1, <1>2, <1>3, LazyKeeps

(* Inside a batch: its rewrite, or the repair, takes another turn. *)
LEMMA BatchedKeeps ==
  ASSUME JournalIInv, NEW e \in Messages, AppendToBatch(e)
  PROVE  JournalIInv'
  <1>1. TypeOK
    BY DEF JournalIInv
  <1>2. /\ ~released /\ Fresh(e) /\ entries' = Append(entries, e) /\ e \in Messages \cup Titles
        /\ fileIsCurrent' = FALSE /\ rewriteRequired' = TRUE /\ dirty' = TRUE /\ batch.at # "none"
        /\ UNCHANGED <<released, forceFileCreation, diskFailure, diskEpoch, diskTail, fence>>
        /\ UNCHANGED <<disk, writer, tasks, batch, repair, acked, rejected, unmarked, faults>>
    BY DEF AppendToBatch, storage, callers, history
  <1>3. /\ entries' \in Seq(Entries) /\ Ents' = Ents \cup {e} /\ BatchPlaced'
        /\ e \notin rejected \cup RangeOf(Staged) /\ e \notin Titles
    BY <1>2, EntryRecorded, Constants
  <1>4. /\ EpochsPast' /\ ReleasedIsOver' /\ InOrder' /\ (Repairing' <=> Repairing)
        /\ \A i \in Tasks : InTime(i)' <=> InTime(i)
        /\ \A i \in Tasks, t \in Titles : WillWrite(i, t)' <=> WillWrite(i, t)
    BY <1>2, ChainStands
  <1>5. TypeOK'
    BY <1>1, <1>2, <1>3 DEF TypeOK
  <1>6. OnDisk' = OnDisk
    BY <1>2 DEF OnDisk
  <1>7. FenceHolds' /\ RepairAlone'
    BY <1>2, <1>4 DEF JournalIInv, FenceHolds, RepairAlone, Rewriting, Active
  <1>8. AckedKept' /\ BodyIsCurrent' /\ RepairIsCurrent'
    BY <1>2, <1>3, <1>4, <1>6 DEF JournalIInv, AckedKept, BodyIsCurrent, RepairIsCurrent
  <1>9. FileIsCurrent'
    BY <1>2, <1>4 DEF JournalIInv, FileIsCurrent
  <1>10. FileIsWanted'
    BY <1>2, <1>3, <1>4 DEF JournalIInv, FileIsWanted
  <1>11. TitlesDue'
    <2> SUFFICES ASSUME NEW t \in Titles, t \in Ents PROVE TitlesDue!(t)'
      BY <1>3 DEF TitlesDue
    <2>1. TitlesDue!(t)
      BY DEF JournalIInv, TitlesDue
    <2> QED
      BY <1>2, <1>4, <1>6, <2>1
  <1>12. RolledBack' /\ RejectedIsOut'
    BY <1>2, <1>3, <1>4, <1>6 DEF JournalIInv, RolledBack, RejectedIsOut, Without
  <1> QED
    BY <1>3, <1>4, <1>5, <1>7, <1>8, <1>9, <1>10, <1>11, <1>12 DEF JournalIInv

(* The hot path: the file is current, and no rewrite is under way. *)
LEMMA HotKeeps ==
  ASSUME JournalIInv, NEW e \in Messages, AppendHot(e)
  PROVE  JournalIInv'
  <1>1. TypeOK /\ FenceHolds /\ RepairAlone /\ diskEpoch \in Nat \ {0}
    BY DEF JournalIInv, TypeOK
  <1>2. PICK ok \in BOOLEAN :
          /\ Outcome(ok)
          /\ WriteLine(e, ok)
          /\ fileIsCurrent' = ok /\ rewriteRequired' = ~ok /\ diskFailure' = ~ok
          /\ acked' = IF ok THEN acked \cup {e} ELSE acked
    BY DEF AppendHot
  <1>3. /\ batch.at = "none" /\ ~released /\ Fresh(e) /\ entries' = Append(entries, e)
        /\ fileIsCurrent /\ ~diskFailure /\ ~rewriteRequired /\ fence # diskEpoch
        /\ e \in Messages \cup Titles
    BY <1>1 DEF AppendHot, Current, Fenced
  <1>4. /\ UNCHANGED <<released, forceFileCreation, diskEpoch, diskTail, fence, dirty, tasks>>
        /\ UNCHANGED <<batch, repair, rejected, unmarked>>
    BY DEF AppendHot, fencing, callers
  <1>5. /\ entries' \in Seq(Entries) /\ Ents' = Ents \cup {e} /\ BatchPlaced' /\ e \in Entries
        /\ e \notin rejected \cup RangeOf(Staged) /\ e \notin Titles
    BY <1>3, <1>4, EntryRecorded, Constants
  <1>6. ~Repairing /\ \A i \in Tasks : InTime(i) => ~Rewriting(i)
    BY <1>1, <1>3 DEF FenceHolds, RepairAlone
  <1>7. /\ EpochsPast' /\ ReleasedIsOver' /\ InOrder' /\ ~Repairing'
        /\ \A i \in Tasks : InTime(i)' <=> InTime(i)
        /\ \A i \in Tasks, t \in Titles : WillWrite(i, t)' <=> WillWrite(i, t)
    BY <1>4, <1>6, ChainStands
  <1>8. /\ disk # NoFile /\ disk \in Seq(Entries) /\ OnDisk = RangeOf(disk)
    BY <1>1, <1>3, Pieces DEF JournalIInv, FileIsCurrent
  <1>9. /\ disk' \in Seq(Entries) /\ disk' # NoFile /\ OnDisk' = (IF ok THEN OnDisk \cup {e} ELSE OnDisk)
    <2>1. disk' = IF ok THEN Append(disk, e) ELSE disk
      BY <1>1, <1>2 DEF WriteLine, FenceHolds
    <2>2. Append(disk, e) \in Seq(Entries) /\ RangeOf(Append(disk, e)) = RangeOf(disk) \cup {e}
      BY <1>5, <1>8, RangeAppend
    <2>3. disk' \in Seq(Entries) /\ RangeOf(disk') = (IF ok THEN RangeOf(disk) \cup {e} ELSE RangeOf(disk))
      BY <1>8, <2>1, <2>2
    <2>4. disk' # NoFile
      BY <2>3, Constants
    <2> QED
      BY <1>8, <2>3, <2>4 DEF OnDisk
  <1>10. writer' \in {"none", "open", "broken"}
    BY <1>1, <1>2 DEF WriteLine, FenceHolds, TypeOK
  <1>11. TypeOK'
    <2>1. faults' \in 0..MaxFaults
      BY <1>1, <1>2, FaultsTyped
    <2>2. acked' \subseteq Entries
      BY <1>1, <1>2, <1>5 DEF TypeOK
    <2>3. fileIsCurrent' \in BOOLEAN /\ rewriteRequired' \in BOOLEAN /\ diskFailure' \in BOOLEAN
      BY <1>2
    <2> QED
      BY <1>1, <1>4, <1>5, <1>9, <1>10, <2>1, <2>2, <2>3 DEF TypeOK
  <1>12. FenceHolds' /\ RepairAlone' /\ BodyIsCurrent' /\ RepairIsCurrent'
    BY <1>1, <1>4, <1>6, <1>7, <1>10 DEF FenceHolds, RepairAlone, BodyIsCurrent, RepairIsCurrent, Rewriting
  <1>13. AckedKept'
    <2>1. acked' \subseteq acked \cup {e} /\ (ok => OnDisk' = OnDisk \cup {e}) /\ (~ok => acked' = acked)
      BY <1>2, <1>9
    <2> QED
      BY <1>3, <1>4, <1>5, <1>6, <1>7, <1>9, <2>1 DEF JournalIInv, AckedKept, Rewriting
  <1>14. FileIsCurrent'
    <2>1. Unknown' = Unknown
      BY <1>4 DEF Unknown
    <2>2. Unknown \/ Ents \ Titles \subseteq OnDisk
      BY <1>3 DEF JournalIInv, FileIsCurrent
    <2> QED
      BY <1>2, <1>4, <1>5, <1>7, <1>9, <2>1, <2>2 DEF FileIsCurrent
  <1>15. FileIsWanted'
    BY <1>3, <1>4, <1>5 DEF JournalIInv, FileIsWanted
  <1>16. TitlesDue'
    <2> SUFFICES ASSUME NEW t \in Titles, t \in Ents PROVE TitlesDue!(t)'
      BY <1>5 DEF TitlesDue
    <2>1. t \in OnDisk \/ \E i \in Tasks : WillWrite(i, t)
      BY <1>3 DEF JournalIInv, TitlesDue, Current
    <2>2. \A i \in Tasks : InTime(i)' => tasks'[i].pc \notin {"writing", "written"}
      BY <1>4, <1>6, <1>7 DEF Rewriting
    <2> QED
      BY <1>7, <1>9, <2>1, <2>2
  <1>17. RolledBack' /\ RejectedIsOut'
    BY <1>3, <1>4, <1>5, <1>6, <1>7, <1>9 DEF JournalIInv, RolledBack, RejectedIsOut, Without, Rewriting
  <1> QED
    BY <1>5, <1>7, <1>11, <1>12, <1>13, <1>14, <1>15, <1>16, <1>17 DEF JournalIInv

-----------------------------------------------------------------------------
(* Scheduled tasks. *)

(* The new task is the last of the present epoch. *)
NewTask(i, kind, e) ==
    /\ tasks[i].pc = "free" /\ tasks'[i].pc = "queued" /\ tasks'[i].epoch = diskEpoch
    /\ tasks'[i].kind = kind /\ tasks'[i].entry = e /\ tasks'[i].after = diskTail
    /\ diskTail' = i /\ Others(i) /\ tasks' \in [Tasks -> TaskType]
    /\ \A k \in 1..(i-1) : tasks[k].pc # "free"

LEMMA ScheduleMoves ==
  ASSUME TypeOK, NEW kind \in {"rewrite", "title"}, NEW e \in Titles \cup {None}, Schedule(kind, e)
  PROVE  \E i \in Tasks : NewTask(i, kind, e)
  <1>1. PICK i \in Tasks :
          /\ tasks[i].pc = "free" /\ \A k \in 1..(i-1) : tasks[k].pc # "free"
          /\ tasks' = [tasks EXCEPT ![i] = [FreeTask EXCEPT
               !.kind = kind, !.entry = e, !.epoch = diskEpoch,
               !.after = diskTail, !.pc = "queued"]]
          /\ diskTail' = i
    BY DEF Schedule
  <1> DEFINE t == [FreeTask EXCEPT !.kind = kind, !.entry = e, !.epoch = diskEpoch,
                                   !.after = diskTail, !.pc = "queued"]
  <1>2. /\ t \in TaskType /\ t.pc = "queued" /\ t.epoch = diskEpoch /\ t.kind = kind
        /\ t.entry = e /\ t.after = diskTail
    <2>1. <<>> \in Seq(Entries) /\ diskEpoch \in Nat /\ diskTail \in 0..MaxTasks
      BY Pieces
    <2> QED
      BY <2>1 DEF FreeTask, TaskType
  <1>3. tasks' = [tasks EXCEPT ![i] = t]
    BY <1>1
  <1> HIDE DEF t
  <1>4. tasks' \in [Tasks -> TaskType] /\ tasks'[i] = t /\ Others(i)
    BY ONLY TypeOK, <1>2, <1>3, TaskBecomes
  <1> QED
    BY <1>1, <1>2, <1>4 DEF NewTask

LEMMA ChainGrows ==
  ASSUME JournalIInv, NEW i \in Tasks, NEW kind \in {"rewrite", "title"}, NEW e \in Titles \cup {None},
         NewTask(i, kind, e), kind = "title" => e \in Titles, ~released,
         UNCHANGED <<released, diskEpoch, repair>>
  PROVE  /\ EpochsPast' /\ ReleasedIsOver' /\ InOrder' /\ (Repairing' <=> Repairing)
         /\ \A j \in Tasks : InTime(j)' <=> j = i \/ InTime(j)
         /\ \A j \in Tasks : InTime(j) => j # i /\ j < i
         /\ \A j \in Tasks : j # i => tasks'[j] = tasks[j]
         /\ \A j \in Tasks, t \in Titles : WillWrite(j, t) => j # i /\ WillWrite(j, t)'
  <1>1. TypeOK /\ EpochsPast /\ InOrder
    BY DEF JournalIInv
  <1>2. /\ diskEpoch \in Nat /\ diskEpoch # 0 /\ diskTail \in 0..MaxTasks /\ i \in Nat
        /\ \A j \in Tasks : tasks[j].epoch \in Nat /\ j \in Nat
    BY <1>1, Pieces, TaskPieces, Constants
  <1>3. /\ \A j \in Tasks : j # i => tasks'[j] = tasks[j]
        /\ InTime(i)' /\ tasks'[i].pc = "queued" /\ tasks'[i].kind = kind /\ tasks'[i].entry = e
        /\ tasks'[i].after = diskTail /\ diskTail' = i /\ tasks[i].pc = "free"
        /\ tasks'[i].epoch = diskEpoch
    BY DEF NewTask, Others, InTime
  <1>4. \A j \in Tasks : InTime(j) => j # i /\ j < i
    <2> SUFFICES ASSUME NEW j \in Tasks, InTime(j) PROVE j # i /\ j < i
      OBVIOUS
    <2>1. tasks[j].pc # "free"
      BY <1>1, <1>2 DEF EpochsPast, Over, InTime
    <2>2. ~(i < j)
      BY <1>1, <1>3, <2>1 DEF EpochsPast
    <2>3. j # i
      BY <1>3, <2>1
    <2>4. j \in Nat /\ i \in Nat
      BY <1>2
    <2> QED
      BY ONLY <2>2, <2>3, <2>4
  <1>5. \A j \in Tasks : InTime(j)' <=> j = i \/ InTime(j)
    BY <1>3 DEF InTime
  <1>6. EpochsPast'
    <2>1. /\ tasks'[i].epoch <= diskEpoch' /\ (Over(i)' <=> tasks'[i].epoch = 0)
          /\ tasks'[i].kind # "none" /\ (tasks'[i].kind = "title" => tasks'[i].entry \in Titles)
          /\ tasks'[i].pc # "titling"
      BY <1>2, <1>3 DEF Over
    <2>2. \A j \in Tasks : (Over(j)' <=> tasks'[j].epoch = 0)
      BY <1>1, <1>3, <2>1 DEF EpochsPast, Over
    <2>3. ASSUME NEW j \in Tasks, NEW k \in Tasks, j < k, tasks'[j].pc = "free" PROVE tasks'[k].pc = "free"
      <3>1. j # i /\ tasks[j].pc = "free"
        BY <1>3, <2>3
      <3>2. ~(j < i)
        <4> SUFFICES ASSUME j < i PROVE FALSE
          OBVIOUS
        <4>1. j \in 1..(i - 1)
          BY <1>2, Constants
        <4> QED
          BY <3>1, <4>1 DEF NewTask
      <3>3. k # i
        BY <1>2, <2>3, <3>2
      <3> QED
        BY <1>1, <1>3, <2>3, <3>1, <3>3 DEF EpochsPast
    <2>4. \A j \in Tasks : /\ tasks'[j].epoch <= diskEpoch'
                           /\ ~Over(j)' => tasks'[j].kind # "none"
                           /\ tasks'[j].kind = "title" => tasks'[j].entry \in Titles
                           /\ tasks'[j].pc = "titling" => tasks'[j].kind = "title"
      BY <1>1, <1>3, <2>1 DEF EpochsPast, Over
    <2> QED
      BY <1>1, <2>2, <2>3, <2>4 DEF EpochsPast
  <1>7. ReleasedIsOver' /\ (Repairing' <=> Repairing)
    BY DEF ReleasedIsOver, Repairing
  <1>8. ASSUME NEW j \in Tasks, InTime(j)' PROVE diskTail' # 0 /\ InTime(diskTail)' /\ j <= diskTail'
    <2>1. InTime(diskTail)'
      BY <1>3 DEF InTime
    <2>2. diskTail' # 0 /\ j <= diskTail'
      BY <1>2, <1>3, <1>4, <1>5, <1>8, Constants
    <2> QED
      BY <2>1, <2>2
  <1>9. ASSUME NEW j \in Tasks, NEW k \in Tasks, InTime(j)', InTime(k)', j # k, Active(j)'
        PROVE  j < k /\ tasks'[k].pc = "queued"
    <2>1. j # i /\ InTime(j) /\ Active(j)
      BY <1>3, <1>5, <1>9 DEF Active, Rewriting
    <2>2. CASE k = i
      BY <1>3, <1>4, <2>1, <2>2
    <2>3. CASE k # i
      BY <1>1, <1>3, <1>5, <1>9, <2>1, <2>3 DEF InOrder
    <2> QED
      BY <2>2, <2>3
  <1>10. ASSUME NEW j \in Tasks, NEW k \in Tasks, InTime(j)', InTime(k)', k < j, tasks'[j].pc = "queued"
         PROVE  tasks'[j].after # 0 /\ InTime(tasks[j].after)' /\ k <= tasks'[j].after
    <2>1. k # i /\ InTime(k)
      <3>1. j = i \/ InTime(j)
        BY <1>5, <1>10
      <3>2. j <= i /\ j \in Nat /\ k \in Nat
        BY <1>2, <1>4, <3>1
      <3>3. k # i
        BY <1>2, <1>10, <3>2
      <3> QED
        BY <1>5, <1>10, <3>3
    <2>2. \A n \in Tasks : InTime(n) => InTime(n)'
      BY <1>5
    <2>3. CASE j = i
      <3>1. diskTail # 0 /\ InTime(diskTail) /\ k <= diskTail
        BY <1>1, <2>1 DEF InOrder
      <3>2. diskTail \in Tasks
        BY <1>2, <3>1, Constants
      <3>3. InTime(diskTail) => tasks'[diskTail].epoch = diskEpoch
        BY <1>3, <1>4, <3>2 DEF InTime
      <3> QED
        BY <1>3, <2>3, <3>1, <3>3 DEF InTime
    <2>4. CASE j # i
      <3>1. InTime(j) /\ tasks'[j] = tasks[j]
        BY <1>3, <1>5, <1>10, <2>4
      <3>2. tasks[j].after # 0 /\ InTime(tasks[j].after) /\ k <= tasks[j].after
        BY <1>1, <1>10, <2>1, <3>1 DEF InOrder
      <3>3. tasks[j].after \in Tasks
        BY <1>1, <3>2, TaskPieces, Constants
      <3>4. tasks'[tasks[j].after].epoch = diskEpoch
        BY <1>3, <1>4, <3>2, <3>3 DEF InTime
      <3> QED
        BY <3>1, <3>2, <3>4 DEF InTime
    <2> QED
      BY <2>3, <2>4
  <1>11. InOrder'
    BY <1>8, <1>9, <1>10 DEF InOrder
  <1>12. \A j \in Tasks, t \in Titles : WillWrite(j, t) => j # i /\ WillWrite(j, t)'
    BY <1>3, <1>4 DEF WillWrite, InTime
  <1> QED
    BY <1>3, <1>4, <1>5, <1>6, <1>7, <1>11, <1>12

(* A rewrite, or a title that was recorded with it, is scheduled. *)
LEMMA TaskScheduled ==
  ASSUME JournalIInv, ~released, NEW kind \in {"rewrite", "title"}, NEW e \in Titles \cup {None},
         Schedule(kind, e),
         kind = "title" => e \in Titles /\ fileIsCurrent,
         \/ UNCHANGED entries
         \/ /\ ~diskFailure
            /\ \E t \in Titles : /\ Fresh(t) /\ entries' = Append(entries, t)
                                 /\ kind = "title" => e = t,
         forceFileCreation' \in BOOLEAN, forceFileCreation => forceFileCreation',
         forceFileCreation' \/ Ents' \cap Assistants # {},
         UNCHANGED <<released, fileIsCurrent, rewriteRequired, diskFailure, diskEpoch, fence, dirty>>,
         UNCHANGED <<disk, writer, batch, repair, acked, rejected, unmarked, faults>>
  PROVE  JournalIInv'
  <1>1. TypeOK
    BY DEF JournalIInv
  <1>2. PICK i \in Tasks : NewTask(i, kind, e)
    BY <1>1, ScheduleMoves
  <1>3. /\ EpochsPast' /\ ReleasedIsOver' /\ InOrder' /\ (Repairing' <=> Repairing)
        /\ \A j \in Tasks : InTime(j)' <=> j = i \/ InTime(j)
        /\ \A j \in Tasks : InTime(j) => j # i
        /\ \A j \in Tasks : j # i => tasks'[j] = tasks[j]
        /\ \A j \in Tasks, t \in Titles : WillWrite(j, t) => j # i /\ WillWrite(j, t)'
    BY <1>2, ChainGrows
  <1>4. /\ tasks'[i].pc = "queued" /\ tasks'[i].kind = kind /\ tasks'[i].entry = e
        /\ diskTail' = i /\ tasks' \in [Tasks -> TaskType] /\ InTime(i)'
    BY <1>2, <1>3 DEF NewTask
  <1>5. /\ entries' \in Seq(Entries) /\ Ents \subseteq Ents' /\ Ents' \ Titles = Ents \ Titles
        /\ Ents' \cap (rejected \cup RangeOf(Staged)) = Ents \cap (rejected \cup RangeOf(Staged))
        /\ BatchPlaced' /\ (Repairing => Ents' = Ents)
        /\ \A t \in Ents' \ Ents : t \in Titles /\ (kind = "title" => e = t)
    <2>1. CASE UNCHANGED entries
      BY <1>1, <2>1 DEF TypeOK, Ents, JournalIInv, BatchPlaced
    <2>2. CASE ~UNCHANGED entries
      <3>1. PICK t \in Titles : /\ Fresh(t) /\ entries' = Append(entries, t)
                                /\ kind = "title" => e = t
        BY <2>2
      <3>2. ~Repairing
        BY <2>2 DEF JournalIInv, RepairAlone
      <3> QED
        BY <3>1, <3>2, EntryRecorded
    <2> QED
      BY <2>1, <2>2
  <1>6. TypeOK'
    <2>1. diskTail' \in 0..MaxTasks
      BY <1>4, Constants
    <2> QED
      BY <1>1, <1>4, <1>5, <2>1 DEF TypeOK
  <1>7. OnDisk' = OnDisk /\ Unknown' = Unknown
    BY DEF OnDisk, Unknown
  <1>8. FenceHolds' /\ RepairAlone'
    BY <1>3, <1>4 DEF JournalIInv, FenceHolds, RepairAlone, Rewriting, Active
  <1>9. AckedKept'
    BY <1>3, <1>4, <1>5, <1>7 DEF JournalIInv, AckedKept
  <1>10. BodyIsCurrent' /\ RepairIsCurrent'
    BY <1>3, <1>4, <1>5, <1>7 DEF JournalIInv, BodyIsCurrent, RepairIsCurrent, Rewriting
  <1>11. FileIsCurrent' /\ FileIsWanted'
    <2>1. fileIsCurrent => disk # NoFile
      BY DEF JournalIInv, FileIsCurrent
    <2>2. FileIsCurrent'
      BY <1>3, <1>4, <1>5, <1>7, <2>1 DEF JournalIInv, FileIsCurrent
    <2> QED
      BY <2>2 DEF FileIsWanted
  <1>12. TitlesDue'
    <2> SUFFICES ASSUME NEW t \in Titles, t \in Ents' PROVE TitlesDue!(t)'
      BY DEF TitlesDue
    <2>1. CASE t \in Ents
      <3>1. TitlesDue!(t)
        BY <2>1 DEF JournalIInv, TitlesDue
      <3>2. (Current /\ ~rewriteRequired /\ ~released)' => Current /\ ~rewriteRequired /\ ~released
        BY DEF Current
      <3> QED
        BY <1>3, <1>4, <1>7, <3>1, <3>2
    <2>2. CASE t \notin Ents
      <3>1. WillWrite(i, t)'
        BY <1>4, <1>5, <2>2 DEF WillWrite
      <3> QED
        BY <1>4, <3>1
    <2> QED
      BY <2>1, <2>2
  <1>13. RolledBack' /\ RejectedIsOut'
    BY <1>3, <1>4, <1>5, <1>7 DEF JournalIInv, RolledBack, RejectedIsOut, Without
  <1> QED
    BY <1>3, <1>5, <1>6, <1>8, <1>9, <1>10, <1>11, <1>12, <1>13 DEF JournalIInv

LEMMA EntriesKeep ==
  ASSUME JournalIInv, NEW force \in BOOLEAN, RewriteEntries(force)
  PROVE  JournalIInv'
  <1>1. /\ ~released /\ Schedule("rewrite", None) /\ forceFileCreation' = (force \/ forceFileCreation)
        /\ UNCHANGED <<released, fileIsCurrent, rewriteRequired, diskFailure, diskEpoch, fence, dirty>>
        /\ UNCHANGED <<disk, writer, batch, repair, acked, rejected, unmarked, faults>>
        /\ UNCHANGED entries /\ (~force => ShouldHaveFile(entries, fileIsCurrent))
    BY DEF RewriteEntries, storage, callers, history
  <1>2. forceFileCreation' \/ Ents' \cap Assistants # {}
    <2>1. CASE force
      BY <1>1, <2>1
    <2>2. CASE ~force
      <3>1. forceFileCreation \/ fileIsCurrent \/ Ents \cap Assistants # {}
        BY <1>1, <2>2 DEF ShouldHaveFile, Ents
      <3>2. fileIsCurrent => forceFileCreation \/ Ents \cap Assistants # {}
        BY <1>1 DEF JournalIInv, FileIsWanted
      <3> QED
        BY <1>1, <3>1, <3>2 DEF Ents
    <2> QED
      BY <2>1, <2>2
  <1>3. forceFileCreation' \in BOOLEAN /\ (forceFileCreation => forceFileCreation')
    BY <1>1 DEF JournalIInv, TypeOK
  <1>4. "rewrite" \in {"rewrite", "title"} /\ None \in Titles \cup {None} /\ "rewrite" # "title"
    OBVIOUS
  <1> QED
    BY ONLY JournalIInv, <1>1, <1>2, <1>3, <1>4, TaskScheduled

LEMMA SetTitleKeeps ==
  ASSUME JournalIInv, NEW t \in Titles, SetTitle(t)
  PROVE  JournalIInv'
  <1>1. /\ TypeOK /\ ~released /\ Fresh(t) /\ entries' = Append(entries, t) /\ t \in Messages \cup Titles
        /\ UNCHANGED <<released, forceFileCreation, fence, dirty, callers, rejected>>
        /\ UNCHANGED <<batch, repair>>
    BY DEF JournalIInv, SetTitle, callers
  <1>2. \E m \in Messages \cup Titles : Fresh(m) /\ entries' = Append(entries, m)
    BY <1>1
  <1>3. CASE /\ diskFailure
             /\ \E ok \in BOOLEAN :
                  /\ Outcome(ok)
                  /\ IF ShouldHaveFile(entries', FALSE)
                     THEN RewriteSync(entries', ok, FALSE, TRUE)
                     ELSE /\ ok /\ fileIsCurrent' = FALSE /\ rewriteRequired' = TRUE
                          /\ UNCHANGED <<diskEpoch, diskTail, storage, diskFailure, acked, unmarked>>
             /\ UNCHANGED tasks
    <2>1. PICK ok \in BOOLEAN :
            /\ Outcome(ok)
            /\ IF ShouldHaveFile(entries', FALSE)
               THEN RewriteSync(entries', ok, FALSE, TRUE)
               ELSE /\ ok /\ fileIsCurrent' = FALSE /\ rewriteRequired' = TRUE
                    /\ UNCHANGED <<diskEpoch, diskTail, storage, diskFailure, acked, unmarked>>
      BY <1>3
    <2>2. faults' \in 0..MaxFaults /\ UNCHANGED tasks /\ dirty' \in BOOLEAN
      BY <1>1, <1>3, <2>1, FaultsTyped DEF TypeOK
    <2>3. CASE ShouldHaveFile(entries', FALSE)
      <3>1. RewriteSync(entries', ok, FALSE, TRUE)
        BY <2>1, <2>3
      <3>2. FALSE \in BOOLEAN /\ TRUE \in BOOLEAN /\ (FALSE => fileIsCurrent) /\ ~FALSE
        OBVIOUS
      <3> QED
        BY ONLY JournalIInv, <1>1, <1>2, <2>2, <2>3, <3>1, <3>2, SyncKeeps
    <2>4. CASE ~ShouldHaveFile(entries', FALSE)
      <3>1. /\ ok /\ fileIsCurrent' = FALSE /\ rewriteRequired' = TRUE
            /\ UNCHANGED <<diskEpoch, diskTail, disk, writer, diskFailure, acked, unmarked>>
        BY <2>1, <2>4 DEF storage
      <3>2. faults' = faults /\ rewriteRequired' \in BOOLEAN
        BY <2>1, <3>1 DEF Outcome
      <3>3. ~forceFileCreation /\ RangeOf(entries') \cap Assistants = {}
        BY <2>4 DEF ShouldHaveFile
      <3> QED
        BY ONLY JournalIInv, <1>1, <2>2, <3>1, <3>2, <3>3, LazyKeeps
    <2> QED
      BY <2>3, <2>4
  <1>4. CASE /\ ~diskFailure /\ ~ShouldHaveFile(entries', fileIsCurrent)
             /\ fileIsCurrent' = FALSE
             /\ UNCHANGED <<rewriteRequired, diskFailure, diskEpoch, diskTail, storage,
                            tasks, acked, unmarked, faults>>
    <2>1. /\ ~forceFileCreation /\ RangeOf(entries') \cap Assistants = {}
          /\ fileIsCurrent' = FALSE /\ rewriteRequired' \in BOOLEAN
          /\ UNCHANGED <<diskFailure, diskEpoch, diskTail, disk, writer, tasks, acked, unmarked, faults>>
      BY <1>1, <1>4 DEF ShouldHaveFile, storage, TypeOK
    <2> QED
      BY ONLY JournalIInv, <1>1, <2>1, LazyKeeps
  <1>5. CASE /\ ~diskFailure /\ ShouldHaveFile(entries', fileIsCurrent)
             /\ IF ~fileIsCurrent \/ rewriteRequired
                THEN Schedule("rewrite", None) ELSE Schedule("title", t)
             /\ UNCHANGED <<fileIsCurrent, rewriteRequired, diskFailure, diskEpoch, storage,
                            acked, unmarked, faults>>
    <2>1. /\ UNCHANGED <<released, fileIsCurrent, rewriteRequired, diskFailure, diskEpoch, fence, dirty>>
          /\ UNCHANGED <<disk, writer, batch, repair, acked, rejected, unmarked, faults>>
      BY <1>1, <1>5 DEF storage
    <2>2. forceFileCreation' \in BOOLEAN /\ (forceFileCreation => forceFileCreation')
      BY <1>1 DEF TypeOK
    <2>3. forceFileCreation' \/ Ents' \cap Assistants # {}
      <3>1. forceFileCreation \/ fileIsCurrent \/ Ents' \cap Assistants # {}
        BY <1>5 DEF ShouldHaveFile, Ents
      <3>2. fileIsCurrent => forceFileCreation \/ Ents \cap Assistants # {}
        BY <1>1 DEF JournalIInv, FileIsWanted
      <3>3. Ents \subseteq Ents'
        BY <1>1, EntryRecorded
      <3> QED
        BY <1>1, <3>1, <3>2, <3>3
    <2>4. CASE Schedule("rewrite", None)
      <3>1. /\ "rewrite" \in {"rewrite", "title"} /\ None \in Titles \cup {None} /\ "rewrite" # "title"
            /\ ~diskFailure
        BY <1>5
      <3>2. \E m \in Titles : /\ Fresh(m) /\ entries' = Append(entries, m)
                              /\ "rewrite" = "title" => None = m
        BY <1>1
      <3> QED
        BY ONLY JournalIInv, <1>1, <2>1, <2>2, <2>3, <2>4, <3>1, <3>2, TaskScheduled
    <2>5. CASE ~(~fileIsCurrent \/ rewriteRequired)
      <3>1. Schedule("title", t) /\ fileIsCurrent /\ ~diskFailure
        BY <1>5, <2>5
      <3>2. \E m \in Titles : /\ Fresh(m) /\ entries' = Append(entries, m)
                              /\ "title" = "title" => t = m
        BY <1>1
      <3>3. "title" \in {"rewrite", "title"} /\ t \in Titles \cup {None}
        OBVIOUS
      <3> QED
        BY ONLY JournalIInv, <1>1, <2>1, <2>2, <2>3, <3>1, <3>2, <3>3, TaskScheduled
    <2> QED
      BY <1>5, <2>4, <2>5
  <1> QED
    BY <1>3, <1>4, <1>5 DEF SetTitle

-----------------------------------------------------------------------------
(* The batch. *)

LEMMA BatchPieces ==
  ASSUME batch \in BatchType
  PROVE  \A a \in {"none", "committing", "repairing"} : [batch EXCEPT !.at = a] \in BatchType
  BY DEF BatchType

LEMMA NothingTyped == NoBatch \in BatchType /\ NoRepair \in RepairType /\ NoBatch.at = "none"
                      /\ NoRepair.at = "none" /\ NoRepair.epoch = 0
  <1>1. 0 \in 0..MaxTasks /\ <<>> \in Seq(Entries)
    BY Constants
  <1> QED
    BY <1>1 DEF NoBatch, NoRepair, BatchType, RepairType

(* Its entries are staged in a row, and nothing else is in their place. *)
LEMMA StageKeeps ==
  ASSUME JournalIInv, StageBatch
  PROVE  JournalIInv'
  <1>1. TypeOK
    BY DEF JournalIInv
  <1>2. /\ batch.at = "none" /\ repair.at = "none" /\ ~released /\ fileIsCurrent
        /\ entries' = entries \o Staged /\ \A e \in RangeOf(Staged) : Fresh(e)
        /\ fileIsCurrent' = FALSE /\ rewriteRequired' = TRUE /\ dirty' = TRUE
        /\ forceFileCreation' = TRUE /\ Schedule("rewrite", None)
        /\ UNCHANGED <<released, diskFailure, diskEpoch, fence, disk, writer, repair>>
        /\ UNCHANGED <<acked, rejected, unmarked, faults>>
    BY DEF StageBatch, storage, history
  <1>3. PICK i \in Tasks : NewTask(i, "rewrite", None)
    BY <1>1, <1>2, ScheduleMoves
  <1>4. /\ EpochsPast' /\ ReleasedIsOver' /\ InOrder' /\ ~Repairing'
        /\ \A j \in Tasks : InTime(j)' <=> j = i \/ InTime(j)
        /\ \A j \in Tasks : InTime(j) => j # i
        /\ \A j \in Tasks : j # i => tasks'[j] = tasks[j]
        /\ \A j \in Tasks, t \in Titles : WillWrite(j, t) => j # i /\ WillWrite(j, t)'
    BY <1>2, <1>3, ChainGrows DEF Repairing
  <1>5. /\ tasks'[i].pc = "queued" /\ tasks'[i].kind = "rewrite"
        /\ diskTail' = i /\ tasks' \in [Tasks -> TaskType]
    BY <1>3 DEF NewTask
  <1>6. PICK b \in Tasks : batch' = [at |-> "committing", task |-> b, from |-> Len(entries)]
    BY <1>2 DEF StageBatch
  <1>7. batch' \in BatchType /\ batch'.at = "committing" /\ batch'.task # 0 /\ batch'.from = Len(entries)
    <2>1. b \in 0..MaxTasks /\ b # 0 /\ Len(entries) \in Nat
      BY <1>1, Constants, Pieces
    <2> QED
      BY <1>6, <2>1 DEF BatchType
  <1>8. /\ entries \in Seq(Entries) /\ Staged \in Seq(Entries)
        /\ Len(entries) \in Nat /\ Len(Staged) \in Nat
    BY <1>1, Pieces, Constants
  <1>9. /\ entries' \in Seq(Entries) /\ Ents' = Ents \cup RangeOf(Staged)
        /\ Len(entries') = Len(entries) + Len(Staged)
        /\ \A k \in 1..Len(entries) : entries'[k] = entries[k]
        /\ \A k \in 1..Len(Staged) : entries'[Len(entries) + k] = Staged[k]
    BY <1>2, <1>8, RangeConcat DEF Ents
  <1>10. RangeOf(Staged) \cap (Ents \cup acked \cup rejected) = {}
    BY <1>2 DEF Fresh, Ents
  <1>11. BatchPlaced'
    <2>1. batch'.from + Len(Staged) <= Len(entries')
      BY <1>7, <1>8, <1>9
    <2>2. ASSUME NEW k \in 1..Len(entries')
          PROVE  entries'[k] \in RangeOf(Staged) <=> k \in (batch'.from + 1)..(batch'.from + Len(Staged))
      <3>1. CASE k \in 1..Len(entries)
        <4>1. entries'[k] \in Ents
          BY <1>8, <1>9, <3>1, RangeTyped DEF Ents
        <4>2. k \notin (batch'.from + 1)..(batch'.from + Len(Staged))
          BY <1>7, <1>8, <3>1
        <4> QED
          BY <1>10, <4>1, <4>2
      <3>2. CASE k \notin 1..Len(entries)
        <4>1. /\ k - Len(entries) \in 1..Len(Staged) /\ Len(entries) + (k - Len(entries)) = k
              /\ k \in (batch'.from + 1)..(batch'.from + Len(Staged))
          BY <1>7, <1>8, <1>9, <3>2
        <4>2. entries'[k] = Staged[k - Len(entries)]
          BY <1>9, <4>1
        <4> QED
          BY <1>8, <4>1, <4>2, RangeTyped
      <3> QED
        BY <3>1, <3>2
    <2> QED
      BY <2>1, <2>2 DEF BatchPlaced
  <1>12. TypeOK'
    <2>1. diskTail' \in 0..MaxTasks
      BY <1>5, Constants
    <2>2. batch'.at # "repairing"
      BY <1>7
    <2> QED
      BY <1>1, <1>2, <1>5, <1>7, <1>9, <2>1, <2>2 DEF TypeOK
  <1>13. OnDisk' = OnDisk /\ ~Repairing /\ (\A t \in Titles : t \in Ents' => t \in Ents)
    BY <1>2, <1>9, Constants DEF OnDisk, Repairing
  <1>14. FenceHolds' /\ RepairAlone' /\ RepairIsCurrent'
    BY <1>2, <1>4, <1>5 DEF JournalIInv, FenceHolds, RepairAlone, RepairIsCurrent, Rewriting
  <1>15. AckedKept'
    BY <1>2, <1>4, <1>5, <1>9, <1>10, <1>13 DEF JournalIInv, AckedKept
  <1>16. BodyIsCurrent'
    BY <1>2 DEF BodyIsCurrent
  <1>17. FileIsCurrent' /\ FileIsWanted'
    <2>1. disk # NoFile
      BY <1>2 DEF JournalIInv, FileIsCurrent
    <2> QED
      BY <1>2, <1>4, <2>1 DEF FileIsCurrent, FileIsWanted
  <1>18. TitlesDue'
    <2> SUFFICES ASSUME NEW t \in Titles, t \in Ents PROVE TitlesDue!(t)'
      BY <1>13 DEF TitlesDue
    <2>1. TitlesDue!(t)
      BY DEF JournalIInv, TitlesDue
    <2> QED
      BY <1>2, <1>4, <1>5, <1>13, <2>1
  <1>19. RolledBack' /\ RejectedIsOut'
    BY <1>2, <1>4, <1>5, <1>7, <1>9, <1>10, <1>13
       DEF JournalIInv, RolledBack, RejectedIsOut, Without
  <1> QED
    BY <1>4, <1>11, <1>12, <1>14, <1>15, <1>16, <1>17, <1>18, <1>19 DEF JournalIInv

(* The file is current, so it holds the batch, and so does any later body. *)
LEMMA CommitKeeps ==
  ASSUME JournalIInv, CommitBatch
  PROVE  JournalIInv'
  <1>1. TypeOK /\ RepairAlone /\ NoBatch.at = "none"
    BY NothingTyped DEF JournalIInv
  <1>2. /\ batch.at = "committing" /\ fileIsCurrent /\ ~rewriteRequired
        /\ batch' = NoBatch /\ acked' = acked \cup (Ents \ Titles)
        /\ UNCHANGED <<entries, released, fileIsCurrent, rewriteRequired, forceFileCreation, diskFailure>>
        /\ UNCHANGED <<diskEpoch, diskTail, fence, dirty, disk, writer, tasks, repair, rejected>>
        /\ UNCHANGED <<unmarked, faults>>
    BY DEF CommitBatch, flags, fencing, storage, Ents
  <1>3. ~Repairing /\ Ents \ Titles \subseteq OnDisk
    BY <1>1, <1>2 DEF JournalIInv, RepairAlone, Repairing, FileIsCurrent, Unknown
  <1>4. /\ EpochsPast' /\ ReleasedIsOver' /\ InOrder' /\ ~Repairing'
        /\ \A i \in Tasks : InTime(i)' <=> InTime(i)
        /\ \A i \in Tasks, t \in Titles : WillWrite(i, t)' <=> WillWrite(i, t)
    BY <1>2, <1>3, ChainStands
  <1>5. OnDisk' = OnDisk /\ Ents' = Ents /\ (Unknown => Unknown') /\ batch'.at = "none"
    BY <1>1, <1>2 DEF OnDisk, Ents, Unknown
  <1>6. TypeOK'
    <2>1. Ents \subseteq Entries /\ NoBatch \in BatchType
      BY <1>1, Pieces, NothingTyped
    <2>2. acked' \subseteq Entries
      BY <1>1, <1>2, <2>1 DEF TypeOK
    <2> QED
      BY <1>1, <1>2, <1>5, <2>1, <2>2 DEF TypeOK
  <1>7. FenceHolds' /\ RepairAlone' /\ RepairIsCurrent'
    BY <1>2, <1>4, <1>5 DEF JournalIInv, FenceHolds, RepairAlone, RepairIsCurrent, Rewriting
  <1>8. AckedKept'
    <2>1. ASSUME NEW i \in Tasks, InTime(i), tasks[i].pc = "writing"
          PROVE  acked' \subseteq RangeOf(tasks[i].body)
      BY <1>2, <2>1 DEF JournalIInv, BodyIsCurrent, AckedKept, Unknown, Rewriting
    <2>2. acked' \subseteq OnDisk /\ (~released => acked' \subseteq Ents)
      BY <1>2, <1>3 DEF JournalIInv, AckedKept
    <2> QED
      BY <1>2, <1>4, <1>5, <2>1, <2>2 DEF AckedKept
  <1>9. BodyIsCurrent' /\ FileIsCurrent'
    <2>1. BodyIsCurrent'
      BY <1>2, <1>4, <1>5 DEF JournalIInv, BodyIsCurrent, Rewriting
    <2> QED
      BY <1>2, <1>4, <1>5, <2>1 DEF JournalIInv, FileIsCurrent
  <1>10. FileIsWanted'
    BY <1>2, <1>4, <1>5 DEF JournalIInv, FileIsWanted
  <1>11. TitlesDue'
    <2> SUFFICES ASSUME NEW t \in Titles, t \in Ents PROVE TitlesDue!(t)'
      BY <1>5 DEF TitlesDue
    <2>1. TitlesDue!(t)
      BY DEF JournalIInv, TitlesDue
    <2>2. Current' <=> Current
      BY <1>2 DEF Current
    <2> QED
      BY <1>2, <1>4, <1>5, <2>1, <2>2
  <1>12. BatchPlaced' /\ RolledBack' /\ RejectedIsOut'
    BY <1>2, <1>4, <1>5 DEF JournalIInv, BatchPlaced, RolledBack, RejectedIsOut, Without
  <1> QED
    BY <1>4, <1>6, <1>7, <1>8, <1>9, <1>10, <1>11, <1>12 DEF JournalIInv

-----------------------------------------------------------------------------
(* The repair. *)

(* It begins with nothing of the batch left in what is recorded. *)
LEMMA RepairBegins ==
  ASSUME JournalIInv, BeginRepair, ~released, entries' \in Seq(Entries), Ents' \subseteq Ents,
         acked \subseteq Ents', batch' \in BatchType, batch'.at # "committing",
         batch'.at = "repairing" => RangeOf(Staged) \cap Ents' = {},
         UNCHANGED <<released, dirty, disk, tasks, history, faults>>
  PROVE  JournalIInv'
  <1>1. TypeOK /\ diskEpoch \in Nat /\ diskEpoch # 0
    BY Pieces DEF JournalIInv
  <1>2. UNCHANGED <<acked, rejected, unmarked>>
    BY DEF history
  <1>3. /\ diskEpoch' = diskEpoch + 1 /\ diskTail' = 0 /\ fence' = diskEpoch + 1
        /\ writer' = "none" /\ forceFileCreation' = TRUE
        /\ fileIsCurrent' = FALSE /\ rewriteRequired' = TRUE /\ diskFailure' = TRUE
        /\ repair' = [at |-> "draining", epoch |-> diskEpoch + 1, after |-> diskTail,
                      body |-> <<>>]
    BY DEF BeginRepair
  <1>4. repair' \in RepairType /\ repair'.at = "draining" /\ repair'.epoch = diskEpoch'
    <2>1. diskTail \in 0..MaxTasks /\ <<>> \in Seq(Entries) /\ diskEpoch + 1 \in Nat
      BY <1>1, Pieces
    <2> QED
      BY <1>3, <2>1 DEF RepairType
  <1>5. EpochsPast' /\ InOrder' /\ Quiet' /\ BodyIsCurrent'
    <2>1. repair'.epoch <= diskEpoch' /\ diskEpoch' = diskEpoch + 1
      BY <1>1, <1>3, <1>4
    <2> QED
      BY <2>1, NewEpoch
  <1>6. TypeOK'
    <2>1. /\ diskEpoch' \in Nat \ {0} /\ fence' \in 0..diskEpoch' /\ 0 \in 0..MaxTasks
      BY <1>1, <1>3, Constants
    <2> QED
      BY <1>1, <1>2, <1>3, <1>4, <2>1 DEF TypeOK
  <1>7. OnDisk' = OnDisk
    BY DEF OnDisk
  <1>8. ReleasedIsOver' /\ FenceHolds' /\ RepairAlone' /\ RepairIsCurrent'
    BY <1>3, <1>4, <1>5 DEF ReleasedIsOver, FenceHolds, RepairAlone, RepairIsCurrent, Quiet
  <1>9. AckedKept' /\ RolledBack' /\ RejectedIsOut'
    BY <1>2, <1>4, <1>5, <1>7 DEF JournalIInv, AckedKept, RolledBack, RejectedIsOut, Without, Quiet
  <1>10. FileIsCurrent' /\ FileIsWanted' /\ TitlesDue'
    BY <1>3, <1>4, <1>5 DEF FileIsCurrent, FileIsWanted, TitlesDue, Quiet, Current
  <1>11. BatchPlaced'
    BY DEF BatchPlaced
  <1> QED
    BY <1>5, <1>6, <1>8, <1>9, <1>10, <1>11 DEF JournalIInv

LEMMA RecoverKeeps ==
  ASSUME JournalIInv, Recover
  PROVE  JournalIInv'
  <1>1. /\ BeginRepair /\ ~released /\ UNCHANGED <<released, dirty, disk, tasks, history, faults>>
        /\ UNCHANGED <<entries, batch>> /\ batch.at = "none"
    BY DEF Recover
  <1>2. /\ entries' \in Seq(Entries) /\ Ents' \subseteq Ents /\ acked \subseteq Ents'
        /\ batch' \in BatchType /\ batch'.at # "committing"
        /\ (batch'.at = "repairing" => RangeOf(Staged) \cap Ents' = {})
    BY <1>1 DEF JournalIInv, TypeOK, Ents, AckedKept
  <1> QED
    BY ONLY JournalIInv, <1>1, <1>2, RepairBegins

(* A released manager has no task and no repair; little can still change. *)
LEMMA ReleasedKeeps ==
  ASSUME JournalIInv, released, entries' \in Seq(Entries), Ents' \subseteq Ents,
         disk' = disk \/ disk' \in Seq(Entries), OnDisk \subseteq OnDisk', disk' = NoFile => disk = NoFile,
         writer' = writer \/ writer' = "none", batch' = batch \/ batch' = NoBatch, BatchPlaced',
         acked' \subseteq OnDisk', acked' \subseteq Entries, rejected \cap OnDisk' = {},
         batch'.at = "committing" => acked' \cap RangeOf(Staged) = {},
         UNCHANGED <<released, fileIsCurrent, rewriteRequired, forceFileCreation, diskFailure, diskEpoch>>,
         UNCHANGED <<diskTail, fence, dirty, tasks, repair, rejected, unmarked, faults>>,
         fileIsCurrent /\ ~rewriteRequired /\ (~diskFailure \/ batch'.at = "committing") =>
           Unknown' \/ Ents' \ Titles \subseteq OnDisk'
  PROVE  JournalIInv'
  <1>1. /\ TypeOK /\ Quiet /\ ~Repairing
    BY DEF JournalIInv, ReleasedIsOver, Quiet
  <1>2. EpochsPast' /\ InOrder' /\ Quiet' /\ ~Repairing'
    BY <1>1, ChainStands DEF Quiet
  <1>3. batch' \in BatchType /\ (batch'.at # "none" => batch' = batch)
    BY <1>1, NothingTyped DEF TypeOK
  <1>4. TypeOK'
    <2>1. disk' \in Seq(Entries) \cup {NoFile} /\ writer' \in {"none", "open", "detached", "broken"}
      BY <1>1 DEF TypeOK
    <2>2. /\ (batch.at = "committing" => batch.task # 0)'
          /\ (batch.at = "repairing" => repair.at # "none")'
      BY <1>1, <1>3 DEF TypeOK
    <2> QED
      BY <1>1, <1>3, <2>1, <2>2 DEF TypeOK
  <1>5. /\ (writer # "detached")' /\ (batch.at = "committing" => repair.at = "none")'
        /\ (batch.at = "repairing" => RangeOf(Staged) \cap Ents = {})'
        /\ (rejected \cap Ents = {})' /\ (rejected \cap OnDisk = {})'
    BY <1>3 DEF JournalIInv, FenceHolds, RepairAlone, RolledBack, RejectedIsOut, Without
  <1>6. /\ (acked \subseteq OnDisk)' /\ (~released => acked \subseteq Ents)'
        /\ (batch.at = "committing" => acked \cap RangeOf(Staged) = {})'
    OBVIOUS
  <1>7. /\ (fileIsCurrent => disk # NoFile)'
        /\ (fileIsCurrent /\ ~rewriteRequired /\ (~diskFailure \/ batch.at = "committing") =>
               Unknown \/ Ents \ Titles \subseteq OnDisk)'
        /\ (Current /\ ~rewriteRequired /\ ~released => Titles \cap Ents \subseteq OnDisk)'
        /\ (~released /\ fileIsCurrent => forceFileCreation \/ Ents \cap Assistants # {})'
    BY DEF JournalIInv, FileIsCurrent
  <1> QED
    BY <1>2, <1>4, <1>5, <1>6, <1>7, QuietHolds

LEMMA RollBackKeeps ==
  ASSUME JournalIInv, RollBackBatch
  PROVE  JournalIInv'
  <1>1. /\ batch.at = "committing" /\ entries' = Retained /\ TypeOK /\ BatchPlaced
        /\ UNCHANGED <<released, dirty, disk, tasks, history, faults>>
        /\ UNCHANGED <<acked, rejected, unmarked>>
    BY DEF RollBackBatch, JournalIInv, history
  <1>2. entries' \in Seq(Entries) /\ Ents' = Ents \ RangeOf(Staged)
    BY <1>1, RetainedRange DEF TypeOK, Ents
  <1>3. CASE ~released
    <2>1. BeginRepair /\ batch' = [batch EXCEPT !.at = "repairing"]
      BY <1>3 DEF RollBackBatch
    <2>2. batch' \in BatchType /\ batch'.at = "repairing"
      BY <1>1, <2>1 DEF TypeOK, BatchType
    <2>3. /\ Ents' \subseteq Ents /\ acked \subseteq Ents' /\ batch'.at # "committing"
          /\ (batch'.at = "repairing" => RangeOf(Staged) \cap Ents' = {})
      BY <1>1, <1>2, <1>3, <2>2 DEF JournalIInv, AckedKept
    <2> QED
      BY ONLY JournalIInv, <1>1, <1>2, <1>3, <2>1, <2>2, <2>3, RepairBegins
  <1>4. CASE released
    <2>1. /\ batch' = NoBatch
          /\ UNCHANGED <<fileIsCurrent, rewriteRequired, forceFileCreation, diskFailure>>
          /\ UNCHANGED <<diskEpoch, diskTail, fence, writer, repair>>
      BY <1>4 DEF RollBackBatch, flags
    <2>2. /\ Ents' \subseteq Ents /\ OnDisk' = OnDisk /\ batch'.at = "none"
      BY <1>1, <1>2, <2>1, NothingTyped DEF OnDisk
    <2>3. /\ acked' \subseteq OnDisk' /\ acked' \subseteq Entries /\ rejected \cap OnDisk' = {}
          /\ BatchPlaced'
      BY <1>1, <2>2 DEF JournalIInv, AckedKept, RejectedIsOut, TypeOK, BatchPlaced
    <2>4. /\ (disk' = disk \/ disk' \in Seq(Entries)) /\ OnDisk \subseteq OnDisk'
          /\ (disk' = NoFile => disk = NoFile) /\ (writer' = writer \/ writer' = "none")
          /\ (batch' = batch \/ batch' = NoBatch)
          /\ (batch'.at = "committing" => acked' \cap RangeOf(Staged) = {})
      BY <1>1, <2>1, <2>2
    <2>5. fileIsCurrent /\ ~rewriteRequired /\ (~diskFailure \/ batch'.at = "committing") =>
            Unknown' \/ Ents' \ Titles \subseteq OnDisk'
      BY <1>1, <2>2 DEF JournalIInv, FileIsCurrent, Unknown
    <2> QED
      BY ONLY JournalIInv, <1>1, <1>2, <1>4, <2>1, <2>2, <2>3, <2>4, <2>5, ReleasedKeeps
  <1> QED
    BY <1>3, <1>4

(* The chain has drained, or another turn is due: the body is what is      *)
(* recorded now. *)
LEMMA RepairSerializes ==
  ASSUME JournalIInv, repair.at # "none", dirty' = FALSE, unmarked' \in BOOLEAN,
         unmarked => unmarked', dirty /\ ~Repairing => unmarked',
         repair' = [repair EXCEPT !.at = "writing", !.body = entries],
         UNCHANGED <<entries, released, fileIsCurrent, rewriteRequired, forceFileCreation, diskFailure>>,
         UNCHANGED <<diskEpoch, diskTail, fence, disk, writer, tasks, batch, acked, rejected, faults>>
  PROVE  JournalIInv'
  <1>1. TypeOK /\ batch.at # "committing" /\ (Repairing => ~released)
    BY DEF JournalIInv, RepairAlone, ReleasedIsOver
  <1>2. /\ repair' \in RepairType /\ repair'.at = "writing" /\ repair'.epoch = repair.epoch
        /\ repair'.body = entries
    <2>1. repair \in RepairType /\ entries \in Seq(Entries)
      BY <1>1 DEF TypeOK
    <2> QED
      BY <2>1 DEF RepairType
  <1>3. /\ (Repairing' <=> Repairing) /\ OnDisk' = OnDisk /\ Ents' = Ents /\ (Unknown => Unknown')
        /\ RangeOf(repair'.body) = Ents
        /\ \A i \in Tasks : InTime(i)' <=> InTime(i)
    BY <1>2 DEF Repairing, OnDisk, Ents, Unknown, InTime
  <1>4. EpochsPast' /\ ReleasedIsOver' /\ InOrder'
    BY <1>2, <1>3 DEF JournalIInv, EpochsPast, ReleasedIsOver, InOrder, InTime, Over, Active, Rewriting
  <1>5. TypeOK'
    BY <1>1, <1>2 DEF TypeOK
  <1>6. FenceHolds' /\ RepairAlone' /\ RepairIsCurrent'
    BY <1>1, <1>2, <1>3 DEF JournalIInv, FenceHolds, RepairAlone, RepairIsCurrent, Rewriting, Active
  <1>7. AckedKept'
    BY <1>1, <1>2, <1>3 DEF JournalIInv, AckedKept
  <1>8. BodyIsCurrent'
    <2>1. CASE Repairing
      BY <1>3, <2>1 DEF JournalIInv, RepairAlone, BodyIsCurrent, Active, Rewriting
    <2>2. CASE ~Repairing
      <3>1. dirty => Unknown'
        BY <1>1, <2>2 DEF Unknown
      <3> QED
        BY <1>3, <3>1 DEF JournalIInv, BodyIsCurrent, Rewriting
    <2> QED
      BY <2>1, <2>2
  <1>9. FileIsCurrent' /\ FileIsWanted'
    <2>1. FileIsCurrent'
      BY <1>2, <1>3 DEF JournalIInv, FileIsCurrent
    <2> QED
      BY <1>3, <2>1 DEF JournalIInv, FileIsWanted
  <1>10. TitlesDue'
    <2> SUFFICES ASSUME NEW t \in Titles, t \in Ents PROVE TitlesDue!(t)'
      BY <1>3 DEF TitlesDue
    <2>1. TitlesDue!(t)
      BY DEF JournalIInv, TitlesDue
    <2>2. (Current' <=> Current) /\ \A i \in Tasks : WillWrite(i, t)' <=> WillWrite(i, t)
      BY <1>3 DEF Current, WillWrite
    <2> QED
      BY <1>3, <2>1, <2>2
  <1>11. BatchPlaced' /\ RolledBack' /\ RejectedIsOut'
    BY <1>1, <1>2, <1>3 DEF JournalIInv, BatchPlaced, RolledBack, RejectedIsOut, Without
  <1> QED
    BY <1>4, <1>5, <1>6, <1>7, <1>8, <1>9, <1>10, <1>11 DEF JournalIInv

(* Its body is in the file, or it was superseded and lands nowhere. *)
LEMMA RepairWrites ==
  ASSUME JournalIInv, repair.at = "writing", repair' = [repair EXCEPT !.at = "written"],
         \/ Repairing /\ disk' = repair.body /\ (writer' = writer \/ Replace(repair.body))
         \/ ~Repairing /\ UNCHANGED <<disk, writer>>,
         faults' \in 0..MaxFaults,
         UNCHANGED <<entries, released, fileIsCurrent, rewriteRequired, forceFileCreation, diskFailure>>,
         UNCHANGED <<diskEpoch, diskTail, fence, dirty, tasks, batch, acked, rejected, unmarked>>
  PROVE  JournalIInv'
  <1>1. TypeOK /\ batch.at # "committing" /\ repair.body \in Seq(Entries)
    BY Pieces DEF JournalIInv, RepairAlone
  <1>2. repair' \in RepairType /\ repair'.at = "written" /\ repair'.epoch = repair.epoch
    <2>1. repair \in RepairType
      BY <1>1 DEF TypeOK
    <2> QED
      BY <2>1 DEF RepairType
  <1>3. /\ (Repairing' <=> Repairing) /\ Ents' = Ents /\ Unknown' = Unknown
        /\ \A i \in Tasks : InTime(i)' <=> InTime(i)
    BY <1>2 DEF Repairing, Ents, Unknown, InTime
  <1>4. Repairing => writer = "none" /\ diskFailure /\ \A i \in Tasks : InTime(i) => ~Active(i)
    BY DEF JournalIInv, RepairAlone
  <1>5. /\ writer' = writer /\ (Repairing => disk' # NoFile /\ OnDisk' = RangeOf(repair.body))
        /\ (~Repairing => disk' = disk /\ OnDisk' = OnDisk)
        /\ disk' \in Seq(Entries) \cup {NoFile}
    <2>1. writer' = writer
      BY <1>4 DEF Replace
    <2>2. Repairing => disk' = repair.body /\ disk' # NoFile
      BY <1>1, Constants
    <2>3. disk \in Seq(Entries) \cup {NoFile}
      BY <1>1 DEF TypeOK
    <2> QED
      BY <1>1, <2>1, <2>2, <2>3 DEF OnDisk
  <1>6. EpochsPast' /\ ReleasedIsOver' /\ InOrder'
    BY <1>2, <1>3 DEF JournalIInv, EpochsPast, ReleasedIsOver, InOrder, InTime, Over, Active, Rewriting
  <1>7. TypeOK'
    BY <1>1, <1>2, <1>5 DEF TypeOK
  <1>8. FenceHolds' /\ RepairAlone'
    BY <1>1, <1>2, <1>3, <1>5 DEF JournalIInv, FenceHolds, RepairAlone, Rewriting, Active
  <1>9. AckedKept' /\ RepairIsCurrent'
    <2>1. Repairing => acked \subseteq RangeOf(repair.body) /\ (dirty \/ Ents \subseteq RangeOf(repair.body))
      BY DEF JournalIInv, AckedKept, RepairIsCurrent
    <2> QED
      BY <1>1, <1>2, <1>3, <1>5, <2>1 DEF JournalIInv, AckedKept, RepairIsCurrent
  <1>10. BodyIsCurrent'
    BY <1>3, <1>4, <1>5 DEF JournalIInv, BodyIsCurrent, Rewriting, Active
  <1>11. FileIsCurrent' /\ FileIsWanted'
    <2>1. CASE Repairing
      BY <1>1, <1>3, <1>4, <1>5, <2>1 DEF JournalIInv, FileIsCurrent, FileIsWanted
    <2>2. CASE ~Repairing
      BY <1>3, <1>5, <2>2 DEF JournalIInv, FileIsCurrent, FileIsWanted
    <2> QED
      BY <2>1, <2>2
  <1>12. TitlesDue'
    <2> SUFFICES ASSUME NEW t \in Titles, t \in Ents PROVE TitlesDue!(t)'
      BY <1>3 DEF TitlesDue
    <2>1. TitlesDue!(t)
      BY DEF JournalIInv, TitlesDue
    <2>2. (Current' <=> Current) /\ \A i \in Tasks : WillWrite(i, t)' <=> WillWrite(i, t)
      BY <1>3 DEF Current, WillWrite
    <2>3. Repairing => ~Current /\ \A i \in Tasks : InTime(i) => tasks[i].pc \notin {"writing", "written"}
      BY <1>4 DEF Current, Active, Rewriting
    <2> QED
      BY <1>3, <1>5, <2>1, <2>2, <2>3
  <1>13. BatchPlaced' /\ RolledBack' /\ RejectedIsOut'
    <2>1. /\ Repairing => rejected \cap RangeOf(repair.body) = {}
          /\ Repairing /\ batch.at = "repairing" => RangeOf(Staged) \cap RangeOf(repair.body) = {}
          /\ rejected \cap OnDisk = {}
      BY DEF JournalIInv, RolledBack, RejectedIsOut, Without
    <2>2. RolledBack' /\ BatchPlaced'
      BY <1>1, <1>2, <1>3, <1>5, <2>1 DEF JournalIInv, BatchPlaced, RolledBack, Without
    <2>3. RejectedIsOut'
      BY <1>2, <1>3, <1>5, <2>1 DEF JournalIInv, RejectedIsOut, Without
    <2> QED
      BY <2>2, <2>3
  <1> QED
    BY <1>6, <1>7, <1>8, <1>9, <1>10, <1>11, <1>12, <1>13 DEF JournalIInv

(* It ends, proven or not. *)
LEMMA RepairOver ==
  ASSUME JournalIInv, repair.at # "none", NEW proven \in BOOLEAN, RepairEnds(proven),
         proven => Repairing /\ repair.at = "written" /\ ~dirty,
         faults' \in 0..MaxFaults, UNCHANGED <<disk, writer>>,
         UNCHANGED <<entries, released, forceFileCreation, diskEpoch, diskTail, dirty, tasks>>
  PROVE  JournalIInv'
  <1>1. TypeOK /\ batch.at # "committing" /\ RepairAlone
    BY DEF JournalIInv, RepairAlone
  <1>2. /\ repair' = NoRepair /\ fence' = LowerFence(repair.epoch) /\ batch' = NoBatch
        /\ diskFailure' = ~proven /\ unmarked' = unmarked
        /\ (proven \/ batch.at = "repairing" => fileIsCurrent' = proven /\ rewriteRequired' = ~proven)
        /\ (~proven /\ batch.at # "repairing" => UNCHANGED <<fileIsCurrent, rewriteRequired>>)
        /\ acked' = (IF proven THEN acked \cup (Ents \ Titles) ELSE acked)
        /\ rejected' = (IF proven /\ batch.at = "repairing" THEN rejected \cup RangeOf(Staged) ELSE rejected)
    BY DEF RepairEnds, Ents
  <1>3. /\ NoBatch \in BatchType /\ NoRepair \in RepairType /\ batch'.at = "none"
        /\ repair'.at = "none" /\ repair'.epoch = 0
    BY <1>2, NothingTyped
  <1>4. /\ ~Repairing' /\ Ents' = Ents /\ OnDisk' = OnDisk /\ (Unknown => Unknown')
        /\ \A i \in Tasks : InTime(i)' <=> InTime(i)
    BY <1>2, <1>3 DEF Repairing, Ents, OnDisk, Unknown, InTime
  <1>5. EpochsPast' /\ ReleasedIsOver' /\ InOrder'
    <2>1. 0 <= diskEpoch
      BY <1>1, Pieces
    <2> QED
      BY <1>3, <1>4, <2>1 DEF JournalIInv, EpochsPast, ReleasedIsOver, InOrder, InTime, Over, Active, Rewriting
  <1>6. proven => /\ Ents \subseteq OnDisk /\ disk # NoFile /\ forceFileCreation
                  /\ \A i \in Tasks : InTime(i) => ~Active(i)
                  /\ (batch.at = "repairing" => RangeOf(Staged) \cap (OnDisk \cup Ents) = {})
    BY <1>1 DEF JournalIInv, RepairAlone, RepairIsCurrent, FileIsCurrent, RolledBack, Without
  <1>7. fileIsCurrent' \in BOOLEAN /\ rewriteRequired' \in BOOLEAN /\ diskFailure' \in BOOLEAN
    BY <1>1, <1>2 DEF TypeOK
  <1>8. TypeOK'
    <2>1. (fence' = fence \/ fence' = 0) /\ fence \in 0..diskEpoch /\ diskEpoch \in Nat
      BY <1>1, <1>2 DEF LowerFence, TypeOK
    <2>2. fence' \in 0..diskEpoch'
      BY <2>1
    <2>3. acked' \subseteq Entries /\ rejected' \subseteq RangeOf(Staged)
      BY <1>1, <1>2, Pieces
    <2> QED
      BY <1>1, <1>2, <1>3, <1>7, <2>2, <2>3 DEF TypeOK
  <1>9. FenceHolds' /\ RepairAlone' /\ RepairIsCurrent'
    <2>1. ASSUME NEW i \in Tasks, InTime(i), Rewriting(i) PROVE fence' = diskEpoch /\ writer = "none"
      <3>1. ~Repairing /\ fence = diskEpoch /\ writer = "none"
        BY <1>1, <2>1 DEF JournalIInv, RepairAlone, FenceHolds, Active
      <3>2. repair.epoch # diskEpoch
        BY <3>1 DEF Repairing
      <3> QED
        BY <1>2, <3>1, <3>2 DEF LowerFence
    <2>2. FenceHolds'
      BY <1>4, <2>1 DEF JournalIInv, FenceHolds, Rewriting
    <2> QED
      BY <1>3, <1>4, <2>2 DEF RepairAlone, RepairIsCurrent
  <1>10. AckedKept'
    <2>1. acked' \subseteq OnDisk /\ (~released => acked' \subseteq Ents)
      BY <1>2, <1>6 DEF JournalIInv, AckedKept
    <2>2. \A i \in Tasks : InTime(i) /\ tasks[i].pc = "writing" => acked' \subseteq RangeOf(tasks[i].body)
      BY <1>2, <1>6 DEF JournalIInv, AckedKept, Active, Rewriting
    <2> QED
      BY <1>3, <1>4, <2>1, <2>2 DEF AckedKept
  <1>11. BodyIsCurrent'
    <2>1. \A i \in Tasks : InTime(i) /\ Rewriting(i) => ~proven
      BY <1>6 DEF Active
    <2>2. ~proven => (rewriteRequired => rewriteRequired')
      BY <1>2
    <2> QED
      BY <1>4, <2>1, <2>2 DEF JournalIInv, BodyIsCurrent, Rewriting
  <1>12. FileIsCurrent' /\ FileIsWanted'
    <2>1. CASE proven
      <3>1. fileIsCurrent' = TRUE /\ rewriteRequired' = FALSE
        BY <1>2, <2>1
      <3>2. FileIsCurrent'
        BY <1>4, <1>6, <2>1, <3>1 DEF FileIsCurrent, JournalIInv
      <3> QED
        BY <1>6, <2>1, <3>2 DEF FileIsWanted
    <2>2. CASE ~proven
      <3>1. diskFailure' /\ (fileIsCurrent' => fileIsCurrent)
            /\ (fileIsCurrent \/ rewriteRequired => fileIsCurrent' \/ rewriteRequired')
        <4>1. diskFailure' = TRUE
          BY <1>2, <2>2
        <4>2. CASE batch.at = "repairing"
          <5>1. fileIsCurrent' = FALSE /\ rewriteRequired' = TRUE
            BY <1>2, <2>2, <4>2
          <5> QED
            BY <4>1, <5>1
        <4>3. CASE batch.at # "repairing"
          BY <1>2, <2>2, <4>1, <4>3
        <4> QED
          BY <4>2, <4>3
      <3>2. FileIsCurrent'
        BY <1>3, <1>4, <3>1 DEF FileIsCurrent, JournalIInv
      <3> QED
        BY <1>4, <3>1, <3>2 DEF FileIsWanted, JournalIInv
    <2> QED
      BY <2>1, <2>2
  <1>13. TitlesDue'
    <2> SUFFICES ASSUME NEW t \in Titles, t \in Ents PROVE TitlesDue!(t)'
      BY <1>4 DEF TitlesDue
    <2>1. TitlesDue!(t)
      BY DEF JournalIInv, TitlesDue
    <2>2. Current' => t \in OnDisk
      BY <1>2, <1>6 DEF Current
    <2>3. \A i \in Tasks : WillWrite(i, t)' <=> WillWrite(i, t)
      BY <1>4 DEF WillWrite
    <2> QED
      BY <1>4, <2>1, <2>2, <2>3
  <1>14. BatchPlaced' /\ RolledBack'
    BY <1>3 DEF BatchPlaced, RolledBack
  <1>15. RejectedIsOut'
    <2>1. rejected' \cap Ents = {} /\ rejected' \cap OnDisk = {}
      BY <1>2, <1>6 DEF JournalIInv, RejectedIsOut, Without
    <2>2. \A i \in Tasks : InTime(i) /\ tasks[i].pc = "writing" => ~proven
      BY <1>6 DEF Active, Rewriting
    <2> QED
      BY <1>2, <1>4, <2>1, <2>2 DEF JournalIInv, RejectedIsOut, Without
  <1> QED
    BY <1>5, <1>8, <1>9, <1>10, <1>11, <1>12, <1>13, <1>14, <1>15 DEF JournalIInv

LEMMA RepairKeeps ==
  ASSUME JournalIInv, RepairDrained \/ RepairPublish \/ RepairChecked
  PROVE  JournalIInv'
  <1>1. /\ TypeOK /\ faults \in 0..MaxFaults /\ (Repairing => ~released)
        /\ dirty \in BOOLEAN /\ unmarked \in BOOLEAN
    BY DEF JournalIInv, TypeOK, ReleasedIsOver
  <1>2. CASE RepairDrained
    <2>1. /\ repair.at # "none" /\ dirty' = FALSE
          /\ unmarked' = (unmarked \/ (dirty /\ repair.epoch # diskEpoch))
          /\ repair' = [repair EXCEPT !.at = "writing", !.body = entries]
          /\ UNCHANGED <<entries, released, fileIsCurrent, rewriteRequired, forceFileCreation, diskFailure>>
          /\ UNCHANGED <<diskEpoch, diskTail, fence, disk, writer, tasks, batch, acked, rejected, faults>>
      BY <1>2 DEF RepairDrained, flags, storage
    <2>2. unmarked' \in BOOLEAN /\ (unmarked => unmarked') /\ (dirty /\ ~Repairing => unmarked')
      BY <1>1, <2>1 DEF Repairing
    <2> QED
      BY ONLY JournalIInv, <2>1, <2>2, RepairSerializes
  <1>3. CASE RepairPublish
    <2>1. PICK ok \in BOOLEAN, lands \in BOOLEAN :
            /\ Outcome(ok) /\ (ok => lands)
            /\ IF lands /\ CommitGuard(repair.epoch)
               THEN Replace(repair.body) ELSE UNCHANGED storage
            /\ IF ok \/ disk' = repair.body
               THEN /\ repair' = [repair EXCEPT !.at = "written"]
                    /\ UNCHANGED <<fence, batch, diskFailure, fileIsCurrent, rewriteRequired, history>>
               ELSE RepairEnds(FALSE)
      BY <1>3 DEF RepairPublish
    <2>2. /\ UNCHANGED <<entries, released, forceFileCreation, diskEpoch, diskTail, dirty, tasks>>
          /\ repair.at = "writing" /\ repair.at # "none"
      BY <1>3 DEF RepairPublish
    <2>3. faults' \in 0..MaxFaults
      BY <1>1, <2>1, FaultsTyped
    <2>4. CommitGuard(repair.epoch) <=> Repairing
      BY <1>1, <2>2 DEF CommitGuard, Repairing
    <2>5. /\ ~(lands /\ Repairing) => UNCHANGED <<disk, writer>>
          /\ lands /\ Repairing => Replace(repair.body) /\ disk' = repair.body
      BY <2>1, <2>4 DEF storage, Replace
    <2>6. CASE ok \/ disk' = repair.body
      <3>1. /\ repair' = [repair EXCEPT !.at = "written"]
            /\ UNCHANGED <<fence, batch, diskFailure, fileIsCurrent, rewriteRequired>>
            /\ UNCHANGED <<acked, rejected, unmarked>>
        BY <2>1, <2>6 DEF history
      <3>2. /\ UNCHANGED <<entries, released, fileIsCurrent, rewriteRequired, forceFileCreation, diskFailure>>
            /\ UNCHANGED <<diskEpoch, diskTail, fence, dirty, tasks, batch, acked, rejected, unmarked>>
        BY <2>2, <3>1
      <3>3. \/ Repairing /\ disk' = repair.body /\ (writer' = writer \/ Replace(repair.body))
            \/ ~Repairing /\ UNCHANGED <<disk, writer>>
        BY <2>1, <2>5, <2>6
      <3> QED
        BY ONLY JournalIInv, <2>2, <2>3, <3>1, <3>2, <3>3, RepairWrites
    <2>7. CASE ~(ok \/ disk' = repair.body)
      <3>1. RepairEnds(FALSE) /\ UNCHANGED <<disk, writer>> /\ FALSE \in BOOLEAN
            /\ (FALSE => Repairing /\ repair.at = "written" /\ ~dirty)
        BY <2>1, <2>5, <2>7
      <3> QED
        BY ONLY JournalIInv, <2>2, <2>3, <3>1, RepairOver
    <2> QED
      BY <2>6, <2>7
  <1>4. CASE RepairChecked
    <2>1. /\ repair.at = "written" /\ repair.at # "none"
          /\ UNCHANGED <<entries, released, forceFileCreation, diskEpoch, diskTail, disk, writer, tasks, faults>>
      BY <1>4 DEF RepairChecked, storage
    <2>2. CASE Repairing /\ dirty
      <3>1. /\ dirty' = FALSE /\ repair' = [repair EXCEPT !.at = "writing", !.body = entries]
            /\ UNCHANGED <<fence, batch, diskFailure, fileIsCurrent, rewriteRequired>>
            /\ UNCHANGED <<acked, rejected, unmarked>>
        BY <1>4, <2>2 DEF RepairChecked, Repairing, history
      <3>2. unmarked' \in BOOLEAN /\ (unmarked => unmarked') /\ (dirty /\ ~Repairing => unmarked')
        BY <1>1, <2>2, <3>1
      <3>3. /\ UNCHANGED <<entries, released, fileIsCurrent, rewriteRequired, forceFileCreation, diskFailure>>
            /\ UNCHANGED <<diskEpoch, diskTail, fence, disk, writer, tasks, batch, acked, rejected, faults>>
        BY <2>1, <3>1
      <3> QED
        BY ONLY JournalIInv, <2>1, <3>1, <3>2, <3>3, RepairSerializes
    <2>3. CASE ~(Repairing /\ dirty)
      <3>1. PICK proven \in BOOLEAN : proven = (repair.epoch = diskEpoch)
        OBVIOUS
      <3>2. RepairEnds(repair.epoch = diskEpoch) /\ UNCHANGED dirty
        BY <1>4, <2>1, <2>3 DEF RepairChecked, Repairing
      <3>3. RepairEnds(proven)
        BY <3>1, <3>2
      <3>4. /\ proven => Repairing /\ repair.at = "written" /\ ~dirty
            /\ faults' \in 0..MaxFaults /\ UNCHANGED <<disk, writer>>
            /\ UNCHANGED <<entries, released, forceFileCreation, diskEpoch, diskTail, dirty, tasks>>
        BY <1>1, <2>1, <2>3, <3>1, <3>2 DEF Repairing
      <3> QED
        BY ONLY JournalIInv, <2>1, <3>3, <3>4, RepairOver
    <2> QED
      BY <2>2, <2>3
  <1> QED
    BY <1>2, <1>3, <1>4

-----------------------------------------------------------------------------
(* The end of a manager. *)

LEMMA SealKeeps ==
  ASSUME JournalIInv, Seal
  PROVE  JournalIInv'
  <1>1. TypeOK /\ diskEpoch \in Nat
    BY Pieces DEF JournalIInv
  <1>2. /\ ~released /\ released' = TRUE /\ diskEpoch' = diskEpoch + 1
        /\ UNCHANGED <<entries, fileIsCurrent, rewriteRequired, forceFileCreation, diskFailure>>
        /\ UNCHANGED <<diskTail, fence, dirty, disk, writer, tasks, batch, repair>>
        /\ UNCHANGED <<acked, rejected, unmarked, faults>>
    BY DEF Seal, flags, storage, callers, history
  <1>3. EpochsPast' /\ InOrder' /\ Quiet' /\ ~Repairing'
    <2>1. repair'.epoch <= diskEpoch'
      BY <1>1, <1>2, Pieces DEF JournalIInv, EpochsPast
    <2> QED
      BY <1>2, <2>1, NewEpoch
  <1>4. TypeOK'
    <2>1. diskEpoch' \in Nat \ {0} /\ fence' \in 0..diskEpoch'
      BY <1>1, <1>2 DEF TypeOK
    <2> QED
      BY <1>1, <1>2, <2>1 DEF TypeOK
  <1>5. OnDisk' = OnDisk /\ Ents' = Ents /\ Unknown' = Unknown
    BY <1>2 DEF OnDisk, Ents, Unknown
  <1>6. /\ (writer # "detached")' /\ (batch.at = "committing" => repair.at = "none")'
        /\ (batch.at = "repairing" => RangeOf(Staged) \cap Ents = {})'
        /\ (rejected \cap Ents = {})' /\ (rejected \cap OnDisk = {})' /\ BatchPlaced'
    BY <1>2, <1>5 DEF JournalIInv, FenceHolds, RepairAlone, RolledBack, RejectedIsOut, Without, BatchPlaced
  <1>7. /\ (acked \subseteq OnDisk)' /\ (~released => acked \subseteq Ents)'
        /\ (batch.at = "committing" => acked \cap RangeOf(Staged) = {})'
    BY <1>2, <1>5 DEF JournalIInv, AckedKept
  <1>8. /\ (fileIsCurrent => disk # NoFile)'
        /\ (fileIsCurrent /\ ~rewriteRequired /\ (~diskFailure \/ batch.at = "committing") =>
               Unknown \/ Ents \ Titles \subseteq OnDisk)'
        /\ (Current /\ ~rewriteRequired /\ ~released => Titles \cap Ents \subseteq OnDisk)'
        /\ (~released /\ fileIsCurrent => forceFileCreation \/ Ents \cap Assistants # {})'
    BY <1>2, <1>5 DEF JournalIInv, FileIsCurrent
  <1> QED
    BY ONLY <1>3, <1>4, <1>6, <1>7, <1>8, QuietHolds

LEMMA ReleaseKeeps ==
  ASSUME JournalIInv, Release \/ \E e \in Messages : SuccessorAppends(e)
  PROVE  JournalIInv'
  <1>1. TypeOK
    BY DEF JournalIInv
  <1>2. CASE Release
    <2>1. /\ released /\ entries' = <<>> /\ writer' = "none"
          /\ UNCHANGED <<released, fileIsCurrent, rewriteRequired, forceFileCreation, diskFailure, diskEpoch>>
          /\ UNCHANGED <<diskTail, fence, dirty, tasks, repair, rejected, unmarked, faults>>
          /\ UNCHANGED <<disk, batch, acked>>
      BY <1>2 DEF Release, flags, fencing, callers, history
    <2>2. entries' \in Seq(Entries) /\ Ents' = {} /\ OnDisk' = OnDisk
      BY <2>1, RangeEmpty DEF Ents, OnDisk
    <2>3. /\ acked' \subseteq OnDisk' /\ acked' \subseteq Entries /\ rejected \cap OnDisk' = {}
          /\ BatchPlaced' /\ (batch'.at = "committing" => acked' \cap RangeOf(Staged) = {})
      BY <1>1, <2>1, <2>2 DEF JournalIInv, AckedKept, RejectedIsOut, TypeOK, BatchPlaced
    <2>4. /\ Ents' \subseteq Ents /\ (disk' = disk \/ disk' \in Seq(Entries)) /\ OnDisk \subseteq OnDisk'
          /\ (disk' = NoFile => disk = NoFile) /\ (writer' = writer \/ writer' = "none")
          /\ (batch' = batch \/ batch' = NoBatch)
          /\ (fileIsCurrent /\ ~rewriteRequired /\ (~diskFailure \/ batch'.at = "committing") =>
                Unknown' \/ Ents' \ Titles \subseteq OnDisk')
      BY <2>1, <2>2
    <2> QED
      BY ONLY JournalIInv, <2>1, <2>2, <2>3, <2>4, ReleasedKeeps
  <1>3. CASE \E e \in Messages : SuccessorAppends(e)
    <2>1. PICK e \in Messages : SuccessorAppends(e)
      BY <1>3
    <2>2. /\ released /\ entries = <<>> /\ disk # NoFile /\ Fresh(e) /\ e \in Entries
          /\ disk' = Append(disk, e) /\ acked' = acked \cup {e} /\ e \notin RangeOf(Staged)
          /\ UNCHANGED <<released, fileIsCurrent, rewriteRequired, forceFileCreation, diskFailure, diskEpoch>>
          /\ UNCHANGED <<diskTail, fence, dirty, tasks, repair, rejected, unmarked, faults>>
          /\ UNCHANGED <<entries, writer, batch>>
      BY <2>1, Constants DEF SuccessorAppends, flags, fencing, callers, history
    <2>3. disk \in Seq(Entries) /\ OnDisk = RangeOf(disk)
      BY <1>1, <2>2, Pieces
    <2>4. /\ disk' \in Seq(Entries) /\ RangeOf(disk') = OnDisk \cup {e}
      BY <2>2, <2>3, RangeAppend
    <2>5. disk' # NoFile /\ OnDisk' = OnDisk \cup {e}
      BY <2>4, Constants DEF OnDisk
    <2>6. entries' \in Seq(Entries) /\ Ents' = Ents /\ Ents = {}
      BY <2>2, RangeEmpty DEF Ents
    <2>7. /\ acked' \subseteq OnDisk' /\ acked' \subseteq Entries /\ rejected \cap OnDisk' = {}
          /\ BatchPlaced' /\ (batch'.at = "committing" => acked' \cap RangeOf(Staged) = {})
      BY <1>1, <2>2, <2>5 DEF JournalIInv, AckedKept, RejectedIsOut, TypeOK, BatchPlaced, Fresh
    <2>8. /\ Ents' \subseteq Ents /\ (disk' = disk \/ disk' \in Seq(Entries)) /\ OnDisk \subseteq OnDisk'
          /\ (disk' = NoFile => disk = NoFile) /\ (writer' = writer \/ writer' = "none")
          /\ (batch' = batch \/ batch' = NoBatch)
          /\ (fileIsCurrent /\ ~rewriteRequired /\ (~diskFailure \/ batch'.at = "committing") =>
                Unknown' \/ Ents' \ Titles \subseteq OnDisk')
      BY <2>2, <2>4, <2>5, <2>6
    <2> QED
      BY ONLY JournalIInv, <2>2, <2>6, <2>7, <2>8, ReleasedKeeps
  <1> QED
    BY <1>2, <1>3

(* The next process starts from the file, with nothing scheduled. *)
LEMMA CrashKeeps ==
  ASSUME JournalIInv, Crash
  PROVE  JournalIInv'
  <1>1. TypeOK /\ faults \in 0..MaxFaults /\ MaxFaults \in Nat
    BY Constants DEF JournalIInv, TypeOK
  <1>2. /\ disk # NoFile /\ faults < MaxFaults /\ faults' = faults + 1
        /\ UNCHANGED <<disk, acked, rejected>> /\ unmarked' = FALSE
        /\ entries' = disk /\ released' = FALSE
        /\ fileIsCurrent' = TRUE /\ rewriteRequired' = FALSE
        /\ forceFileCreation' = TRUE /\ diskFailure' = FALSE
        /\ diskEpoch' = 1 /\ diskTail' = 0 /\ fence' = 0 /\ dirty' = FALSE
        /\ writer' = "none" /\ batch' = NoBatch /\ repair' = NoRepair
    BY DEF Crash
  <1>3. /\ NoBatch \in BatchType /\ NoRepair \in RepairType /\ batch'.at = "none"
        /\ repair'.at = "none" /\ repair'.epoch = 0
    BY <1>2, NothingTyped
  <1>4. /\ FreeTask \in TaskType /\ FreeTask.epoch = 0 /\ FreeTask.pc = "free" /\ FreeTask.kind = "none"
    <2>1. <<>> \in Seq(Entries) /\ 0 \in 0..MaxTasks
      BY Constants
    <2> QED
      BY <2>1 DEF FreeTask, TaskType
  <1>5. [FreeTask EXCEPT !.pc = "done"] \in TaskType
    BY <1>4 DEF TaskType
  <1>6. /\ [FreeTask EXCEPT !.pc = "done"].epoch = 0 /\ [FreeTask EXCEPT !.pc = "done"].pc = "done"
        /\ [FreeTask EXCEPT !.pc = "done"].kind = "none"
    BY <1>4 DEF FreeTask
  <1>7. /\ tasks' \in [Tasks -> TaskType]
        /\ \A i \in Tasks : /\ tasks'[i].epoch = 0 /\ tasks'[i].kind = "none"
                            /\ tasks'[i].pc = IF tasks[i].pc = "free" THEN "free" ELSE "done"
    BY <1>4, <1>5, <1>6 DEF Crash
  <1>8. EpochsPast'
    BY <1>1, <1>2, <1>3, <1>7 DEF JournalIInv, EpochsPast, Over
  <1>9. Quiet' /\ InOrder'
    BY <1>2, <1>7 DEF Quiet, InOrder, InTime
  <1>10. /\ disk \in Seq(Entries) /\ Ents' = OnDisk /\ OnDisk' = OnDisk
    BY <1>1, <1>2, Pieces DEF Ents, OnDisk
  <1>11. TypeOK'
    <2>1. faults' \in 0..MaxFaults /\ diskEpoch' \in Nat \ {0} /\ fence' \in 0..diskEpoch'
      BY <1>1, <1>2
    <2>2. diskTail' \in 0..MaxTasks
      BY <1>2, Constants
    <2> QED
      BY <1>1, <1>2, <1>3, <1>7, <1>10, <2>1, <2>2 DEF TypeOK
  <1>12. /\ (acked \subseteq OnDisk)' /\ (~released => acked \subseteq Ents)'
         /\ (rejected \cap Ents = {})' /\ (rejected \cap OnDisk = {})'
    BY <1>2, <1>10 DEF JournalIInv, AckedKept, RejectedIsOut
  <1>13. /\ (writer # "detached")' /\ (batch.at = "committing" => repair.at = "none")'
         /\ (batch.at = "committing" => acked \cap RangeOf(Staged) = {})' /\ ~Repairing'
         /\ (batch.at = "repairing" => RangeOf(Staged) \cap Ents = {})' /\ BatchPlaced'
    BY <1>2, <1>3 DEF Repairing, BatchPlaced
  <1>14. /\ (fileIsCurrent => disk # NoFile)'
         /\ (fileIsCurrent /\ ~rewriteRequired /\ (~diskFailure \/ batch.at = "committing") =>
               Unknown \/ Ents \ Titles \subseteq OnDisk)'
         /\ (Current /\ ~rewriteRequired /\ ~released => Titles \cap Ents \subseteq OnDisk)'
         /\ (~released /\ fileIsCurrent => forceFileCreation \/ Ents \cap Assistants # {})'
    BY <1>2, <1>10
  <1> QED
    BY ONLY <1>8, <1>9, <1>11, <1>12, <1>13, <1>14, QuietHolds

LEMMA JournalInit ==
  ASSUME Init
  PROVE  JournalIInv
  <1>1. /\ NoBatch \in BatchType /\ NoRepair \in RepairType /\ NoBatch.at = "none"
        /\ NoRepair.at = "none" /\ NoRepair.epoch = 0
    BY NothingTyped
  <1>2. /\ FreeTask \in TaskType /\ FreeTask.epoch = 0 /\ FreeTask.pc = "free" /\ FreeTask.kind = "none"
    <2>1. <<>> \in Seq(Entries) /\ 0 \in 0..MaxTasks
      BY Constants
    <2> QED
      BY <2>1 DEF FreeTask, TaskType
  <1>3. tasks \in [Tasks -> TaskType] /\ \A i \in Tasks : tasks[i] = FreeTask
    BY <1>2 DEF Init
  <1>4. TypeOK
    <2>1. 1 \in Nat \ {0} /\ 0 \in 0..1 /\ 0 \in 0..MaxTasks /\ 0 \in 0..MaxFaults /\ <<>> \in Seq(Entries)
      BY Constants
    <2> QED
      BY <1>1, <1>3, <2>1 DEF Init, TypeOK
  <1>5. EpochsPast /\ ReleasedIsOver /\ \A i \in Tasks : ~InTime(i)
    BY <1>1, <1>2, <1>3 DEF Init, EpochsPast, ReleasedIsOver, Over, InTime
  <1>6. Ents = {} /\ OnDisk = {} /\ ~Repairing
    BY <1>1, RangeEmpty DEF Init, Ents, OnDisk, Repairing
  <1>7. InOrder /\ FenceHolds /\ RepairAlone /\ BodyIsCurrent /\ RepairIsCurrent
    BY <1>1, <1>5, <1>6 DEF Init, InOrder, FenceHolds, RepairAlone, BodyIsCurrent, RepairIsCurrent
  <1>8. AckedKept /\ FileIsCurrent /\ FileIsWanted /\ TitlesDue
    BY <1>1, <1>5, <1>6 DEF Init, AckedKept, FileIsCurrent, FileIsWanted, TitlesDue
  <1>9. BatchPlaced /\ RolledBack /\ RejectedIsOut
    BY <1>1, <1>5, <1>6 DEF Init, BatchPlaced, RolledBack, RejectedIsOut, Without
  <1> QED
    BY <1>4, <1>5, <1>7, <1>8, <1>9 DEF JournalIInv

LEMMA JournalStep ==
  ASSUME ~LateTitleFails, JournalIInv, [Next]_vars
  PROVE  JournalIInv'
  <1>1. ASSUME NEW e \in Messages,
               AppendToBatch(e) \/ AppendLazily(e) \/ AppendByRewrite(e) \/ AppendHot(e) \/ SuccessorAppends(e)
        PROVE  JournalIInv'
    BY <1>1, BatchedKeeps, LazilyKeeps, RewritesKeep, HotKeeps, ReleaseKeeps
  <1>2. ASSUME NEW t \in Titles, SetTitle(t) PROVE JournalIInv'
    BY <1>2, SetTitleKeeps
  <1>3. ASSUME NEW force \in BOOLEAN, RewriteEntries(force) PROVE JournalIInv'
    BY <1>3, EntriesKeep
  <1>4. CASE FlushSync \/ Recover \/ StageBatch \/ CommitBatch \/ RollBackBatch
    BY <1>4, RewritesKeep, RecoverKeeps, StageKeeps, CommitKeeps, RollBackKeeps
  <1>5. CASE RepairDrained \/ RepairPublish \/ RepairChecked
    BY <1>5, RepairKeeps
  <1>6. ASSUME NEW i \in Tasks, TaskStep(i) PROVE JournalIInv'
    BY <1>6, StartKeeps, TitleKeeps, RewriteKeeps DEF TaskStep
  <1>7. CASE Seal \/ Release \/ Crash
    BY <1>7, SealKeeps, ReleaseKeeps, CrashKeeps
  <1>8. CASE UNCHANGED vars
    <2>1. /\ UNCHANGED <<entries, released, fileIsCurrent, rewriteRequired, forceFileCreation, diskFailure>>
          /\ UNCHANGED <<diskEpoch, diskTail, fence, dirty, disk, writer, tasks, batch, repair>>
          /\ UNCHANGED <<acked, rejected, unmarked, faults>>
      BY <1>8 DEF vars, flags, fencing, storage, callers, history
    <2>2. TypeOK' /\ EpochsPast' /\ ReleasedIsOver' /\ InOrder' /\ FenceHolds' /\ RepairAlone'
      BY <2>1 DEF JournalIInv, TypeOK, EpochsPast, ReleasedIsOver, InOrder, FenceHolds, RepairAlone,
                  InTime, Over, Active, Rewriting, Repairing
    <2>3. AckedKept' /\ BodyIsCurrent' /\ RepairIsCurrent' /\ FileIsCurrent' /\ FileIsWanted'
      BY <2>1 DEF JournalIInv, AckedKept, BodyIsCurrent, RepairIsCurrent, FileIsCurrent, FileIsWanted,
                  InTime, Rewriting, Repairing, OnDisk, Ents, Unknown
    <2>4. TitlesDue' /\ BatchPlaced' /\ RolledBack' /\ RejectedIsOut'
      BY <2>1 DEF JournalIInv, TitlesDue, BatchPlaced, RolledBack, RejectedIsOut, Without, WillWrite,
                  InTime, Repairing, OnDisk, Ents, Current
    <2> QED
      BY <2>2, <2>3, <2>4 DEF JournalIInv
  <1> QED
    BY <1>1, <1>2, <1>3, <1>4, <1>5, <1>6, <1>7, <1>8 DEF Next

-----------------------------------------------------------------------------
(* The journal is typed, and its flags tell the truth about the file: see  *)
(* JournalInv, for which a title write must not fail late. *)
THEOREM JournalCorrect ==
  ASSUME ~LateTitleFails
  PROVE  Spec => []JournalInv
  <1>1. Init => JournalIInv
    BY JournalInit
  <1>2. JournalIInv /\ [Next]_vars => JournalIInv'
    BY JournalStep
  <1>3. JournalIInv => JournalInv
    <2> SUFFICES ASSUME JournalIInv PROVE JournalInv
      OBVIOUS
    <2>1. TypeOK
      BY DEF JournalIInv
    <2>2. ASSUME ~unmarked, Current, ~rewriteRequired, ~released, batch.at = "none", NEW e \in Ents
          PROVE  e \in OnDisk \/ (e \in Titles /\ \E i \in Tasks : tasks[i].pc \notin {"free", "done"})
      <3>1. Ents \ Titles \subseteq OnDisk
        BY <2>2 DEF JournalIInv, FileIsCurrent, Current, Unknown
      <3>2. e \in Titles => e \in OnDisk \/ \E i \in Tasks : WillWrite(i, e)
        BY <2>2 DEF JournalIInv, TitlesDue
      <3> QED
        BY <2>2, <3>1, <3>2 DEF WillWrite
    <2> QED
      BY <2>1, <2>2 DEF JournalInv, CurrentIsTrue, FileHoldsAll, Ents
  <1> QED
    BY <1>1, <1>2, <1>3, PTL DEF Spec

(* What a caller was told of its entry holds of the file from then on. *)
THEOREM AnswersKept ==
  ASSUME ~LateTitleFails
  PROVE  Spec => []AnswersHold
  <1>1. Init => JournalIInv
    BY JournalInit
  <1>2. JournalIInv /\ [Next]_vars => JournalIInv'
    BY JournalStep
  <1>3. JournalIInv => AnswersHold
    BY DEF JournalIInv, AckedKept, RejectedIsOut, AnswersHold, AckedSurvives, RejectedStaysOut
  <1> QED
    BY <1>1, <1>2, <1>3, PTL DEF Spec
=============================================================================
