--------------------------- MODULE SessionJournal ---------------------------
(***************************************************************************)
(* The transcript file of one session: SessionManager in                   *)
(* session/session-manager.ts over the SessionStorage interface of         *)
(* session/session-storage.ts.                                             *)
(*                                                                         *)
(* Completed entries are appended synchronously.  Everything else that     *)
(* writes the file is a task on a chain of promises: atomic rewrites of    *)
(* the whole file, and title changes that fall back to one.  A synchronous *)
(* rewrite restarts the chain under a new epoch; tasks of an older epoch   *)
(* that are already running must find out for themselves.                  *)
(*                                                                         *)
(* A step is what runs between two awaits.  An entry is a value, the file  *)
(* the sequence of entries a reload would find, header and title slot left *)
(* out.  The process may crash at any step; the file is what is left.      *)
(***************************************************************************)
EXTENDS Naturals, Sequences

CONSTANTS
    Messages,      \* completed entries, by appendMessage and its siblings
    Assistants,    \* those of them that open the lazy gate
    Titles,        \* title changes, by setSessionName
    Staged,        \* the entries of an atomic batch, in order
    NoFile,        \* the content of a file that was never written
    None,          \* no title
    MaxTasks,      \* bound on the disk tasks scheduled
    MaxEpoch,      \* bound on the epoch in which a repair is requested
    MaxFaults,     \* bound on the failing storage operations and crashes
    LateTitleFails \* a title write may fail after its epoch has passed

RangeOf(s) == {s[k] : k \in DOMAIN s}
Entries    == Messages \cup Titles \cup RangeOf(Staged)
Tasks      == 1..MaxTasks

ASSUME JournalAssumption ==
    /\ Assistants \subseteq Messages /\ Staged \in Seq(RangeOf(Staged))
    /\ Messages \cap Titles = {} /\ (Messages \cup Titles) \cap RangeOf(Staged) = {}
    /\ NoFile \notin Seq(Entries) /\ None \notin Titles
    /\ {MaxTasks, MaxEpoch, MaxFaults} \subseteq Nat
    /\ LateTitleFails \in BOOLEAN

VARIABLES
    entries,           \* #entries
    released,          \* #released
    fileIsCurrent,     \* #fileIsCurrent
    rewriteRequired,   \* #rewriteRequired
    forceFileCreation, \* #forceFileCreation
    diskFailure,       \* #diskFailure is set
    diskEpoch,         \* #diskEpoch
    diskTail,          \* the task #diskTail stands for, 0 when settled
    fence,             \* #atomicRewriteFenceEpoch, 0 for null
    dirty,             \* #atomicRewriteDirty
    disk,              \* the file's content
    writer,            \* #writer, and whether it still writes to the file
    tasks,             \* the disk tasks
    batch,             \* #atomicEntryBatch and the coroutine that owns it
    repair,            \* the authoritative rewrite in progress
    acked,             \* entries that were reported as written
    rejected,          \* entries of a batch reported as not written
    unmarked,          \* ghost: a superseded repair took the mark of a newer rewrite down
    faults             \* how often storage failed or the process died

flags   == <<fileIsCurrent, rewriteRequired, forceFileCreation, diskFailure>>
fencing == <<diskEpoch, diskTail, fence, dirty>>
storage == <<disk, writer>>
callers == <<batch, repair>>
history == <<acked, rejected, unmarked>>
vars    == <<entries, released, flags, fencing, storage, tasks, callers, history, faults>>

FreeTask == [kind |-> "none", entry |-> None, epoch |-> 0, after |-> 0,
             pc |-> "free", body |-> <<>>, bad |-> FALSE, ok |-> TRUE]
NoBatch  == [at |-> "none", task |-> 0, from |-> 0]
NoRepair == [at |-> "none", epoch |-> 0, after |-> 0, body |-> <<>>]

OnDisk  == IF disk = NoFile THEN {} ELSE RangeOf(disk)
InBatch == IF batch.at = "none" THEN {} ELSE RangeOf(Staged)

(* A new manager, before any entry: the file does not exist yet. *)
Init ==
    /\ entries = <<>> /\ released = FALSE
    /\ fileIsCurrent = FALSE /\ rewriteRequired = FALSE
    /\ forceFileCreation = FALSE /\ diskFailure = FALSE
    /\ diskEpoch = 1 /\ diskTail = 0 /\ fence = 0 /\ dirty = FALSE
    /\ disk = NoFile /\ writer = "none"
    /\ tasks = [i \in Tasks |-> FreeTask] /\ batch = NoBatch /\ repair = NoRepair
    /\ acked = {} /\ rejected = {} /\ unmarked = FALSE /\ faults = 0

-----------------------------------------------------------------------------
(* Helpers.                                                                *)

(* An entry gets an id of its own. *)
Fresh(e) == e \notin RangeOf(entries) \cup OnDisk \cup acked \cup rejected

(* A storage operation succeeds, or fails within the bound. *)
Outcome(ok) ==
    /\ ok \/ faults < MaxFaults
    /\ faults' = IF ok THEN faults ELSE faults + 1

(* #shouldHaveSessionFile: nothing is written before an assistant message, *)
(* unless someone asked for the file.                                      *)
ShouldHaveFile(es, current) ==
    forceFileCreation \/ current \/ RangeOf(es) \cap Assistants # {}

(* #scheduleDiskWork: a task of the present epoch behind the chain's tail. *)
Schedule(kind, e) ==
    \E i \in Tasks :
        /\ tasks[i].pc = "free" /\ \A k \in 1..(i-1) : tasks[k].pc # "free"
        /\ tasks' = [tasks EXCEPT ![i] = [FreeTask EXCEPT
             !.kind = kind, !.entry = e, !.epoch = diskEpoch,
             !.after = diskTail, !.pc = "queued"]]
        /\ diskTail' = i

Settled(i) == IF i = 0 THEN TRUE ELSE tasks[i].pc = "done"

(* The file is replaced by rename: an open writer keeps the old one. *)
Replace(body) ==
    /\ disk' = body
    /\ writer' = IF writer = "open" THEN "detached" ELSE writer

RewriteSync_KeepsEpoch(es, ok, current, required) ==
    /\ diskEpoch' = diskEpoch /\ diskTail' = 0 /\ writer' = "none"
    /\ disk' = IF ok THEN es ELSE disk
    /\ diskFailure' = ~ok
    /\ fileIsCurrent' = (ok \/ current) /\ rewriteRequired' = (~ok /\ required)
    /\ acked' = IF ok THEN acked \cup (RangeOf(es) \ InBatch) ELSE acked
    /\ unmarked' = (unmarked /\ ~ok)
(* #rewriteSynchronously with entries es; the flags it leaves when the     *)
(* write fails are those its caller had set.                               *)
RewriteSync(es, ok, current, required) ==
    /\ diskEpoch' = diskEpoch + 1 /\ diskTail' = 0 /\ writer' = "none"
    /\ disk' = IF ok THEN es ELSE disk
    /\ diskFailure' = ~ok
    /\ fileIsCurrent' = (ok \/ current) /\ rewriteRequired' = (~ok /\ required)
    /\ acked' = IF ok THEN acked \cup (RangeOf(es) \ InBatch) ELSE acked
    /\ unmarked' = (unmarked /\ ~ok)

-----------------------------------------------------------------------------
(* Synchronous operations.                                                 *)

(* A disk failure makes every later append a full rewrite. *)
Current == fileIsCurrent /\ ~diskFailure
Fenced  == fence # 0 /\ fence = diskEpoch

(* #appendToSessionFile inside a batch: the batch's rewrite will take it.  *)
AppendToBatch(e) ==
    /\ batch.at # "none" /\ ~released /\ Fresh(e)
    /\ entries' = Append(entries, e)
    /\ fileIsCurrent' = FALSE /\ rewriteRequired' = TRUE /\ dirty' = TRUE
    /\ UNCHANGED <<released, forceFileCreation, diskFailure, diskEpoch, diskTail, fence,
                   storage, tasks, callers, history, faults>>

(* Before the lazy gate opens. *)
AppendLazily(e) ==
    /\ batch.at = "none" /\ ~released /\ Fresh(e)
    /\ entries' = Append(entries, e)
    /\ ~ShouldHaveFile(entries', Current)
    /\ fileIsCurrent' = FALSE
    /\ rewriteRequired' = (rewriteRequired \/ diskFailure)
    /\ UNCHANGED <<released, forceFileCreation, diskFailure, fencing, storage, tasks,
                   callers, history, faults>>

(* Behind a fence, after a failure, or when the file is not current. *)
AppendByRewrite(e) ==
    /\ batch.at = "none" /\ ~released /\ Fresh(e)
    /\ entries' = Append(entries, e)
    /\ ShouldHaveFile(entries', Current)
    /\ Fenced \/ ~Current \/ rewriteRequired
    /\ \E ok \in BOOLEAN :
         /\ Outcome(ok)
         /\ RewriteSync(entries', ok, Current, rewriteRequired \/ diskFailure)
    /\ dirty' = (dirty \/ Fenced)
    /\ UNCHANGED <<released, forceFileCreation, fence, tasks, callers, rejected>>

(* The hot path: one line on the append writer, taken back when it fails.  *)
WriteLine(e, ok) ==
    /\ writer = "broken" => ~ok
    /\ disk' = IF ok /\ writer # "detached" THEN Append(disk, e) ELSE disk
    /\ writer' = IF ~ok THEN "broken" ELSE IF writer = "none" THEN "open" ELSE writer

AppendHot(e) ==
    /\ batch.at = "none" /\ ~released /\ Fresh(e)
    /\ Current /\ ~rewriteRequired /\ ~Fenced
    /\ entries' = Append(entries, e)
    /\ \E ok \in BOOLEAN :
         /\ Outcome(ok)
         /\ WriteLine(e, ok)
         /\ fileIsCurrent' = ok /\ rewriteRequired' = ~ok /\ diskFailure' = ~ok
         /\ acked' = IF ok THEN acked \cup {e} ELSE acked
    /\ UNCHANGED <<released, forceFileCreation, fencing, tasks, callers, rejected, unmarked>>

(* flushSync: throws inside a batch or after a failure. *)
FlushSync ==
    /\ batch.at = "none" /\ ~diskFailure /\ ~released
    /\ ~fileIsCurrent \/ rewriteRequired
    /\ ShouldHaveFile(entries, fileIsCurrent)
    /\ \E ok \in BOOLEAN :
         /\ Outcome(ok)
         /\ RewriteSync(entries, ok, fileIsCurrent, rewriteRequired)
    /\ UNCHANGED <<entries, released, forceFileCreation, fence, dirty, tasks, callers, rejected>>

-----------------------------------------------------------------------------
(* Calls that schedule disk work.                                          *)

(* ensureOnDisk (force) and rewriteEntries: #rewriteAtomically.  The first  *)
(* opens the lazy gate, and schedules nothing when the file is current;    *)
(* the callers of the second change turns that were answered.              *)
RewriteEntries(force) ==
    /\ ~released
    /\ IF force THEN ~fileIsCurrent \/ rewriteRequired
       ELSE ShouldHaveFile(entries, fileIsCurrent)
    /\ Schedule("rewrite", None)
    /\ forceFileCreation' = (force \/ forceFileCreation)
    /\ UNCHANGED <<entries, released, fileIsCurrent, rewriteRequired, diskFailure,
                   diskEpoch, fence, dirty, storage, callers, history, faults>>

(* setSessionName: the entry is recorded at once, #persistTitleChangeEntry *)
(* writes it by one of four ways.                                          *)
SetTitle(t) ==
    /\ ~released /\ Fresh(t)
    /\ entries' = Append(entries, t)
    /\ \/ /\ diskFailure
          /\ \E ok \in BOOLEAN :
               /\ Outcome(ok)
               /\ IF ShouldHaveFile(entries', FALSE)
                  THEN RewriteSync(entries', ok, FALSE, TRUE)
                  ELSE /\ ok /\ fileIsCurrent' = FALSE /\ rewriteRequired' = TRUE
                       /\ UNCHANGED <<diskEpoch, diskTail, storage, diskFailure, acked, unmarked>>
          /\ UNCHANGED tasks
       \/ /\ ~diskFailure /\ ~ShouldHaveFile(entries', fileIsCurrent)
          /\ fileIsCurrent' = FALSE
          /\ UNCHANGED <<rewriteRequired, diskFailure, diskEpoch, diskTail, storage,
                         tasks, acked, unmarked, faults>>
       \/ /\ ~diskFailure /\ ShouldHaveFile(entries', fileIsCurrent)
          /\ IF ~fileIsCurrent \/ rewriteRequired
             THEN Schedule("rewrite", None) ELSE Schedule("title", t)
          /\ UNCHANGED <<fileIsCurrent, rewriteRequired, diskFailure, diskEpoch, storage,
                         acked, unmarked, faults>>
    /\ UNCHANGED <<released, forceFileCreation, fence, dirty, callers, rejected>>

-----------------------------------------------------------------------------
(* The disk tasks.                                                         *)

Done(i, ok) == tasks' = [tasks EXCEPT ![i] = [FreeTask EXCEPT !.pc = "done", !.ok = ok]]

LowerFence_Never(e) == fence
(* The finally clause of #runFencedAtomicRewrite and of the repair. *)
LowerFence(e) == IF fence = e THEN 0 ELSE fence

(* A task that rejects: its error is latched. *)
TaskFails(i) ==
    /\ Done(i, FALSE)
    /\ diskFailure' = TRUE /\ fence' = LowerFence(tasks[i].epoch)

(* A turn of the loop of #runFencedAtomicRewrite, up to the await of the   *)
(* closing writer, whose recorded error close() throws.                    *)
CloseWriter(i, broken) ==
    /\ dirty' = FALSE /\ writer' = "none"
    /\ tasks' = [tasks EXCEPT ![i].pc = "closing", ![i].bad = broken]

(* #runFencedAtomicRewrite begins. *)
RaiseFence(i, broken) == fence' = tasks[i].epoch /\ CloseWriter(i, broken)

(* #scheduleDiskWork runs the work when the chain gets to it; a task of an *)
(* older epoch is dropped, one behind a failure rejects.                   *)
StartTask(i) ==
    /\ tasks[i].pc = "queued" /\ Settled(tasks[i].after)
    /\ \/ /\ tasks[i].epoch # diskEpoch \/ (~diskFailure /\ released)
          /\ Done(i, TRUE)
          /\ UNCHANGED <<fence, dirty, storage, fileIsCurrent, rewriteRequired, diskFailure, faults>>
       \/ /\ tasks[i].epoch = diskEpoch /\ diskFailure
          /\ Done(i, FALSE)
          /\ UNCHANGED <<fence, dirty, storage, fileIsCurrent, rewriteRequired, diskFailure, faults>>
       \/ /\ tasks[i].epoch = diskEpoch /\ ~diskFailure /\ ~released
          /\ tasks[i].kind = "rewrite"
          /\ RaiseFence(i, writer = "broken")
          /\ UNCHANGED <<disk, fileIsCurrent, rewriteRequired, diskFailure, faults>>
       \/ /\ tasks[i].epoch = diskEpoch /\ ~diskFailure /\ ~released
          /\ tasks[i].kind = "title"
          /\ \/ /\ Outcome(TRUE) /\ WriteLine(tasks[i].entry, TRUE)
                /\ tasks' = [tasks EXCEPT ![i].pc = "titling"]
                /\ UNCHANGED <<fence, dirty, diskFailure>>
             \/ /\ Outcome(FALSE) /\ RaiseFence(i, TRUE)
                /\ diskFailure' = TRUE /\ UNCHANGED disk
          /\ UNCHANGED <<fileIsCurrent, rewriteRequired>>
    /\ UNCHANGED <<entries, released, forceFileCreation, diskEpoch, diskTail, callers, history>>

(* updateSessionTitle returns, or fails and the catch clause falls back to *)
(* an atomic rewrite.                                                      *)
TitleWritten(i) ==
    /\ tasks[i].pc = "titling"
    /\ Done(i, TRUE)
    /\ fileIsCurrent' = (fileIsCurrent \/ tasks[i].epoch = diskEpoch)
    /\ UNCHANGED <<entries, released, rewriteRequired, forceFileCreation, diskFailure,
                   fencing, storage, callers, history, faults>>

TitleCatch(i) ==
    /\ tasks[i].pc = "titling" /\ (LateTitleFails \/ tasks[i].epoch = diskEpoch)
    /\ Outcome(FALSE)
    /\ IF released THEN Done(i, TRUE) /\ UNCHANGED <<fence, dirty, writer>>
       ELSE RaiseFence(i, writer = "broken")
    /\ UNCHANGED <<entries, released, flags, diskEpoch, diskTail, disk, callers, history>>

(* The writer is closed: leave when superseded, else serialize the body. *)
WriterClosed(i) ==
    /\ tasks[i].pc = "closing"
    /\ \/ tasks[i].bad /\ TaskFails(i)
       \/ /\ ~tasks[i].bad /\ tasks[i].epoch # diskEpoch
          /\ Done(i, TRUE) /\ fence' = LowerFence(tasks[i].epoch)
          /\ UNCHANGED diskFailure
       \/ /\ ~tasks[i].bad /\ tasks[i].epoch = diskEpoch
          /\ tasks' = [tasks EXCEPT ![i].pc = "writing", ![i].body = entries]
          /\ UNCHANGED <<fence, diskFailure>>
    /\ UNCHANGED <<entries, released, fileIsCurrent, rewriteRequired, forceFileCreation,
                   diskEpoch, diskTail, dirty, storage, callers, history, faults>>

CommitGuard_Open(e) == TRUE
(* commitGuard, checked in the same step as the rename. *)
CommitGuard(e) == ~released /\ diskEpoch = e

(* writeTextAtomic: a failing one may have published all the same. *)
Publish(i) ==
    /\ tasks[i].pc = "writing"
    /\ \E ok, lands \in BOOLEAN :
         /\ Outcome(ok) /\ (ok => lands)
         /\ IF lands /\ CommitGuard(tasks[i].epoch)
            THEN Replace(tasks[i].body) ELSE UNCHANGED storage
         /\ IF ok THEN /\ tasks' = [tasks EXCEPT ![i].pc = "written", ![i].body = <<>>]
                       /\ UNCHANGED <<fence, diskFailure>>
                  ELSE TaskFails(i)
    /\ UNCHANGED <<entries, released, fileIsCurrent, rewriteRequired, forceFileCreation,
                   diskEpoch, diskTail, dirty, callers, history>>

(* Back in the loop: dirty is another turn; when it is neither dirty nor   *)
(* superseded, the caller sets the flags in the next microtask.            *)
Published(i) ==
    /\ tasks[i].pc = "written"
    /\ IF tasks[i].epoch = diskEpoch /\ dirty
       THEN CloseWriter(i, writer = "broken") /\ UNCHANGED <<fence, fileIsCurrent, rewriteRequired, diskFailure>>
       ELSE /\ Done(i, TRUE) /\ fence' = LowerFence(tasks[i].epoch)
            /\ IF tasks[i].epoch = diskEpoch
               THEN /\ fileIsCurrent' = TRUE /\ rewriteRequired' = FALSE
                    /\ diskFailure' = (diskFailure /\ tasks[i].kind = "rewrite")
               ELSE UNCHANGED <<fileIsCurrent, rewriteRequired, diskFailure>>
            /\ UNCHANGED <<dirty, writer>>
    /\ UNCHANGED <<entries, released, forceFileCreation, diskEpoch, diskTail, disk, callers,
                   history, faults>>

-----------------------------------------------------------------------------
(* Atomic batches and authoritative repair, one at a time.                 *)

(* #authoritativelyRewriteCurrentStateLocked up to its first await: a new  *)
(* epoch, a fence of its own and a latched failure until it is proven.     *)
BeginRepair ==
    /\ diskEpoch' = diskEpoch + 1 /\ diskTail' = 0 /\ fence' = diskEpoch + 1
    /\ writer' = "none" /\ forceFileCreation' = TRUE
    /\ fileIsCurrent' = FALSE /\ rewriteRequired' = TRUE /\ diskFailure' = TRUE
    /\ repair' = [at |-> "draining", epoch |-> diskEpoch + 1, after |-> diskTail,
                  body |-> <<>>]

(* recoverPersistenceFromCurrentState. *)
Recover ==
    /\ batch.at = "none" /\ repair.at = "none" /\ ~released /\ diskEpoch < MaxEpoch
    /\ BeginRepair
    /\ UNCHANGED <<entries, released, dirty, disk, tasks, batch, history, faults>>

(* appendEntriesAtomically, once ensureOnDisk and flush have succeeded:    *)
(* the entries are staged in one synchronous call.                         *)
StageBatch ==
    /\ batch.at = "none" /\ repair.at = "none" /\ ~released
    /\ fileIsCurrent /\ ~rewriteRequired /\ ~diskFailure
    /\ \A e \in RangeOf(Staged) : Fresh(e)
    /\ Schedule("rewrite", None)
    /\ \E i \in Tasks :
         /\ tasks'[i].pc = "queued" /\ tasks[i].pc = "free"
         /\ batch' = [at |-> "committing", task |-> i, from |-> Len(entries)]
    /\ entries' = entries \o Staged
    /\ fileIsCurrent' = FALSE /\ rewriteRequired' = TRUE /\ dirty' = TRUE
    /\ forceFileCreation' = TRUE
    /\ UNCHANGED <<released, diskFailure, diskEpoch, fence, storage, repair, history, faults>>

(* The batch's rewrite has returned and the file holds it. *)
CommitBatch ==
    /\ batch.at = "committing" /\ Settled(batch.task)
    /\ tasks[batch.task].ok /\ fileIsCurrent /\ ~rewriteRequired
    /\ batch' = NoBatch
    /\ acked' = acked \cup (RangeOf(entries) \ Titles)
    /\ UNCHANGED <<entries, released, flags, fencing, storage, tasks, repair, rejected,
                   unmarked, faults>>

(* The entries without those of the batch.  The code leaves them out by    *)
(* id; they were staged in a row, after the first batch.from entries.      *)
Retained ==
    [k \in 1..(Len(entries) - Len(Staged)) |->
        IF k <= batch.from THEN entries[k] ELSE entries[k + Len(Staged)]]

(* It failed or was superseded: #rollbackAtomicEntryBatch takes the staged *)
(* entries out, keeps those appended meanwhile, and the repair begins.     *)
RollBackBatch ==
    /\ batch.at = "committing" /\ Settled(batch.task)
    /\ ~(tasks[batch.task].ok /\ fileIsCurrent /\ ~rewriteRequired)
    /\ entries' = Retained
    /\ IF released
       THEN /\ batch' = NoBatch
            /\ UNCHANGED <<flags, diskEpoch, diskTail, fence, writer, repair>>
       ELSE BeginRepair /\ batch' = [batch EXCEPT !.at = "repairing"]
    /\ UNCHANGED <<released, dirty, disk, tasks, history, faults>>

(* The chain has drained and the old writer is closed.  A repair that was  *)
(* superseded by now publishes nothing, but has cleared the mark before it *)
(* finds out.                                                              *)
RepairDrained ==
    /\ repair.at = "draining" /\ Settled(repair.after)
    /\ dirty' = FALSE
    /\ unmarked' = (unmarked \/ (dirty /\ repair.epoch # diskEpoch))
    /\ repair' = [repair EXCEPT !.at = "writing", !.body = entries]
    /\ UNCHANGED <<entries, released, flags, diskEpoch, diskTail, fence, storage, tasks,
                   batch, acked, rejected, faults>>

(* The repair ends; its owner learns whether the file is proven. *)
RepairEnds(proven) ==
    /\ repair' = NoRepair /\ fence' = LowerFence(repair.epoch) /\ batch' = NoBatch
    /\ diskFailure' = ~proven
    /\ IF proven \/ batch.at = "repairing"
       THEN fileIsCurrent' = proven /\ rewriteRequired' = ~proven
       ELSE UNCHANGED <<fileIsCurrent, rewriteRequired>>
    /\ acked' = IF proven THEN acked \cup (RangeOf(entries) \ Titles) ELSE acked
    /\ rejected' = IF proven /\ batch.at = "repairing"
                   THEN rejected \cup RangeOf(Staged) ELSE rejected
    /\ UNCHANGED unmarked

(* Its writeTextAtomic; after a failure the file is read back. *)
RepairPublish ==
    /\ repair.at = "writing"
    /\ \E ok, lands \in BOOLEAN :
         /\ Outcome(ok) /\ (ok => lands)
         /\ IF lands /\ CommitGuard(repair.epoch)
            THEN Replace(repair.body) ELSE UNCHANGED storage
         /\ IF ok \/ disk' = repair.body
            THEN /\ repair' = [repair EXCEPT !.at = "written"]
                 /\ UNCHANGED <<fence, batch, diskFailure, fileIsCurrent, rewriteRequired, history>>
            ELSE RepairEnds(FALSE)
    /\ UNCHANGED <<entries, released, forceFileCreation, diskEpoch, diskTail, dirty, tasks>>

(* Superseded is a failure; dirty is another turn; else it is proven. *)
RepairChecked ==
    /\ repair.at = "written"
    /\ IF repair.epoch = diskEpoch /\ dirty
       THEN /\ dirty' = FALSE
            /\ repair' = [repair EXCEPT !.at = "writing", !.body = entries]
            /\ UNCHANGED <<fence, batch, diskFailure, fileIsCurrent, rewriteRequired, history>>
       ELSE RepairEnds(repair.epoch = diskEpoch) /\ UNCHANGED dirty
    /\ UNCHANGED <<entries, released, forceFileCreation, diskEpoch, diskTail, storage, tasks,
                   faults>>

-----------------------------------------------------------------------------
(* The end of a manager.                                                   *)

(* seal. *)
Seal ==
    /\ ~released
    /\ released' = TRUE /\ diskEpoch' = diskEpoch + 1
    /\ UNCHANGED <<entries, flags, diskTail, fence, dirty, storage, tasks, callers, history,
                   faults>>

(* releaseRetainedEntries, after the close that waits for the chain. *)
Release ==
    /\ released /\ Settled(diskTail) /\ entries # <<>>
    /\ entries' = <<>> /\ writer' = "none"
    /\ UNCHANGED <<released, flags, fencing, disk, tasks, callers, history, faults>>

(* A revived manager appends to the file of the released one. *)
SuccessorAppends(e) ==
    /\ released /\ entries = <<>> /\ disk # NoFile /\ Fresh(e)
    /\ disk' = Append(disk, e) /\ acked' = acked \cup {e}
    /\ UNCHANGED <<entries, released, flags, fencing, writer, tasks, callers, rejected, unmarked,
                   faults>>

(* The process dies, and the next one loads what the file holds. *)
Crash ==
    /\ faults < MaxFaults /\ disk # NoFile
    /\ faults' = faults + 1 /\ UNCHANGED <<disk, acked, rejected>> /\ unmarked' = FALSE
    /\ entries' = disk /\ released' = FALSE
    /\ fileIsCurrent' = TRUE /\ rewriteRequired' = FALSE
    /\ forceFileCreation' = TRUE /\ diskFailure' = FALSE
    /\ diskEpoch' = 1 /\ diskTail' = 0 /\ fence' = 0 /\ dirty' = FALSE
    /\ writer' = "none" /\ tasks' = [i \in Tasks |-> IF tasks[i].pc = "free"
                                   THEN FreeTask ELSE [FreeTask EXCEPT !.pc = "done"]]
    /\ batch' = NoBatch /\ repair' = NoRepair

-----------------------------------------------------------------------------
TaskStep(i) ==
    \/ StartTask(i) \/ TitleWritten(i) \/ TitleCatch(i)
    \/ WriterClosed(i) \/ Publish(i) \/ Published(i)

Next ==
    \/ \E e \in Messages :
         \/ AppendToBatch(e) \/ AppendLazily(e) \/ AppendByRewrite(e) \/ AppendHot(e)
         \/ SuccessorAppends(e)
    \/ \E t \in Titles : SetTitle(t)
    \/ \E force \in BOOLEAN : RewriteEntries(force)
    \/ FlushSync \/ Recover \/ StageBatch \/ CommitBatch \/ RollBackBatch
    \/ RepairDrained \/ RepairPublish \/ RepairChecked
    \/ \E i \in Tasks : TaskStep(i)
    \/ Seal \/ Release \/ Crash

Spec == Init /\ [][Next]_vars

(* Storage answers, and coroutines that can go on do. *)
Fairness ==
    /\ \A i \in Tasks : WF_vars(TaskStep(i))
    /\ WF_vars(CommitBatch \/ RollBackBatch)
    /\ WF_vars(RepairDrained \/ RepairPublish \/ RepairChecked)

FairSpec == Spec /\ Fairness

-----------------------------------------------------------------------------
(* Properties.                                                             *)

TaskType ==
    [kind : {"none", "rewrite", "title"}, entry : Titles \cup {None}, epoch : Nat,
     after : 0..MaxTasks, body : Seq(Entries), bad : BOOLEAN, ok : BOOLEAN,
     pc : {"free", "queued", "titling", "closing", "writing", "written", "done"}]
BatchType  == [at : {"none", "committing", "repairing"}, task : 0..MaxTasks, from : Nat]
RepairType == [at : {"none", "draining", "writing", "written"}, epoch : Nat,
               after : 0..MaxTasks, body : Seq(Entries)]

(* The types, and what the coroutines refer to. *)
TypeOK ==
    /\ entries \in Seq(Entries) /\ disk \in Seq(Entries) \cup {NoFile}
    /\ released \in BOOLEAN /\ fileIsCurrent \in BOOLEAN /\ rewriteRequired \in BOOLEAN
    /\ forceFileCreation \in BOOLEAN /\ diskFailure \in BOOLEAN /\ dirty \in BOOLEAN
    /\ diskEpoch \in Nat \ {0} /\ fence \in 0..diskEpoch /\ diskTail \in 0..MaxTasks
    /\ writer \in {"none", "open", "detached", "broken"}
    /\ tasks \in [Tasks -> TaskType] /\ batch \in BatchType /\ repair \in RepairType
    /\ batch.at = "committing" => batch.task # 0
    /\ batch.at = "repairing" => repair.at # "none"
    /\ acked \subseteq Entries /\ rejected \subseteq RangeOf(Staged) /\ faults \in 0..MaxFaults
    /\ unmarked \in BOOLEAN

(* An entry reported as written is in the file, so it survives a crash at  *)
(* any later step: no publish of an older body replaces a fresher file, no *)
(* line goes to a file that was renamed away, and a released manager never *)
(* writes over its successor.                                              *)
AckedSurvives == acked \subseteq OnDisk

(* Outside a batch, when the flags say that the file is current and no     *)
(* failure is latched, the file holds every entry, but for titles still    *)
(* being written: flushSync and the hot path rely on it.                   *)
FileHoldsAll ==
    Current /\ ~rewriteRequired /\ ~released /\ batch.at = "none" =>
        \A e \in RangeOf(entries) :
            \/ e \in OnDisk
            \/ e \in Titles /\ \E i \in Tasks : tasks[i].pc \notin {"free", "done"}

(* The flags tell the truth, unless a repair that was superseded has taken *)
(* down the mark of an entry that the newer rewrite had still to write.    *)
CurrentIsTrue == unmarked \/ FileHoldsAll

(* The journal is typed, and its flags tell the truth about the file.      *)
JournalInv == TypeOK /\ CurrentIsTrue

(* A batch that was rejected for good stays out of the file. *)
RejectedStaysOut == rejected \cap OnDisk = {}

(* What a caller was told of its entry holds of the file from then on,     *)
(* over failures, superseded publishes and crashes.                        *)
AnswersHold == AckedSurvives /\ RejectedStaysOut

(* Every fence comes down and every batch gets its answer. *)
FenceFalls == fence # 0 ~> fence = 0
BatchAnswered == batch.at # "none" ~> batch.at = "none"
WritersReturn == FenceFalls /\ BatchAnswered
=============================================================================
