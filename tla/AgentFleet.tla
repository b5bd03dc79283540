----------------------------- MODULE AgentFleet -----------------------------
(***************************************************************************)
(* One agent id of the fleet: its entry in the AgentRegistry               *)
(* (registry/agent-registry.ts), its idle time to live, parking, revival   *)
(* and release by the AgentLifecycleManager (registry/agent-lifecycle.ts), *)
(* and the delivery of messages to it by the IrcBus (irc/bus.ts).          *)
(*                                                                         *)
(* The id is reused: a generation is the AgentRef of one registration, and *)
(* a generation goes through several sessions, one per revival.  Messages  *)
(* are sends in progress; they run concurrently with the idle timer, with  *)
(* revivals, with kills, and with the teardown of the manager.             *)
(*                                                                         *)
(* A step is what runs between two awaits.  The end of a first run is one  *)
(* step, up to its adoption or disposal, and so is the build of a session. *)
(* A message to an idle session starts its turn at once.  Main and advisor *)
(* agents, which are never adopted, are left out.                          *)
(***************************************************************************)
EXTENDS Naturals

CONSTANTS
    Messages,    \* sends to the agent
    Killers,     \* coroutines that release the agent
    MaxRefs,     \* bound on the generations of the id
    MaxSessions, \* bound on the sessions built
    MaxFaults    \* bound on the revivers that fail or are not found

Refs     == 1..MaxRefs
Sessions == 1..MaxSessions

ASSUME FleetAssumption ==
    {MaxRefs, MaxSessions, MaxFaults} \subseteq Nat

VARIABLES
    current,  \* the registry's ref for the id, 0 when there is none
    refs,     \* status and session of every generation
    sess,     \* the sessions
    adopted,  \* #adopted: the ref, whether it has a reviver, its timer, and whether
              \* the timer last fired while the id was being parked
    park,     \* #parks: the park in flight
    revival,  \* #revivals, by ref, and the coroutine of each
    disposed, \* #disposed
    kills,    \* releases and disposals in progress
    msgs,     \* sends in progress
    waiter,   \* a wait of the recipient is pending
    mailbox,  \* messages kept for the recipient
    faults, hurt \* revivers that failed; a reason for refusals has come up

registry == <<current, refs>>
bus      == <<msgs, waiter, mailbox>>
history  == <<faults, hurt>>
vars     == <<registry, sess, adopted, park, revival, disposed, kills, bus, history>>

NoAdoption == [ref |-> 0, revive |-> FALSE, timer |-> FALSE, missed |-> FALSE]
NoPark     == [at |-> "none", ref |-> 0, session |-> 0, cancelled |-> FALSE]
NoRevival  == [at |-> "none", session |-> 0, cold |-> FALSE]
NoKill     == [at |-> "none", how |-> "none", ref |-> 0, session |-> 0]
Over       == [NoKill EXCEPT !.at = "done"]

Init ==
    /\ current = 0 /\ refs = [r \in Refs |-> [status |-> "none", session |-> 0]]
    /\ sess = [s \in Sessions |->
                 [at |-> "none", ref |-> 0, synced |-> FALSE, turn |-> FALSE,
                  early |-> FALSE, by |-> "none"]]
    /\ adopted = NoAdoption /\ park = NoPark
    /\ revival = [r \in Refs |-> NoRevival] /\ disposed = FALSE
    /\ kills = [k \in Killers |-> NoKill]
    /\ msgs = [m \in Messages |-> [at |-> "new", got |-> 0, ref |-> 0, receipt |-> "none"]]
    /\ waiter = FALSE /\ mailbox = {}
    /\ faults = 0 /\ hurt = FALSE

-----------------------------------------------------------------------------
(* The registry and the manager's listener.                                *)

Live    == IF current = 0 THEN 0 ELSE refs[current].session
Status  == IF current = 0 THEN "none" ELSE refs[current].status
Parking == park.at # "none" /\ ~park.cancelled
Has     == adopted.ref # 0

(* No resumption is due: only then does the event loop take up a timer or  *)
(* the end of an I/O.                                                      *)
Drained ==
    /\ park.at # "yield"
    /\ park.at = "dispose" => sess[park.session].at # "gone"
    /\ \A m \in Messages : msgs[m].at \notin {"got", "kept", "unparked"}
    /\ \A k \in Killers :
         /\ kills[k].at # "ready"
         /\ kills[k].at = "dispose" => sess[kills[k].session].at # "gone"

(* #onRegistryEvent for a change of the status of ref r; a park in flight  *)
(* owns the transition to idle, and a disposed manager does not listen.    *)
Timed(a, r, status) ==
    IF disposed \/ a.ref # r THEN a
    ELSE IF status = "running" THEN [a EXCEPT !.timer = FALSE, !.missed = FALSE]
    ELSE IF status = "idle" /\ park.at = "none" THEN [a EXCEPT !.timer = TRUE, !.missed = FALSE]
    ELSE a

(* setStatus by session s of its ref: aborted is terminal. *)
SetRunState(s, status) ==
    LET r == sess[s].ref IN
    IF sess[s].synced /\ current = r /\ refs[r].session = s
         /\ refs[r].status \notin {"aborted", status}
    THEN /\ refs' = [refs EXCEPT ![r].status = status]
         /\ adopted' = Timed(adopted, r, status)
    ELSE UNCHANGED <<refs, adopted>>

(* unregister, and the removal event. *)
Unregister(r) ==
    IF r # 0 /\ current = r
    THEN /\ current' = 0
         /\ adopted' = IF adopted.ref = r /\ ~disposed THEN NoAdoption ELSE adopted
    ELSE UNCHANGED <<current, adopted>>

(* beginDispose: the session refuses work from here on. *)
BeginDispose(s, by) == [sess EXCEPT ![s].at = "disposing", ![s].by = by]

Spared_Tombstone(r) == refs[r].status = "aborted" /\ refs[r].session = 0
(* unregisterUnlessParked of sdk.ts spares a ref that is parked, is being  *)
(* parked, or is a detached tombstone.                                     *)
Spared(r) ==
    \/ refs[r].status = "parked"
    \/ refs[r].status = "aborted" /\ refs[r].session = 0
    \/ Parking /\ park.ref = r

(* dispose ends, and its wrapper forgets the ref; an isolated run detaches *)
(* the ref it had parked.                                                  *)
SessionGone(s) ==
    /\ sess[s].at = "disposing" /\ Drained
    /\ sess' = [sess EXCEPT ![s].at = "gone", ![s].turn = FALSE]
    /\ LET r == sess[s].ref IN
       /\ IF Spared(r) THEN UNCHANGED <<current, adopted>> ELSE Unregister(r)
       /\ refs' = IF sess[s].by = "isolated" /\ current' = r
                  THEN [refs EXCEPT ![r].session = 0] ELSE refs
    /\ UNCHANGED <<park, revival, disposed, kills, bus, history>>

-----------------------------------------------------------------------------
(* Sessions and their turns.                                               *)

Fresh(r) == refs[r].status = "none" /\ \A q \in 1..(r-1) : refs[q].status # "none"
Unbuilt(s) == sess[s].at = "none" /\ \A q \in 1..(s-1) : sess[q].at # "none"

(* A fresh spawn takes an id that is free. *)
Spawn(r, s) ==
    /\ current = 0 /\ ~disposed /\ Fresh(r) /\ Unbuilt(s)
    /\ current' = r
    /\ refs' = [refs EXCEPT ![r] = [status |-> "running", session |-> s]]
    /\ sess' = [sess EXCEPT ![s] = [at |-> "live", ref |-> r, synced |-> TRUE,
                                    turn |-> TRUE, early |-> FALSE, by |-> "first"]]
    /\ UNCHANGED <<adopted, park, revival, disposed, kills, bus, history>>

(* A scan of the disk registers an agent of an earlier process as parked,  *)
(* or as aborted if it has a tombstone.                                    *)
Restore(r, status) ==
    /\ current = 0 /\ Fresh(r)
    /\ current' = r /\ refs' = [refs EXCEPT ![r].status = status]
    /\ hurt' = (hurt \/ status = "aborted")
    /\ UNCHANGED <<sess, adopted, park, revival, disposed, kills, bus, faults>>

(* It finds the id taken by a parked ref, which belongs to another root    *)
(* session: that ref is unregistered, whoever is reviving it.              *)
Replace(r, status) ==
    /\ Status = "parked" /\ Live = 0 /\ Fresh(r) /\ Drained
    /\ current' = r /\ refs' = [refs EXCEPT ![r].status = status]
    /\ adopted' = IF adopted.ref = current /\ ~disposed THEN NoAdoption ELSE adopted
    /\ hurt' = (hurt \/ status = "aborted" \/ revival[current].at # "none")
    /\ UNCHANGED <<sess, park, revival, disposed, kills, bus, faults>>

Adopted(r) == [ref |-> r, revive |-> TRUE, timer |-> FALSE, missed |-> FALSE]

(* finalizeSubagentLifecycle at the end of the first run: an agent that is *)
(* kept alive is adopted; a one-shot or isolated one is disposed.          *)
Finish(s, how) ==
    LET r    == sess[s].ref
        owns == current = r /\ refs[r].session = s
    IN
    /\ sess[s].at = "live" /\ sess[s].by = "first"
    /\ IF how = "kept" /\ owns
       THEN /\ sess' = [sess EXCEPT ![s].turn = FALSE, ![s].by = "none"]
            /\ refs' = [refs EXCEPT ![r].status = "idle"]
            /\ adopted' = [Adopted(r) EXCEPT !.timer = TRUE]
            /\ UNCHANGED hurt
       ELSE /\ sess' = BeginDispose(s, how)
            /\ refs' = IF how = "isolated" /\ owns
                       THEN [refs EXCEPT ![r].status = "parked"] ELSE refs
            /\ hurt' = TRUE /\ UNCHANGED adopted
    /\ UNCHANGED <<current, park, revival, disposed, kills, bus, faults>>

(* A woken turn ends. *)
TurnEnds(s) ==
    /\ sess[s].at = "live" /\ sess[s].by = "none" /\ sess[s].turn
    /\ sess' = [sess EXCEPT ![s].turn = FALSE]
    /\ SetRunState(s, "idle")
    /\ UNCHANGED <<current, park, revival, disposed, kills, bus, history>>

-----------------------------------------------------------------------------
(* Parking.                                                                *)

(* The idle timer fires: park, up to its first await.  Sends, kills and    *)
(* the ends of turns may come between here and its commit, as they do when *)
(* park is called from a tick that goes on.                                *)
TimerFires ==
    /\ adopted.timer /\ Drained
    /\ adopted' = [adopted EXCEPT !.timer = FALSE, !.missed = (park.at # "none")]
    /\ park' = IF park.at = "none" /\ adopted.ref = current /\ Live # 0
               THEN [at |-> "yield", ref |-> current, session |-> Live, cancelled |-> FALSE]
               ELSE park
    /\ UNCHANGED <<registry, sess, revival, disposed, kills, bus, history>>

(* The park is over: its promise wakes those who await it. *)
ParkOver ==
    /\ park' = NoPark
    /\ msgs' = [m \in Messages |->
                  IF msgs[m].at = "cancelling" THEN [msgs[m] EXCEPT !.at = "kept"]
                  ELSE IF msgs[m].at = "parking" THEN [msgs[m] EXCEPT !.at = "unparked"]
                  ELSE msgs[m]]
    /\ kills' = [k \in Killers |->
                   IF kills[k].at = "parking" THEN [kills[k] EXCEPT !.at = "ready"]
                   ELSE kills[k]]

ParkCommits_DisposesFirst ==
    /\ park.at = "yield"
    /\ IF park.cancelled \/ current # park.ref \/ Live # park.session
            \/ adopted.ref # park.ref
       THEN ParkOver /\ UNCHANGED <<refs, sess>>
       ELSE /\ park' = [park EXCEPT !.at = "dispose"]
            /\ UNCHANGED refs
            /\ sess' = BeginDispose(park.session, "park")
            /\ UNCHANGED <<msgs, kills>>
    /\ UNCHANGED <<current, adopted, revival, disposed, waiter, mailbox, history>>
(* The park commits: detached and parked before the session is disposed. *)
ParkCommits ==
    /\ park.at = "yield"
    /\ IF park.cancelled \/ current # park.ref \/ Live # park.session
            \/ adopted.ref # park.ref
       THEN ParkOver /\ UNCHANGED <<refs, sess>>
       ELSE /\ park' = [park EXCEPT !.at = "dispose"]
            /\ refs' = [refs EXCEPT ![park.ref].session = 0,
                 ![park.ref].status = IF @ = "aborted" THEN @ ELSE "parked"]
            /\ sess' = BeginDispose(park.session, "park")
            /\ UNCHANGED <<msgs, kills>>
    /\ UNCHANGED <<current, adopted, revival, disposed, waiter, mailbox, history>>

ParkEnds ==
    /\ park.at = "dispose" /\ sess[park.session].at = "gone"
    /\ ParkOver
    /\ UNCHANGED <<registry, sess, adopted, revival, disposed, waiter, mailbox, history>>

-----------------------------------------------------------------------------
(* Sends, and ensureLive in them.                                          *)

Ends(m, receipt) == msgs' = [msgs EXCEPT ![m].at = "done", ![m].receipt = receipt]

(* The rest of #deliver: a waiter, the session, or the mailbox. *)
HandOver(m) ==
    \/ /\ waiter
       /\ Ends(m, "waiter") /\ waiter' = FALSE
       /\ UNCHANGED <<mailbox, sess, refs, adopted>>
    \/ /\ ~waiter /\ Live = 0
       /\ Ends(m, "failed") /\ UNCHANGED <<waiter, mailbox, sess, refs, adopted>>
    \/ /\ ~waiter /\ Live # 0
       /\ IF sess[Live].at # "live"
          THEN /\ Ends(m, "failed") /\ mailbox' = mailbox \cup {m}
               /\ UNCHANGED <<sess, refs, adopted>>
          ELSE /\ Ends(m, "session")
               /\ UNCHANGED mailbox
               /\ IF sess[Live].turn THEN UNCHANGED <<sess, refs, adopted>>
                  ELSE /\ sess' = [sess EXCEPT ![Live].turn = TRUE,
                                               ![Live].early = ~sess[Live].synced]
                       /\ SetRunState(Live, "running")
       /\ UNCHANGED waiter

(* The second half of ensureLive: a live session, a revival to share, or a *)
(* revival of its own by the adopted reviver or by the persisted factory.  *)
Resolve(m) ==
    IF current = 0
    THEN Ends(m, "failed") /\ UNCHANGED revival
    ELSE IF Live # 0
    THEN msgs' = [msgs EXCEPT ![m].at = "got", ![m].got = Live] /\ UNCHANGED revival
    ELSE IF revival[current].at # "none"
    THEN msgs' = [msgs EXCEPT ![m].at = "reviving", ![m].ref = current] /\ UNCHANGED revival
    ELSE IF Status = "parked" /\ ((adopted.ref = current /\ adopted.revive) \/ ~disposed)
    THEN /\ msgs' = [msgs EXCEPT ![m].at = "reviving", ![m].ref = current]
         /\ revival' = [revival EXCEPT ![current] =
              [NoRevival EXCEPT !.at = IF adopted.ref = current /\ adopted.revive
                                       THEN "building" ELSE "factory"]]
    ELSE Ends(m, "failed") /\ UNCHANGED revival

(* #deliver up to its first await. *)
Send(m) ==
    /\ msgs[m].at = "new" /\ current # 0
    /\ \/ /\ Status = "aborted"
          /\ Ends(m, "failed")
          /\ UNCHANGED <<refs, sess, adopted, park, revival, waiter, mailbox>>
       \/ /\ Status # "aborted" /\ Status # "parked" /\ ~Parking /\ ~Has
          /\ HandOver(m)
          /\ UNCHANGED <<park, revival>>
       \/ /\ Status # "aborted" /\ (Status = "parked" \/ Parking \/ Has)
          /\ IF park.at = "yield" /\ Live # 0
             THEN /\ park' = [park EXCEPT !.cancelled = TRUE]
                  /\ msgs' = [msgs EXCEPT ![m].at = "cancelling", ![m].ref = current]
                  /\ UNCHANGED revival
             ELSE IF park.at # "none"
             THEN msgs' = [msgs EXCEPT ![m].at = "parking"] /\ UNCHANGED <<park, revival>>
             ELSE Resolve(m) /\ UNCHANGED park
          /\ UNCHANGED <<refs, sess, adopted, waiter, mailbox>>
    /\ UNCHANGED <<current, disposed, kills, faults, hurt>>

Rearmed_Never(m) == adopted
(* The cancelled park took the timer down; ensureLive arms it again. *)
Rearmed(m) ==
    IF adopted.ref = msgs[m].ref /\ refs[msgs[m].ref].status = "idle"
    THEN [adopted EXCEPT !.timer = TRUE, !.missed = FALSE] ELSE adopted

(* ensureLive resumes after the park it cancelled or waited for. *)
Resume(m) ==
    /\ msgs[m].at \in {"kept", "unparked"}
    /\ IF msgs[m].at = "kept" /\ Live # 0
       THEN /\ msgs' = [msgs EXCEPT ![m].at = "got", ![m].got = Live]
            /\ adopted' = Rearmed(m) /\ UNCHANGED revival
       ELSE Resolve(m) /\ UNCHANGED adopted
    /\ UNCHANGED <<registry, sess, park, disposed, kills, waiter, mailbox, history>>

(* #deliver resumes with the live session. *)
Deliver(m) ==
    /\ msgs[m].at = "got"
    /\ HandOver(m)
    /\ UNCHANGED <<current, park, revival, disposed, kills, faults, hurt>>

(* The recipient waits for a message in its turn, until one is there, the  *)
(* wait times out, or the turn is aborted.                                 *)
Wait ==
    /\ Live # 0 /\ ~waiter
    /\ sess[Live].at = "live" /\ sess[Live].turn
    /\ \/ mailbox = {} /\ waiter' = TRUE /\ UNCHANGED mailbox
       \/ \E m \in mailbox : mailbox' = mailbox \ {m} /\ UNCHANGED waiter
    /\ UNCHANGED <<registry, sess, adopted, park, revival, disposed, kills, msgs, history>>

WaitEnds ==
    /\ waiter /\ waiter' = FALSE
    /\ UNCHANGED <<registry, sess, adopted, park, revival, disposed, kills, msgs, mailbox, history>>

-----------------------------------------------------------------------------
(* Revivals.                                                               *)

Settle_First(r, s) ==
    LET m == CHOOSE n \in Messages : msgs[n].at = "reviving" /\ msgs[n].ref = r IN
    /\ revival' = [revival EXCEPT ![r] = NoRevival]
    /\ msgs' = IF s = 0 THEN [msgs EXCEPT ![m].at = "done", ![m].receipt = "failed"]
               ELSE [msgs EXCEPT ![m].at = "got", ![m].got = s]
(* The promise of the revival settles for all who share it. *)
Settle(r, s) ==
    /\ revival' = [revival EXCEPT ![r] = NoRevival]
    /\ msgs' = [m \in Messages |->
                  IF msgs[m].at # "reviving" \/ msgs[m].ref # r THEN msgs[m]
                  ELSE IF s = 0 THEN [msgs[m] EXCEPT !.at = "done", !.receipt = "failed"]
                  ELSE [msgs[m] EXCEPT !.at = "got", !.got = s]]

(* The persisted factory answers; a reviver it found is adopted.           *)
FactoryAnswers(r) ==
    /\ revival[r].at = "factory" /\ Drained
    /\ \/ /\ disposed \/ faults < MaxFaults
          /\ faults' = IF disposed THEN faults ELSE faults + 1
          /\ hurt' = TRUE
          /\ Settle(r, 0) /\ UNCHANGED adopted
       \/ /\ ~disposed
          /\ adopted' = Adopted(r)
          /\ IF current = r /\ refs[r].status = "parked"
             THEN /\ revival' = [revival EXCEPT ![r].at = "building", ![r].cold = TRUE]
                  /\ UNCHANGED msgs
             ELSE Settle(r, 0)
          /\ UNCHANGED <<faults, hurt>>
    /\ UNCHANGED <<registry, sess, park, disposed, kills, waiter, mailbox>>

(* A failed cold revival drops the adoption it made. *)
Dropped(r) == IF revival[r].cold /\ adopted.ref = r THEN NoAdoption ELSE adopted

MayAttach_Tombstone(r) == current = r
(* registerIfAvailable and attachSession: only the parked, detached ref    *)
(* takes a session, a tombstone never does.                                *)
MayAttach(r) == current = r /\ refs[r].status = "parked" /\ refs[r].session = 0

(* The new session claims the ref it was built for. *)
Attached(r, s) == [sess EXCEPT ![s].at = "live", ![s].ref = r]

(* createAgentSession, in the reviver: the new session is attached and the *)
(* ref running, or it fails.                                               *)
Build(r, s) ==
    /\ revival[r].at = "building" /\ Drained
    /\ Unbuilt(s)
    /\ IF MayAttach(r)
       THEN /\ refs' = [refs EXCEPT ![r] = [status |-> "running", session |-> s]]
            /\ sess' = Attached(r, s)
            /\ revival' = [revival EXCEPT ![r].at = "wiring", ![r].session = s]
            /\ adopted' = Timed(adopted, r, "running")
            /\ UNCHANGED msgs
       ELSE /\ Settle(r, 0) /\ adopted' = Dropped(r)
            /\ UNCHANGED <<refs, sess>>
    /\ UNCHANGED <<current, park, disposed, kills, waiter, mailbox, history>>

BuildFails(r) ==
    /\ revival[r].at = "building" /\ Drained /\ faults < MaxFaults
    /\ faults' = faults + 1 /\ hurt' = TRUE
    /\ Settle(r, 0) /\ adopted' = Dropped(r)
    /\ UNCHANGED <<registry, sess, park, disposed, kills, waiter, mailbox>>

(* #revive disposes the session it no longer wants. *)
Discard(s) == IF sess[s].at = "live" THEN BeginDispose(s, "revival") ELSE sess

(* The reviver returns, its session now mirrors its run state, and #revive *)
(* sees whether it is still wanted.                                        *)
Revived(r) ==
    LET s == revival[r].session IN
    /\ revival[r].at = "wiring"
    /\ IF ~disposed /\ current = r /\ refs[r].status = "running" /\ refs[r].session = s
       THEN /\ sess' = [sess EXCEPT ![s].synced = TRUE]
            /\ refs' = [refs EXCEPT ![r].status = "idle"]
            /\ adopted' = Timed(adopted, r, "idle")
            /\ Settle(r, s)
       ELSE /\ sess' = Discard(s)
            /\ adopted' = Dropped(r)
            /\ Settle(r, 0)
            /\ UNCHANGED refs
    /\ UNCHANGED <<current, park, disposed, kills, waiter, mailbox, history>>

-----------------------------------------------------------------------------
(* Releases.                                                               *)

Disposing(s, by) == IF s # 0 /\ sess[s].at = "live" THEN BeginDispose(s, by) ELSE sess

Captured_AfterDetach(r, how) == IF current = r /\ how = "release" THEN refs[r].session ELSE 0
(* release captures the session it will dispose before it detaches it. *)
Captured(r, how) == IF current = r THEN refs[r].session ELSE 0

(* release after the park, up to its next await.  A tombstone is detached  *)
(* and aborted at once, and its sidecar written before the dispose; a ref  *)
(* without a session is unregistered at once.                              *)
Take(k, r, how) ==
    LET s    == Captured(r, how)
        then == [at |-> "dispose", how |-> how, ref |-> r, session |-> s]
    IN
    CASE how = "tombstone" ->
           /\ kills' = [kills EXCEPT ![k] = [then EXCEPT !.at = "persist"]]
           /\ refs' = IF current = r THEN [refs EXCEPT ![r] = [status |-> "aborted", session |-> 0]]
                      ELSE refs
           /\ UNCHANGED <<current, sess>>
      [] how = "release" /\ s # 0 ->
           /\ kills' = [kills EXCEPT ![k] = then]
           /\ sess' = Disposing(s, "release")
           /\ UNCHANGED <<current, refs>>
      [] OTHER ->
           /\ kills' = [kills EXCEPT ![k] = Over]
           /\ current' = IF current = r THEN 0 ELSE current
           /\ UNCHANGED <<refs, sess>>

(* release, up to its first await: drop the adoption, cancel a park. *)
Release(k, how) ==
    LET r == IF current # 0 THEN current ELSE adopted.ref IN
    /\ adopted' = IF adopted.ref = r THEN NoAdoption ELSE adopted
    /\ IF park.at # "none" /\ park.ref = r
       THEN /\ park' = [park EXCEPT !.cancelled = @ \/ park.at = "yield"]
            /\ kills' = [kills EXCEPT ![k] =
                 [at |-> "parking", how |-> how, ref |-> r, session |-> 0]]
            /\ UNCHANGED <<current, refs, sess>>
       ELSE Take(k, r, how) /\ UNCHANGED park

(* A kill from the hub, the job tool, or a hard abort of the first run. *)
Kill(k, how) ==
    /\ kills[k].at = "none" /\ (current # 0 \/ Has)
    /\ Release(k, how) /\ hurt' = TRUE
    /\ UNCHANGED <<revival, disposed, bus, faults>>

(* dispose of the manager releases what it adopted. *)
Dispose(k) ==
    /\ ~disposed /\ disposed' = TRUE /\ hurt' = TRUE
    /\ kills[k].at = "none"
    /\ IF Has \/ (park.at # "none" /\ current # 0) THEN Release(k, "release")
       ELSE UNCHANGED <<current, adopted, park, kills, refs, sess>>
    /\ UNCHANGED <<revival, bus, faults>>

KillResumes(k) ==
    /\ kills[k].at = "ready"
    /\ Take(k, kills[k].ref, kills[k].how)
    /\ adopted' = IF current' = 0 /\ adopted.ref = kills[k].ref /\ ~disposed
                  THEN NoAdoption ELSE adopted
    /\ UNCHANGED <<park, revival, disposed, bus, history>>

(* The sidecar of the tombstone is written, or could not be. *)
TombstoneWritten(k) ==
    /\ kills[k].at = "persist" /\ Drained
    /\ kills' = [kills EXCEPT ![k] = IF @.session = 0 THEN Over ELSE [@ EXCEPT !.at = "dispose"]]
    /\ sess' = Disposing(kills[k].session, "tombstone")
    /\ UNCHANGED <<registry, adopted, park, revival, disposed, bus, history>>

(* The session is gone; without a tombstone the ref is unregistered. *)
KillEnds(k) ==
    /\ kills[k].at = "dispose" /\ sess[kills[k].session].at = "gone"
    /\ kills' = [kills EXCEPT ![k] = Over]
    /\ IF kills[k].how = "tombstone" THEN UNCHANGED <<current, adopted>>
       ELSE Unregister(kills[k].ref)
    /\ UNCHANGED <<refs, sess, park, revival, disposed, bus, history>>

(* reclaimDeadCorpse, at its second look: the parked ref of an id that a   *)
(* spawn wants, which nothing owns and no factory revives.  A revival of   *)
(* an earlier ref may have left #revivals before it ends.                  *)
Reclaim ==
    /\ Status = "parked" /\ Live = 0 /\ ~Has /\ park.at = "none" /\ Drained
    /\ revival[current].at = "none"
    /\ current' = 0
    /\ UNCHANGED <<refs, sess, adopted, park, revival, disposed, kills, bus, history>>

-----------------------------------------------------------------------------
Progress ==
    \/ \E s \in Sessions : SessionGone(s)
    \/ ParkCommits \/ ParkEnds
    \/ \E m \in Messages : Resume(m) \/ Deliver(m)
    \/ \E r \in Refs : FactoryAnswers(r) \/ BuildFails(r) \/ Revived(r)
    \/ \E r \in Refs, s \in Sessions : Build(r, s)
    \/ \E k \in Killers : KillResumes(k) \/ TombstoneWritten(k) \/ KillEnds(k)

Next ==
    \/ \E r \in Refs, s \in Sessions : Spawn(r, s)
    \/ \E r \in Refs, status \in {"parked", "aborted"} : Restore(r, status) \/ Replace(r, status)
    \/ \E s \in Sessions, how \in {"kept", "one-shot", "isolated"} : Finish(s, how)
    \/ \E s \in Sessions : TurnEnds(s)
    \/ \E m \in Messages : Send(m)
    \/ \E k \in Killers, how \in {"release", "tombstone"} : Kill(k, how)
    \/ \E k \in Killers : Dispose(k)
    \/ TimerFires \/ Wait \/ WaitEnds \/ Reclaim \/ Progress

Spec == Init /\ [][Next]_vars

(* Promises settle: disposals, storage and revivers answer. *)
FairSpec ==
    /\ Spec
    /\ \A s \in Sessions : WF_vars(SessionGone(s))
    /\ WF_vars(ParkCommits) /\ WF_vars(ParkEnds)
    /\ \A m \in Messages : WF_vars(Resume(m)) /\ WF_vars(Deliver(m))
    /\ \A r \in Refs : WF_vars(FactoryAnswers(r)) /\ WF_vars(Revived(r))
                       /\ WF_vars(\E s \in Sessions : Build(r, s))
    /\ \A k \in Killers : WF_vars(KillResumes(k)) /\ WF_vars(TombstoneWritten(k))
                          /\ WF_vars(KillEnds(k))

-----------------------------------------------------------------------------
(* Properties.                                                             *)

RefType     == [status : {"none", "running", "idle", "parked", "aborted"},
                session : 0..MaxSessions]
SessionType == [at : {"none", "live", "disposing", "gone"}, ref : 0..MaxRefs,
                synced : BOOLEAN, turn : BOOLEAN, early : BOOLEAN,
                by : {"none", "first", "kept", "one-shot", "isolated", "park", "revival",
                      "release", "tombstone"}]
AdoptType   == [ref : 0..MaxRefs, revive : BOOLEAN, timer : BOOLEAN, missed : BOOLEAN]
ParkType    == [at : {"none", "yield", "dispose"}, ref : 0..MaxRefs,
                session : 0..MaxSessions, cancelled : BOOLEAN]
RevivalType == [at : {"none", "factory", "building", "wiring"}, session : 0..MaxSessions,
                cold : BOOLEAN]
KillType    == [at : {"none", "parking", "ready", "persist", "dispose", "done"},
                how : {"none", "release", "tombstone"}, ref : 0..MaxRefs,
                session : 0..MaxSessions]
SendType    == [at : {"new", "cancelling", "parking", "kept", "unparked", "reviving", "got",
                      "done"},
                got : 0..MaxSessions, ref : 0..MaxRefs,
                receipt : {"none", "waiter", "session", "failed"}]

TypeOK ==
    /\ current \in 0..MaxRefs /\ mailbox \subseteq Messages
    /\ waiter \in BOOLEAN /\ disposed \in BOOLEAN /\ hurt \in BOOLEAN
    /\ refs \in [Refs -> RefType] /\ sess \in [Sessions -> SessionType]
    /\ adopted \in AdoptType /\ park \in ParkType /\ revival \in [Refs -> RevivalType]
    /\ kills \in [Killers -> KillType] /\ msgs \in [Messages -> SendType]

(* A live session is always somebody's: attached to the registered ref, in *)
(* the hands of a kill that is about to dispose it, or of its revival.     *)
NoOrphan ==
    \A s \in Sessions : sess[s].at = "live" =>
        \/ Live = s
        \/ \E k \in Killers : kills[k].session = s
        \/ \E r \in Refs : revival[r].session = s

(* The fleet is typed, and no session is live that nobody would ever end.  *)
FleetInv == TypeOK /\ NoOrphan

(* An adopted agent that is idle has a timer, or a park in flight, or a    *)
(* send that cancelled one and has not come back yet: nothing that raced   *)
(* its park, a message or a revival, leaves it live for ever.  Excepted is *)
(* an agent whose timer last fired while the park of an earlier generation *)
(* of the id was still disposing: park then only joins that one.           *)
IdleIsTimed ==
    ~disposed /\ Has /\ adopted.ref = current /\ Live # 0 /\ Status = "idle" =>
        \/ adopted.timer \/ adopted.missed
        \/ park.at # "none" \/ \E m \in Messages : msgs[m].at = "kept"

(* A send to a registered agent is refused only after a kill, a teardown,  *)
(* the end of an agent that is not kept, a failing reviver, or a scan that *)
(* has found it killed or has replaced it while it was being revived:      *)
(* parking, or a scan by itself, never costs a message.                    *)
RefusedForAReason == \A m \in Messages : msgs[m].receipt = "failed" => hurt

(* ensureLive never returns a session that a park has begun to dispose. *)
ParkedIsNotReturned ==
    [][\A m \in Messages : msgs[m].at # "got" /\ msgs'[m].at = "got" =>
         sess'[msgs'[m].got].by # "park"]_vars

(* "Stale async work can never clobber a newer same-id ref": the adoption  *)
(* of the registered generation is not replaced by that of an earlier one. *)
NewerKeepsAdoption ==
    [][adopted.ref # 0 /\ adopted.ref = current /\ current' = current =>
         adopted'.ref \in {0, current}]_vars

(* A killed generation stays aborted and never gets a session again. *)
AbortedIsFinal ==
    [][\A r \in Refs : refs[r].status = "aborted" =>
         refs'[r].status = "aborted" /\ refs'[r].session = 0]_vars

(* The idle timer never parks an agent in the middle of a turn, unless the *)
(* turn was begun on a session whose revival had not finished, or the      *)
(* manager was disposed: it then no longer hears that an agent runs, and   *)
(* an agent adopted during the teardown keeps its timer.                   *)
ParkSparesTurns ==
    [][\A s \in Sessions : sess[s].at = "live" /\ sess'[s].by = "park" =>
         ~sess[s].turn \/ sess[s].early \/ disposed]_vars

(* Parking never takes a session from somebody who uses it or gets it.     *)
ParkIsSafe == ParkedIsNotReturned /\ ParkSparesTurns

(* Every send returns. *)
SendReturns == \A m \in Messages : msgs[m].at # "new" ~> msgs[m].at = "done"
=============================================================================
