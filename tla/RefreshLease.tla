---------------------------- MODULE RefreshLease ----------------------------
(***************************************************************************)
(* How an OAuth credential is kept alive by several processes:             *)
(* packages/ai/src/auth-storage.ts over sqlite-credential-store.ts.        *)
(*                                                                         *)
(* One row of the shared database holds a refresh token that the provider  *)
(* accepts once.  A process refreshes it in one flight at a time, under a  *)
(* lease of the row that it renews while its request is out; requests for  *)
(* a key in that process share the flight and then write what they were    *)
(* handed back to the row.  Each statement on the database is one step.    *)
(* In a process, what follows an answer runs to the end before anything    *)
(* else does (Quiet); other processes come in between.                     *)
(***************************************************************************)
EXTENDS Naturals, FiniteSets

CONSTANTS
    Procs,     \* the processes that share the database
    Calls,     \* requests for a key, each made once
    Refused,   \* those that follow a refusal of the key in use
    ProcOf,    \* the process that makes each of them
    NoOne,     \* the owner of a lease that nobody holds
    MaxTokens, \* bound on the refresh tokens the provider issues
    MaxDue,    \* bound on how many of them come to be due
    MaxFaults  \* bound on crashes, suspensions and revocations

Tokens == 1..MaxTokens

ASSUME LeaseAssumption ==
    /\ ProcOf \in [Calls -> Procs] /\ Refused \subseteq Calls /\ NoOne \notin Procs
    /\ MaxTokens \in Nat \ {0} /\ {MaxDue, MaxFaults} \subseteq Nat

VARIABLES
    row,    \* the credential's row: its token, and whether it is not disabled
    lease,  \* the row's lease: its owner, and whether it has expired
    issued, \* tokens issued so far: 1, 2, ... in this order
    live,   \* tokens the provider accepts
    due,    \* tokens up to this one are to expire within the skew: all live equally long
    mem,    \* each process's snapshot of the row, 0 when it has none
    flight, \* each process's refresh
    call,   \* each request for a key
    faults, \* faults so far
    hurt    \* ghost: a token was lost in a way no client can prevent

vars == <<row, lease, issued, live, due, mem, flight, call, faults, hurt>>

NoFlight == [pc |-> "none", force |-> FALSE, sent |-> 0, answer |-> "none",
             new |-> 0, lost |-> FALSE, result |-> 0]

Init ==
    /\ row = [token |-> 1, active |-> TRUE]
    /\ lease = [owner |-> NoOne, expired |-> FALSE]
    /\ issued = 1 /\ live = {1} /\ due \in {0, 1}
    /\ mem = [p \in Procs |-> 1]
    /\ flight = [p \in Procs |-> NoFlight]
    /\ call = [c \in Calls |-> [pc |-> "idle", turn |-> 1, token |-> 0]]
    /\ faults = 0 /\ hurt = FALSE

(* What a list of the store shows a process. *)
Stored == IF row.active THEN row.token ELSE 0
(* What is handed out after a statement that matched no row. *)
Reloaded == IF Stored <= due THEN 0 ELSE Stored

Alive(p) == flight[p].pc # "dead"
(* No request of p has still to write what it was handed, and nothing in   *)
(* p has still to run before it looks at its timers and sockets.           *)
Kept(p) == \A c \in Calls : ProcOf[c] = p => call[c].pc # "keep"
Quiet(p) ==
    /\ flight[p].pc \in {"none", "sleep", "request"}
    /\ \A c \in Calls : ProcOf[c] = p => call[c].pc \notin {"keep", "try"}

At(p, pc) == flight[p].pc = pc
Fly(p, f) == flight' = [flight EXCEPT ![p] = f]
Remember(p, t) == mem' = [mem EXCEPT ![p] = t]
database == <<row, lease>>
provider == <<issued, live, due>>

-----------------------------------------------------------------------------
(* Requests for a key. *)

(* #refreshOAuthCredential: join the flight, take a token that is still    *)
(* good as it is, or start a flight.                                       *)
Refresh(c, sel, turn, force) ==
    LET p == ProcOf[c] IN
    IF At(p, "none") /\ ~force /\ sel > due
      THEN /\ call' = [call EXCEPT ![c] = [pc |-> "keep", turn |-> turn, token |-> sel]]
           /\ UNCHANGED flight
      ELSE /\ call' = [call EXCEPT ![c] = [pc |-> "wait", turn |-> turn, token |-> 0]]
           /\ IF At(p, "none") THEN Fly(p, [NoFlight EXCEPT !.pc = "look", !.force = force])
                               ELSE UNCHANGED flight

Finish(c) == call' = [call EXCEPT ![c].pc = "done"]

(* The selection of a credential: it is read from the store, and refreshed *)
(* when it is due, or when the key it gave was refused and no peer has     *)
(* changed it since.                                                       *)
Select(c) ==
    LET p == ProcOf[c]
        refused == c \in Refused
        stale == Stored <= due \/ (refused /\ mem[p] = Stored) IN
    /\ call[c].pc = "idle" /\ Quiet(p)
    /\ Remember(p, Stored)
    /\ IF Stored = 0 THEN Finish(c) /\ UNCHANGED flight
       ELSE IF stale THEN Refresh(c, Stored, 1, refused)
       ELSE call' = [call EXCEPT ![c].pc = "try"] /\ UNCHANGED flight
    /\ UNCHANGED <<database, provider, faults, hurt>>

(* #prepareOAuthCredentialForRequest, after the refresh of the selection. *)
Prepare(c) ==
    LET p == ProcOf[c] IN
    /\ call[c].pc = "try" /\ Kept(p)
    /\ Remember(p, Stored)
    /\ IF Stored = 0 THEN Finish(c)
                     ELSE call' = [call EXCEPT ![c] = [pc |-> "usage", turn |-> 2, token |-> Stored]]
    /\ UNCHANGED <<database, provider, flight, faults, hurt>>

(* The usage report has arrived, or none was asked for: the account is at  *)
(* its limit, or the credential prepared is used.                          *)
UsageKnown(c) ==
    /\ call[c].pc = "usage" /\ Quiet(ProcOf[c])
    /\ \/ call' = [call EXCEPT ![c].pc = "done", ![c].token = 0] /\ UNCHANGED flight
       \/ Refresh(c, call[c].token, 2, FALSE)
    /\ UNCHANGED <<database, provider, mem, faults, hurt>>

(* The row is compared with the snapshot that the process has now. *)
AsRemembered_Blind(p) == mem[p] # 0 /\ row.active
AsRemembered(p) == mem[p] # 0 /\ Stored = mem[p]

(* #replaceCredentialById *)
Keep(c) ==
    LET p == ProcOf[c] IN
    /\ call[c].pc = "keep" /\ Alive(p)
    /\ IF AsRemembered(p) THEN row' = [row EXCEPT !.token = call[c].token] /\ Remember(p, call[c].token)
                  ELSE Remember(p, IF mem[p] = 0 THEN 0 ELSE Stored) /\ UNCHANGED row
    /\ hurt' = (hurt \/ (AsRemembered(p) /\ call[c].token # mem[p]))
    /\ call' = [call EXCEPT ![c].pc = IF call[c].turn = 1 THEN "try" ELSE "done", ![c].token = 0]
    /\ UNCHANGED <<lease, provider, flight, faults>>

-----------------------------------------------------------------------------
(* The flight: refreshStoredOAuthCredential. *)

(* The flight is over: who waited for it has its token, or fails. *)
Settle(p, token) ==
    /\ Fly(p, NoFlight)
    /\ call' = [c \in Calls |->
         IF ProcOf[c] = p /\ call[c].pc = "wait"
           THEN [call[c] EXCEPT !.pc = IF token = 0 THEN "done" ELSE "keep", !.token = token]
           ELSE call[c]]

Over(token) == [NoFlight EXCEPT !.pc = "release", !.result = token]

(* There is nothing to refresh any more, or a peer has done it. *)
NotNeeded(p) == Stored = 0 \/ (~flight[p].force /\ Stored > due)

Look(p) ==
    /\ At(p, "look")
    /\ Remember(p, Stored)
    /\ IF NotNeeded(p) THEN Settle(p, Stored)
       ELSE Fly(p, [flight[p] EXCEPT !.pc = "acquire"]) /\ UNCHANGED call
    /\ UNCHANGED <<database, provider, faults, hurt>>

(* A lease that has run out can be taken over. *)
Free_Any == TRUE
Free_NeverExpires == lease.owner = NoOne
Free == lease.owner = NoOne \/ lease.expired

Acquire(p) ==
    /\ At(p, "acquire")
    /\ IF Free THEN /\ lease' = [owner |-> p, expired |-> FALSE]
                    /\ Fly(p, [flight[p] EXCEPT !.pc = "recheck"])
               ELSE /\ Fly(p, [flight[p] EXCEPT !.pc = "sleep"])
                    /\ UNCHANGED lease
    /\ UNCHANGED <<row, provider, mem, call, faults, hurt>>

Wake(p) ==
    /\ At(p, "sleep") /\ Quiet(p)
    /\ Fly(p, [flight[p] EXCEPT !.pc = "look"])
    /\ UNCHANGED <<database, provider, mem, call, faults, hurt>>

(* The row is read again under the lease, and its token sent. *)
Recheck(p) ==
    /\ At(p, "recheck")
    /\ Remember(p, Stored)
    /\ Fly(p, IF NotNeeded(p) THEN Over(Stored)
                              ELSE [NoFlight EXCEPT !.pc = "request", !.sent = Stored])
    /\ UNCHANGED <<database, provider, call, faults, hurt>>

(* The renewal keeps the lease alive, even one that had run out, unless it *)
(* belongs to someone else by now.                                         *)
Renew(p) ==
    /\ At(p, "request") /\ Quiet(p) /\ ~flight[p].lost
    /\ IF lease.owner = p
         THEN lease.expired /\ lease' = [lease EXCEPT !.expired = FALSE] /\ UNCHANGED flight
         ELSE Fly(p, [flight[p] EXCEPT !.lost = TRUE]) /\ UNCHANGED lease
    /\ UNCHANGED <<row, provider, mem, call, faults, hurt>>

(* An answer that came after the lease was found lost is dropped, a        *)
(* refusal is not.                                                         *)
Answered(p) ==
    /\ At(p, "request") /\ Quiet(p) /\ flight[p].answer # "none"
    /\ Fly(p, IF flight[p].answer = "granted" /\ flight[p].lost THEN Over(0)
              ELSE [flight[p] EXCEPT !.pc = flight[p].answer, !.lost = FALSE])
    /\ UNCHANGED <<database, provider, mem, call, faults, hurt>>

(* The request fails or times out; its token may have been spent. *)
RequestFails(p) ==
    /\ At(p, "request") /\ Quiet(p)
    /\ Fly(p, Over(0))
    /\ hurt' = (hurt \/ flight[p].answer = "granted")
    /\ UNCHANGED <<database, provider, mem, call, faults>>

(* The WHERE clause of the two fenced statements. *)
Matches_NoData(p) == row.active /\ lease = [owner |-> p, expired |-> FALSE]
Matches(p) == Stored = flight[p].sent /\ lease = [owner |-> p, expired |-> FALSE]

(* tryUpdateAuthCredentialIfMatches *)
Write(p) ==
    /\ At(p, "granted")
    /\ IF Matches(p)
         THEN /\ row' = [row EXCEPT !.token = flight[p].new]
              /\ Remember(p, flight[p].new)
              /\ Fly(p, Over(flight[p].new))
         ELSE /\ Remember(p, Stored)
              /\ Fly(p, Over(Reloaded))
              /\ UNCHANGED row
    /\ UNCHANGED <<lease, provider, call, faults, hurt>>

(* tryDisableAuthCredentialIfMatches *)
Disable(p) ==
    /\ At(p, "refused")
    /\ IF Matches(p)
         THEN /\ row' = [row EXCEPT !.active = FALSE]
              /\ Remember(p, 0)
              /\ Fly(p, Over(0))
         ELSE /\ Remember(p, Stored)
              /\ Fly(p, Over(Reloaded))
              /\ UNCHANGED row
    /\ UNCHANGED <<lease, provider, call, faults, hurt>>

Release(p) ==
    /\ At(p, "release")
    /\ lease' = IF lease.owner = p THEN [owner |-> NoOne, expired |-> FALSE] ELSE lease
    /\ Settle(p, flight[p].result)
    /\ UNCHANGED <<row, provider, mem, faults, hurt>>

-----------------------------------------------------------------------------
(* The provider, the user, the clock and the machine. *)

Fault == faults < MaxFaults /\ faults' = faults + 1

(* The provider takes a request: a token it accepts is replaced. *)
Provide(p) ==
    LET f == flight[p] IN
    /\ At(p, "request") /\ f.answer = "none"
    /\ IF f.sent \in live
         THEN /\ issued < MaxTokens
              /\ issued' = issued + 1 /\ live' = (live \ {f.sent}) \cup {issued + 1}
              /\ Fly(p, [f EXCEPT !.answer = "granted", !.new = issued + 1])
         ELSE Fly(p, [f EXCEPT !.answer = "refused"]) /\ UNCHANGED <<issued, live>>
    /\ UNCHANGED <<database, due, mem, call, faults, hurt>>

(* The user logs in again, in yet another process; the row is updated in   *)
(* place.                                                                  *)
Login ==
    /\ row.active /\ issued < MaxTokens
    /\ issued' = issued + 1 /\ live' = live \cup {issued + 1}
    /\ row' = [row EXCEPT !.token = issued + 1]
    /\ UNCHANGED <<lease, due, mem, flight, call, faults, hurt>>

(* The user has withdrawn the grant. *)
Withdraw(p) ==
    /\ At(p, "request") /\ flight[p].answer = "none" /\ flight[p].sent \in live /\ Fault
    /\ live' = {} /\ hurt' = TRUE
    /\ Fly(p, [flight[p] EXCEPT !.answer = "refused"])
    /\ UNCHANGED <<database, issued, due, mem, call>>

Age ==
    /\ due < issued /\ due < MaxDue /\ due' = due + 1
    /\ UNCHANGED <<database, issued, live, mem, flight, call, faults, hurt>>

(* A process is suspended for longer than its lease lasts. *)
Stall(p) ==
    /\ lease = [owner |-> p, expired |-> FALSE] /\ Alive(p) /\ Fault
    /\ lease' = [lease EXCEPT !.expired = TRUE] /\ hurt' = TRUE
    /\ UNCHANGED <<row, provider, mem, flight, call>>

(* A process dies with the lease, and what it was granted and had not      *)
(* written with it.                                                        *)
Crash(p) ==
    /\ lease.owner = p /\ Alive(p) /\ Fault
    /\ Fly(p, [NoFlight EXCEPT !.pc = "dead"])
    /\ call' = [c \in Calls |-> IF ProcOf[c] = p THEN [pc |-> "done", turn |-> call[c].turn, token |-> 0] ELSE call[c]]
    /\ hurt' = (hurt \/ (flight[p].pc \in {"request", "granted"} /\ flight[p].answer = "granted"))
    /\ UNCHANGED <<database, provider, mem>>

LeaseRunsOut ==
    /\ lease.owner # NoOne /\ ~lease.expired /\ ~Alive(lease.owner)
    /\ lease' = [lease EXCEPT !.expired = TRUE]
    /\ UNCHANGED <<row, provider, mem, flight, call, faults, hurt>>

-----------------------------------------------------------------------------
Serve(c) == Select(c) \/ Prepare(c) \/ UsageKnown(c) \/ Keep(c)

Flight(p) ==
    \/ Look(p) \/ Acquire(p) \/ Wake(p) \/ Recheck(p) \/ Renew(p)
    \/ Answered(p) \/ RequestFails(p) \/ Write(p) \/ Disable(p) \/ Release(p)

Next ==
    \/ \E c \in Calls : Serve(c)
    \/ \E p \in Procs : Flight(p) \/ Provide(p) \/ Withdraw(p) \/ Stall(p) \/ Crash(p)
    \/ Age \/ Login \/ LeaseRunsOut

(* Requests and their deadlines end, sleeps end, and time passes for the   *)
(* lease of a process that is no more.                                     *)
Fairness ==
    /\ \A c \in Calls : WF_vars(Serve(c))
    /\ \A p \in Procs : WF_vars(Flight(p))
    /\ WF_vars(LeaseRunsOut)

Spec == Init /\ [][Next]_vars
FairSpec == Spec /\ Fairness

-----------------------------------------------------------------------------
FlightType ==
    [pc : {"none", "look", "acquire", "sleep", "recheck", "request", "granted",
           "refused", "release", "dead"},
     force : BOOLEAN, sent : {0} \cup Tokens, answer : {"none", "granted", "refused"},
     new : {0} \cup Tokens, lost : BOOLEAN, result : {0} \cup Tokens]

CallType ==
    [pc : {"idle", "wait", "keep", "try", "usage", "done"}, turn : {1, 2},
     token : {0} \cup Tokens]

TypeOK ==
    /\ row \in [token : Tokens, active : BOOLEAN]
    /\ lease \in [owner : Procs \cup {NoOne}, expired : BOOLEAN]
    /\ issued \in Tokens /\ live \subseteq 1..issued /\ due \in 0..issued
    /\ mem \in [Procs -> {0} \cup Tokens]
    /\ flight \in [Procs -> FlightType] /\ call \in [Calls -> CallType]
    /\ faults \in 0..MaxFaults /\ hurt \in BOOLEAN

InRequest(p) == flight[p].pc \in {"recheck", "request", "granted", "refused"}

(* Unless a lease ran out under its owner, no two processes are between    *)
(* the reading of the row and the outcome of their requests: none sends a  *)
(* token that another has sent.                                            *)
OneRequester == ~hurt => \A p, q \in Procs : InRequest(p) /\ InRequest(q) => p = q

(* The state is typed, and the lease admits one request at a time.         *)
LeaseInv == TypeOK /\ OneRequester

(* The row has a token the provider accepts, or the process that replaced  *)
(* it is about to write its successor, unless a token was lost on the way, *)
(* and whatever was lost, a credential is disabled only when the provider  *)
(* rejects the very token that is in the row.                              *)
AccountKept ==
    /\ ~row.active => row.token \notin live
    /\ ~hurt => \/ row.active /\ row.token \in live
                \/ \E p \in Procs : /\ flight[p].pc \in {"request", "granted"}
                                    /\ flight[p].sent = row.token
                                    /\ flight[p].new \in live

(* A refresh never puts a token older than the one in the row into it, not *)
(* the token of an owner that slept through its lease, of a peer's login   *)
(* that came first, or of an answer that came late.                        *)
LateAnswerIsDropped ==
    [][row'.token < row.token => \E c \in Calls : call[c].pc = "keep" /\ call'[c] # call[c]]_vars

(* Nothing puts a token older than the one in the row into it: the write   *)
(* of a token to the row leaves a peer's rotation alone.                   *)
RotationKept == [][row'.token >= row.token]_vars

(* Every request for a key returns, while processes die with the lease.    *)
KeyReturns == \A c \in Calls : call[c].pc # "idle" ~> call[c].pc = "done"
=============================================================================
