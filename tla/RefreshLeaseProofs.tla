------------------------- MODULE RefreshLeaseProofs -------------------------
(***************************************************************************)
(* For any processes, requests and tokens: one process at a time sends the *)
(* token of the row, the account is kept, and late answers are dropped.    *)
(*                                                                         *)
(* The argument is who may be in a request.  Unless something was lost     *)
(* (hurt), a process in a request owns the lease, alone; so the provider   *)
(* replaces the token of the row for it only, and the successor stays live *)
(* until it is written.                                                    *)
(***************************************************************************)
EXTENDS RefreshLease, TLAPS

(* Tokens are issued in their order, and what a request writes is one.     *)
TokensIssued ==
    /\ row.token <= issued
    /\ \A p \in Procs : mem[p] <= issued /\ flight[p].result <= issued

(* What a request has to write, or has prepared, is a token too.           *)
CallsFine ==
    \A c \in Calls :
        call[c].token <= issued /\ (call[c].pc \in {"keep", "usage"} => call[c].token # 0)

(* What a flight says of the answer it was given, or will be, when the     *)
(* tokens up to n have been issued and those of l are accepted.            *)
AnswerFits(f, n, l) ==
    /\ f.pc \in {"request", "granted", "refused"} => f.sent \in 1..n
    /\ f.pc = "request" => (f.answer = "granted" <=> f.new # 0)
    /\ f.pc = "granted" => f.new # 0 /\ f.answer = "granted"
    /\ f.pc \in {"request", "granted"} /\ f.new # 0 => f.sent < f.new /\ f.new <= n
    /\ f.pc = "refused" \/ (f.pc = "request" /\ f.answer = "refused") => f.sent \notin l

AnswerIsTrue(f) == AnswerFits(f, issued, live)

AnswersAreTrue == \A p \in Procs : AnswerIsTrue(flight[p])

DisabledIsDead == ~row.active => row.token \notin live

(* While nothing was lost: who is in a request owns the lease, and has not *)
(* found it lost; and what it was granted is live.                         *)
RequesterOwns ==
    ~hurt => \A p \in Procs : InRequest(p) =>
        /\ lease.owner = p /\ ~lease.expired
        /\ flight[p].pc = "request" => ~flight[p].lost
        /\ flight[p].pc \in {"request", "granted"} /\ flight[p].new # 0 => flight[p].new \in live

Succeeds(p) == /\ flight[p].pc \in {"request", "granted"}
               /\ flight[p].sent = row.token /\ flight[p].new \in live

RowLives ==
    ~hurt => row.active /\ (row.token \in live \/ \E p \in Procs : Succeeds(p))

IInv ==
    /\ TypeOK /\ TokensIssued /\ CallsFine /\ AnswersAreTrue
    /\ DisabledIsDead /\ RequesterOwns /\ RowLives

-----------------------------------------------------------------------------
(* What a step does to one flight, or to one call.                         *)

LEMMA Numbers ==
  ASSUME TypeOK
  PROVE  /\ row.token \in Nat \ {0} /\ issued \in Nat \ {0} /\ due \in Nat /\ Stored \in Nat
         /\ Stored = IF row.active THEN row.token ELSE 0
         /\ row.active \in BOOLEAN /\ Tokens \subseteq Nat
         /\ \A t \in live : t \in Nat /\ 1 <= t /\ t <= issued
         /\ \A p \in Procs : mem[p] \in Nat /\ flight[p] \in FlightType
         /\ \A f \in FlightType : f.sent \in Nat /\ f.new \in Nat /\ f.result \in Nat
         /\ \A c \in Calls : call[c] \in CallType /\ call[c].token \in Nat
  BY LeaseAssumption DEF TypeOK, Tokens, Stored, FlightType, CallType

LEMMA FlyTyped ==
  ASSUME TypeOK, NEW p \in Procs, NEW f \in FlightType, Fly(p, f)
  PROVE  /\ flight' \in [Procs -> FlightType] /\ flight'[p] = f
         /\ \A q \in Procs : q # p => flight'[q] = flight[q]
  BY DEF TypeOK, Fly

LEMMA RememberTyped ==
  ASSUME TypeOK, TokensIssued, NEW p \in Procs, NEW t \in {0} \cup Tokens, t <= issued,
         Remember(p, t)
  PROVE  mem' \in [Procs -> {0} \cup Tokens] /\ \A q \in Procs : mem'[q] <= issued
  BY DEF TypeOK, Remember, TokensIssued

LEMMA StoredTyped ==
  ASSUME TypeOK, TokensIssued
  PROVE  /\ Stored \in {0} \cup Tokens /\ Stored <= issued
         /\ Reloaded \in {0} \cup Tokens /\ Reloaded <= issued
  BY Numbers, LeaseAssumption DEF TypeOK, TokensIssued, Stored, Reloaded, Tokens

LEMMA NoFlightTyped ==
  /\ NoFlight \in FlightType /\ NoFlight.pc = "none" /\ NoFlight.new = 0
  /\ NoFlight.sent = 0 /\ NoFlight.result = 0
  BY DEF NoFlight, FlightType, Tokens

(* A call that gets a record of the type.                                  *)
LEMMA CallTyped ==
  ASSUME TypeOK, CallsFine, NEW c \in Calls, NEW k \in CallType, k.token <= issued,
         k.pc \in {"keep", "usage"} => k.token # 0, call' = [call EXCEPT ![c] = k], issued' = issued
  PROVE  call' \in [Calls -> CallType] /\ CallsFine'
  BY DEF TypeOK, CallsFine

LEMMA SettleTyped ==
  ASSUME TypeOK, CallsFine, NEW p \in Procs, NEW t \in {0} \cup Tokens, t <= issued,
         Settle(p, t), issued' = issued
  PROVE  /\ call' \in [Calls -> CallType] /\ CallsFine' /\ Fly(p, NoFlight)
  <1>1. \A c \in Calls : [call[c] EXCEPT !.pc = IF t = 0 THEN "done" ELSE "keep", !.token = t]
                           \in CallType
    <2> TAKE c \in Calls
    <2>1. call[c] \in CallType /\ (IF t = 0 THEN "done" ELSE "keep") \in {"done", "keep"}
      BY DEF TypeOK
    <2> QED
      BY <2>1 DEF CallType
  <1>2. \A c \in Calls :
          LET k == [call[c] EXCEPT !.pc = IF t = 0 THEN "done" ELSE "keep", !.token = t]
          IN  k.token = t /\ (k.pc \in {"keep", "usage"} => t # 0)
    BY DEF TypeOK, CallType
  <1> QED
    BY <1>1, <1>2 DEF Settle, TypeOK, CallsFine

LEMMA RefreshTyped ==
  ASSUME TypeOK, CallsFine, NEW c \in Calls, NEW sel \in Tokens, sel <= issued,
         NEW turn \in {1, 2}, NEW force \in BOOLEAN, Refresh(c, sel, turn, force),
         issued' = issued
  PROVE  /\ call' \in [Calls -> CallType] /\ CallsFine'
         /\ \/ flight' = flight
            \/ At(ProcOf[c], "none")
               /\ Fly(ProcOf[c], [NoFlight EXCEPT !.pc = "look", !.force = force])
  <1>1. /\ [pc |-> "keep", turn |-> turn, token |-> sel] \in CallType
        /\ [pc |-> "wait", turn |-> turn, token |-> 0] \in CallType
        /\ sel # 0 /\ issued \in Nat
    BY Numbers, LeaseAssumption DEF CallType, Tokens
  <1> QED
    BY <1>1, CallTyped DEF Refresh

-----------------------------------------------------------------------------
(* Steps that leave the row and the provider alone. *)

(* One flight moves, and what it says is true.                             *)
LEMMA FlightOnly ==
  ASSUME IInv, NEW p \in Procs, NEW g \in FlightType, Fly(p, g),
         UNCHANGED <<row, issued, live>>, hurt => hurt', AnswerIsTrue(g),
         \A q \in Procs : ~hurt' /\ q # p /\ InRequest(q) => lease' = lease,
         ~hurt' /\ g.pc \in {"recheck", "request", "granted", "refused"} =>
             /\ lease'.owner = p /\ ~lease'.expired
             /\ g.pc = "request" => ~g.lost
             /\ g.pc \in {"request", "granted"} /\ g.new # 0 => g.new \in live,
         ~hurt' /\ flight[p].pc \in {"request", "granted"} /\ flight[p].new # 0 =>
             /\ g.pc \in {"request", "granted"}
             /\ g.sent = flight[p].sent /\ g.new = flight[p].new
  PROVE  AnswersAreTrue' /\ DisabledIsDead' /\ RequesterOwns' /\ RowLives'
  <1> USE DEF IInv
  <1>1. /\ flight'[p] = g /\ \A q \in Procs : q # p => flight'[q] = flight[q]
    BY FlyTyped
  <1>2. AnswersAreTrue'
    BY <1>1 DEF AnswersAreTrue, AnswerIsTrue, AnswerFits
  <1>3. DisabledIsDead'
    BY DEF DisabledIsDead
  <1>4. RequesterOwns'
    BY <1>1 DEF RequesterOwns, InRequest
  <1>5. 0 \notin live
    BY Numbers
  <1>6. RowLives'
    BY <1>1, <1>5 DEF RowLives, Succeeds
  <1> QED
    BY <1>2, <1>3, <1>4, <1>6

(* Nothing but calls and snapshots moves.                                  *)
LEMMA NoFlightMoves ==
  ASSUME IInv, UNCHANGED <<row, issued, live, flight, hurt, lease>>
  PROVE  AnswersAreTrue' /\ DisabledIsDead' /\ RequesterOwns' /\ RowLives'
  BY DEF IInv, AnswersAreTrue, AnswerIsTrue, AnswerFits, DisabledIsDead, RequesterOwns, RowLives,
         Succeeds, InRequest

LEMMA FlightBegins ==
  ASSUME IInv, NEW p \in Procs, NEW force \in BOOLEAN, At(p, "none"),
         Fly(p, [NoFlight EXCEPT !.pc = "look", !.force = force]),
         UNCHANGED <<row, issued, live, hurt, lease>>
  PROVE  /\ AnswersAreTrue' /\ DisabledIsDead' /\ RequesterOwns' /\ RowLives'
         /\ flight' \in [Procs -> FlightType]
         /\ \A q \in Procs : flight'[q].result <= issued
  <1> DEFINE g == [NoFlight EXCEPT !.pc = "look", !.force = force]
  <1>1. g \in FlightType /\ g.pc = "look" /\ g.result = 0
    BY DEF NoFlight, FlightType, Tokens
  <1>2. AnswerIsTrue(g)
    BY <1>1 DEF AnswerIsTrue, AnswerFits
  <1>3. flight[p].pc = "none"
    BY DEF At
  <1> HIDE DEF g
  <1>4. AnswersAreTrue' /\ DisabledIsDead' /\ RequesterOwns' /\ RowLives'
    BY <1>1, <1>2, <1>3, FlightOnly DEF g
  <1>5. /\ flight' \in [Procs -> FlightType] /\ flight'[p] = g
        /\ \A q \in Procs : q # p => flight'[q] = flight[q]
    BY <1>1, FlyTyped DEF IInv, g
  <1>6. 0 <= issued
    BY Numbers DEF IInv
  <1> QED
    BY <1>1, <1>4, <1>5, <1>6 DEF IInv, TokensIssued

-----------------------------------------------------------------------------
(* Requests for a key. *)

LEMMA SelectSafe == ASSUME IInv, NEW c \in Calls, Select(c) PROVE IInv'
  <1> DEFINE p == ProcOf[c]
             refused == c \in Refused
             stale == Stored <= due \/ (refused /\ mem[p] = Stored)
  <1> USE DEF IInv
  <1>1. /\ p \in Procs /\ Remember(p, Stored) /\ call[c] \in CallType
        /\ UNCHANGED <<row, lease, issued, live, due, faults, hurt>>
    BY LeaseAssumption, Numbers DEF Select, database, provider
  <1>2. mem' \in [Procs -> {0} \cup Tokens] /\ \A q \in Procs : mem'[q] <= issued
    BY <1>1, StoredTyped, RememberTyped
  <1>3. CASE Stored # 0 /\ stale
    <2>1. Refresh(c, Stored, 1, refused) /\ Stored \in Tokens /\ Stored <= issued
          /\ refused \in BOOLEAN
      BY <1>3, StoredTyped DEF Select
    <2>2. /\ call' \in [Calls -> CallType] /\ CallsFine'
          /\ \/ flight' = flight
             \/ At(p, "none") /\ Fly(p, [NoFlight EXCEPT !.pc = "look", !.force = refused])
      BY <1>1, <2>1, RefreshTyped
    <2>3. CASE flight' = flight
      BY <1>1, <1>2, <2>2, <2>3, NoFlightMoves DEF TypeOK, TokensIssued
    <2>4. CASE At(p, "none") /\ Fly(p, [NoFlight EXCEPT !.pc = "look", !.force = refused])
      <3>1. /\ AnswersAreTrue' /\ DisabledIsDead' /\ RequesterOwns' /\ RowLives'
            /\ flight' \in [Procs -> FlightType] /\ \A q \in Procs : flight'[q].result <= issued
        BY <1>1, <2>1, <2>4, FlightBegins
      <3> QED
        BY <1>1, <1>2, <2>2, <3>1 DEF TypeOK, TokensIssued
    <2> QED
      BY <2>2, <2>3, <2>4
  <1>4. CASE ~(Stored # 0 /\ stale)
    <2>1. flight' = flight
          /\ \E pc \in {"done", "try"} : call' = [call EXCEPT ![c].pc = pc]
      BY <1>4 DEF Select, Finish
    <2>2. PICK pc \in {"done", "try"} : call' = [call EXCEPT ![c] = [call[c] EXCEPT !.pc = pc]]
      BY <2>1, <1>1 DEF TypeOK
    <2>3. /\ [call[c] EXCEPT !.pc = pc] \in CallType /\ [call[c] EXCEPT !.pc = pc].pc \notin {"keep", "usage"}
          /\ [call[c] EXCEPT !.pc = pc].token <= issued
      BY <1>1 DEF CallType, CallsFine
    <2>4. call' \in [Calls -> CallType] /\ CallsFine'
      BY <1>1, <2>2, <2>3, CallTyped
    <2> QED
      BY <1>1, <1>2, <2>1, <2>4, NoFlightMoves DEF TypeOK, TokensIssued
  <1> QED
    BY <1>3, <1>4

LEMMA PrepareSafe == ASSUME IInv, NEW c \in Calls, Prepare(c) PROVE IInv'
  <1> DEFINE p == ProcOf[c]
  <1> USE DEF IInv
  <1>1. /\ p \in Procs /\ Remember(p, Stored) /\ call[c] \in CallType
        /\ UNCHANGED <<row, lease, issued, live, due, flight, faults, hurt>>
    BY LeaseAssumption, Numbers DEF Prepare, database, provider
  <1>2. mem' \in [Procs -> {0} \cup Tokens] /\ \A q \in Procs : mem'[q] <= issued
    BY <1>1, StoredTyped, RememberTyped
  <1>3. PICK k \in CallType : /\ call' = [call EXCEPT ![c] = k]
                              /\ k.pc \in {"keep", "usage"} => k.token # 0
                              /\ k.token <= issued
    <2>1. CASE Stored = 0
      <3>1. call' = [call EXCEPT ![c] = [call[c] EXCEPT !.pc = "done"]]
        BY <1>1, <2>1 DEF Prepare, Finish, TypeOK
      <3>2. /\ [call[c] EXCEPT !.pc = "done"] \in CallType
            /\ [call[c] EXCEPT !.pc = "done"].pc \notin {"keep", "usage"}
            /\ [call[c] EXCEPT !.pc = "done"].token <= issued
        BY <1>1 DEF CallType, CallsFine
      <3> QED
        BY <3>1, <3>2
    <2>2. CASE Stored # 0
      <3>1. [pc |-> "usage", turn |-> 2, token |-> Stored] \in CallType
        BY <2>2, StoredTyped DEF CallType
      <3> QED
        BY <2>2, <3>1, StoredTyped DEF Prepare
    <2> QED
      BY <2>1, <2>2
  <1>4. call' \in [Calls -> CallType] /\ CallsFine'
    BY <1>1, <1>3, CallTyped
  <1> QED
    BY <1>1, <1>2, <1>4, NoFlightMoves DEF TypeOK, TokensIssued

LEMMA UsageKnownSafe == ASSUME IInv, NEW c \in Calls, UsageKnown(c) PROVE IInv'
  <1> DEFINE p == ProcOf[c]
  <1> USE DEF IInv
  <1>1. /\ p \in Procs /\ call[c] \in CallType
        /\ UNCHANGED <<row, lease, issued, live, due, mem, faults, hurt>>
    BY LeaseAssumption, Numbers DEF UsageKnown, database, provider
  <1>2. CASE UNCHANGED flight /\ call' = [call EXCEPT ![c].pc = "done", ![c].token = 0]
    <2>1. call' = [call EXCEPT ![c] = [call[c] EXCEPT !.pc = "done", !.token = 0]]
      BY <1>1, <1>2 DEF TypeOK
    <2>2. /\ [call[c] EXCEPT !.pc = "done", !.token = 0] \in CallType
          /\ [call[c] EXCEPT !.pc = "done", !.token = 0].pc = "done"
          /\ [call[c] EXCEPT !.pc = "done", !.token = 0].token = 0
      BY <1>1 DEF CallType
    <2>3. call' \in [Calls -> CallType] /\ CallsFine'
      <3>1. 0 <= issued
        BY Numbers
      <3>2. [call[c] EXCEPT !.pc = "done", !.token = 0].token <= issued
        BY <2>2, <3>1
      <3> QED
        BY <1>1, <2>1, <2>2, <3>2, CallTyped
    <2> QED
      BY <1>1, <1>2, <2>3, NoFlightMoves DEF TypeOK, TokensIssued
  <1>3. CASE Refresh(c, call[c].token, 2, FALSE)
    <2>1. call[c].token \in Tokens /\ call[c].token <= issued
      BY <1>1, <1>3 DEF UsageKnown, CallsFine, CallType, TypeOK
    <2>2. /\ call' \in [Calls -> CallType] /\ CallsFine'
          /\ \/ flight' = flight
             \/ At(p, "none") /\ Fly(p, [NoFlight EXCEPT !.pc = "look", !.force = FALSE])
      BY <1>1, <1>3, <2>1, RefreshTyped
    <2>3. CASE flight' = flight
      BY <1>1, <2>2, <2>3, NoFlightMoves DEF TypeOK, TokensIssued
    <2>4. CASE At(p, "none") /\ Fly(p, [NoFlight EXCEPT !.pc = "look", !.force = FALSE])
      <3>1. /\ AnswersAreTrue' /\ DisabledIsDead' /\ RequesterOwns' /\ RowLives'
            /\ flight' \in [Procs -> FlightType] /\ \A q \in Procs : flight'[q].result <= issued
        BY <1>1, <2>4, FlightBegins
      <3> QED
        BY <1>1, <2>2, <3>1 DEF TypeOK, TokensIssued
    <2> QED
      BY <2>2, <2>3, <2>4
  <1> QED
    BY <1>2, <1>3 DEF UsageKnown

(* What is written back equals what is there, or something was lost.       *)
LEMMA KeepSafe == ASSUME IInv, NEW c \in Calls, Keep(c) PROVE IInv'
  <1> DEFINE p == ProcOf[c]
             k == [call[c] EXCEPT !.pc = IF call[c].turn = 1 THEN "try" ELSE "done", !.token = 0]
  <1> USE DEF IInv
  <1>1. /\ p \in Procs /\ call[c] \in CallType /\ call[c].token \in Tokens
        /\ call[c].token <= issued
        /\ UNCHANGED <<lease, issued, live, due, flight, faults>>
    BY LeaseAssumption, Numbers DEF Keep, provider, CallsFine, CallType
  <1>2. call' = [call EXCEPT ![c] = k] /\ k \in CallType /\ k.token = 0 /\ k.pc \in {"try", "done"}
    <2>1. (IF call[c].turn = 1 THEN "try" ELSE "done") \in {"try", "done"}
      OBVIOUS
    <2> QED
      BY <1>1, <2>1 DEF Keep, TypeOK, CallType
  <1>3. call' \in [Calls -> CallType] /\ CallsFine'
    <2>1. 0 <= issued
      BY Numbers
    <2> QED
      BY <1>1, <1>2, <2>1, CallTyped
  <1>4. CASE AsRemembered(p)
    <2>1. /\ row.active /\ row.token = mem[p] /\ Remember(p, call[c].token)
          /\ row' = [row EXCEPT !.token = call[c].token]
          /\ hurt' = (hurt \/ call[c].token # mem[p])
      BY <1>4, <1>1 DEF Keep, AsRemembered, Stored, TypeOK
    <2>2. /\ row' \in [token : Tokens, active : BOOLEAN] /\ row'.active
          /\ row'.token = call[c].token
      BY <1>1, <2>1 DEF TypeOK
    <2>3. TypeOK' /\ TokensIssued'
      BY <1>1, <1>3, <2>1, <2>2, RememberTyped DEF TypeOK, TokensIssued
    <2>4. ~hurt' => ~hurt /\ row'.token = row.token
      BY <2>1, <2>2
    <2> QED
      BY <1>1, <1>3, <2>1, <2>2, <2>3, <2>4
      DEF AnswersAreTrue, AnswerIsTrue, AnswerFits, DisabledIsDead, RequesterOwns, RowLives, Succeeds, InRequest
  <1>5. CASE ~AsRemembered(p)
    <2>1. UNCHANGED row /\ hurt' = hurt /\ Remember(p, IF mem[p] = 0 THEN 0 ELSE Stored)
      BY <1>5 DEF Keep, TypeOK
    <2>2. (IF mem[p] = 0 THEN 0 ELSE Stored) \in {0} \cup Tokens
          /\ (IF mem[p] = 0 THEN 0 ELSE Stored) <= issued
      BY StoredTyped, Numbers
    <2>3. mem' \in [Procs -> {0} \cup Tokens] /\ \A q \in Procs : mem'[q] <= issued
      BY <1>1, <2>1, <2>2, RememberTyped
    <2> QED
      BY <1>1, <1>3, <2>1, <2>3, NoFlightMoves DEF TypeOK, TokensIssued
  <1> QED
    BY <1>4, <1>5

-----------------------------------------------------------------------------
(* The flight of a process. *)

(* A flight that only moves on, outside its request.                       *)
LEMMA MovesOn ==
  ASSUME IInv, NEW p \in Procs, NEW g \in FlightType, Fly(p, g),
         g.result = flight[p].result, g.pc \in {"look", "acquire", "sleep", "recheck"},
         g.pc = "recheck" => lease'.owner = p /\ ~lease'.expired,
         flight[p].pc \notin {"request", "granted"},
         \A q \in Procs : ~hurt /\ q # p /\ InRequest(q) => lease' = lease,
         UNCHANGED <<row, issued, live, hurt>>
  PROVE  /\ AnswersAreTrue' /\ DisabledIsDead' /\ RequesterOwns' /\ RowLives'
         /\ flight' \in [Procs -> FlightType]
         /\ \A q \in Procs : flight'[q].result <= issued
  <1>2. AnswerIsTrue(g)
    BY DEF AnswerIsTrue, AnswerFits
  <1>4. AnswersAreTrue' /\ DisabledIsDead' /\ RequesterOwns' /\ RowLives'
    BY <1>2, FlightOnly
  <1>5. /\ flight' \in [Procs -> FlightType] /\ flight'[p] = g
        /\ \A q \in Procs : q # p => flight'[q] = flight[q]
    BY FlyTyped DEF IInv
  <1> QED
    BY <1>4, <1>5 DEF IInv, TokensIssued

LEMMA MovedTyped ==
  ASSUME TypeOK, NEW p \in Procs, NEW pc \in {"look", "acquire", "sleep", "recheck"}
  PROVE  /\ [flight[p] EXCEPT !.pc = pc] \in FlightType
         /\ [flight[p] EXCEPT !.pc = pc].pc = pc
         /\ [flight[p] EXCEPT !.pc = pc].result = flight[p].result
  BY Numbers DEF FlightType

(* A flight that has a result and gives up its lease.                      *)
LEMMA IsOver ==
  ASSUME IInv, NEW p \in Procs, NEW t \in {0} \cup Tokens, t <= issued,
         Fly(p, Over(t)), lease' = lease, hurt => hurt',
         ~hurt' => flight[p].pc \notin {"request", "granted"} \/ flight[p].new = 0,
         UNCHANGED <<row, issued, live>>
  PROVE  /\ AnswersAreTrue' /\ DisabledIsDead' /\ RequesterOwns' /\ RowLives'
         /\ flight' \in [Procs -> FlightType]
         /\ \A q \in Procs : flight'[q].result <= issued
  <1>1. Over(t) \in FlightType /\ Over(t).pc = "release" /\ Over(t).result = t
    BY NoFlightTyped DEF Over, FlightType
  <1>2. AnswerIsTrue(Over(t))
    BY <1>1 DEF AnswerIsTrue, AnswerFits
  <1>4. AnswersAreTrue' /\ DisabledIsDead' /\ RequesterOwns' /\ RowLives'
    BY <1>1, <1>2, FlightOnly
  <1>5. /\ flight' \in [Procs -> FlightType] /\ flight'[p] = Over(t)
        /\ \A q \in Procs : q # p => flight'[q] = flight[q]
    BY <1>1, FlyTyped DEF IInv
  <1> QED
    BY <1>1, <1>4, <1>5 DEF IInv, TokensIssued

LEMMA LookSafe == ASSUME IInv, NEW p \in Procs, Look(p) PROVE IInv'
  <1> USE DEF IInv
  <1>1. /\ flight[p].pc = "look" /\ Remember(p, Stored)
        /\ UNCHANGED <<row, lease, issued, live, due, faults, hurt>>
    BY DEF Look, database, provider, At
  <1>2. mem' \in [Procs -> {0} \cup Tokens] /\ \A q \in Procs : mem'[q] <= issued
    BY <1>1, StoredTyped, RememberTyped
  <1>3. CASE NotNeeded(p)
    <2>1. Settle(p, Stored)
      BY <1>3 DEF Look
    <2>2. call' \in [Calls -> CallType] /\ CallsFine' /\ Fly(p, NoFlight)
      BY <1>1, <2>1, StoredTyped, SettleTyped
    <2>3. AnswerIsTrue(NoFlight)
      BY NoFlightTyped DEF AnswerIsTrue, AnswerFits
    <2>4. AnswersAreTrue' /\ DisabledIsDead' /\ RequesterOwns' /\ RowLives'
      BY <1>1, <2>2, <2>3, NoFlightTyped, FlightOnly
    <2>5. /\ flight' \in [Procs -> FlightType] /\ flight'[p] = NoFlight
          /\ \A q \in Procs : q # p => flight'[q] = flight[q]
      BY <2>2, NoFlightTyped, FlyTyped
    <2>6. 0 <= issued
      BY Numbers
    <2> QED
      BY <1>1, <1>2, <2>2, <2>4, <2>5, <2>6, NoFlightTyped DEF TypeOK, TokensIssued
  <1>4. CASE ~NotNeeded(p)
    <2>1. Fly(p, [flight[p] EXCEPT !.pc = "acquire"]) /\ call' = call
      BY <1>4 DEF Look
    <2>2. /\ AnswersAreTrue' /\ DisabledIsDead' /\ RequesterOwns' /\ RowLives'
          /\ flight' \in [Procs -> FlightType] /\ \A q \in Procs : flight'[q].result <= issued
      BY <1>1, <2>1, MovedTyped, MovesOn
    <2> QED
      BY <1>1, <1>2, <2>1, <2>2 DEF TypeOK, TokensIssued, CallsFine
  <1> QED
    BY <1>3, <1>4

(* Who takes the lease is alone: an owner in a request has not lost it.    *)
LEMMA AcquireSafe == ASSUME IInv, NEW p \in Procs, Acquire(p) PROVE IInv'
  <1> USE DEF IInv
  <1>1. /\ flight[p].pc = "acquire"
        /\ UNCHANGED <<row, issued, live, due, mem, call, faults, hurt>>
    BY DEF Acquire, provider, At
  <1>2. PICK pc \in {"sleep", "recheck"} :
          /\ Fly(p, [flight[p] EXCEPT !.pc = pc])
          /\ \/ pc = "recheck" /\ Free /\ lease' = [owner |-> p, expired |-> FALSE]
             \/ pc = "sleep" /\ lease' = lease
    BY DEF Acquire
  <1>3. /\ pc = "recheck" => lease'.owner = p /\ ~lease'.expired
        /\ lease' \in [owner : Procs \cup {NoOne}, expired : BOOLEAN]
        /\ \A q \in Procs : ~hurt /\ q # p /\ InRequest(q) => lease' = lease
    <2>0. /\ [owner |-> p, expired |-> FALSE].owner = p /\ ~[owner |-> p, expired |-> FALSE].expired
          /\ [owner |-> p, expired |-> FALSE] \in [owner : Procs \cup {NoOne}, expired : BOOLEAN]
      OBVIOUS
    <2>1. pc = "recheck" => lease'.owner = p /\ ~lease'.expired
      <3>1. CASE pc = "recheck"
        BY <1>2, <2>0, <3>1
      <3> QED
        BY <3>1
    <2>2. lease' \in [owner : Procs \cup {NoOne}, expired : BOOLEAN]
      BY <1>2, <2>0 DEF TypeOK
    <2>3. ASSUME NEW q \in Procs, ~hurt, InRequest(q), Free PROVE FALSE
      BY <2>3, LeaseAssumption DEF Free, RequesterOwns
    <2> QED
      BY <1>2, <2>1, <2>2, <2>3
  <1>4. /\ AnswersAreTrue' /\ DisabledIsDead' /\ RequesterOwns' /\ RowLives'
        /\ flight' \in [Procs -> FlightType] /\ \A q \in Procs : flight'[q].result <= issued
    BY <1>1, <1>2, <1>3, MovedTyped, MovesOn
  <1> QED
    BY <1>1, <1>3, <1>4 DEF TypeOK, TokensIssued, CallsFine

LEMMA WakeSafe == ASSUME IInv, NEW p \in Procs, Wake(p) PROVE IInv'
  <1> USE DEF IInv
  <1>1. /\ flight[p].pc = "sleep" /\ Fly(p, [flight[p] EXCEPT !.pc = "look"])
        /\ UNCHANGED <<row, lease, issued, live, due, mem, call, faults, hurt>>
    BY DEF Wake, database, provider, At
  <1>2. /\ AnswersAreTrue' /\ DisabledIsDead' /\ RequesterOwns' /\ RowLives'
        /\ flight' \in [Procs -> FlightType] /\ \A q \in Procs : flight'[q].result <= issued
    BY <1>1, MovedTyped, MovesOn
  <1> QED
    BY <1>1, <1>2 DEF TypeOK, TokensIssued, CallsFine

LEMMA RecheckSafe == ASSUME IInv, NEW p \in Procs, Recheck(p) PROVE IInv'
  <1> USE DEF IInv
  <1>1. /\ flight[p].pc = "recheck" /\ Remember(p, Stored)
        /\ UNCHANGED <<row, lease, issued, live, due, call, faults, hurt>>
    BY DEF Recheck, database, provider, At
  <1>2. mem' \in [Procs -> {0} \cup Tokens] /\ \A q \in Procs : mem'[q] <= issued
    BY <1>1, StoredTyped, RememberTyped
  <1>3. CASE NotNeeded(p)
    <2>1. Fly(p, Over(Stored))
      BY <1>3 DEF Recheck
    <2>2. /\ AnswersAreTrue' /\ DisabledIsDead' /\ RequesterOwns' /\ RowLives'
          /\ flight' \in [Procs -> FlightType] /\ \A q \in Procs : flight'[q].result <= issued
      BY <1>1, <2>1, StoredTyped, IsOver
    <2> QED
      BY <1>1, <1>2, <2>2 DEF TypeOK, TokensIssued, CallsFine
  <1>4. CASE ~NotNeeded(p)
    <2> DEFINE g == [NoFlight EXCEPT !.pc = "request", !.sent = Stored]
    <2>1. Fly(p, g) /\ Stored # 0
      BY <1>4 DEF Recheck, NotNeeded
    <2>2. /\ g \in FlightType /\ g.pc = "request" /\ g.sent = Stored /\ g.new = 0
          /\ g.answer = "none" /\ ~g.lost /\ g.result = 0
      BY StoredTyped DEF FlightType, NoFlight
    <2>3. Stored \in 1..issued
      BY <2>1, StoredTyped, Numbers
    <2> HIDE DEF g
    <2>4. AnswerIsTrue(g)
      BY <2>2, <2>3 DEF AnswerIsTrue, AnswerFits
    <2>5. ~hurt => lease.owner = p /\ ~lease.expired
      BY <1>1 DEF RequesterOwns, InRequest
    <2>6. AnswersAreTrue' /\ DisabledIsDead' /\ RequesterOwns' /\ RowLives'
      BY <1>1, <2>1, <2>2, <2>4, <2>5, FlightOnly
    <2>7. /\ flight' \in [Procs -> FlightType] /\ flight'[p] = g /\ 0 <= issued
          /\ \A q \in Procs : q # p => flight'[q] = flight[q]
      BY <2>1, <2>2, FlyTyped, Numbers
    <2> QED
      BY <1>1, <1>2, <2>2, <2>6, <2>7 DEF TypeOK, TokensIssued, CallsFine
  <1> QED
    BY <1>3, <1>4

(* The renewal finds the lease lost only when something was.               *)
LEMMA RenewSafe == ASSUME IInv, NEW p \in Procs, Renew(p) PROVE IInv'
  <1> USE DEF IInv
  <1>1. /\ flight[p].pc = "request"
        /\ UNCHANGED <<row, issued, live, due, mem, call, faults, hurt>>
    BY DEF Renew, provider, At
  <1>2. CASE lease.owner = p
    <2>1. flight' = flight /\ lease.expired /\ lease' = [lease EXCEPT !.expired = FALSE]
      BY <1>2 DEF Renew
    <2>2. lease' \in [owner : Procs \cup {NoOne}, expired : BOOLEAN]
      BY <2>1 DEF TypeOK
    <2>3. hurt
      BY <1>1, <2>1 DEF RequesterOwns, InRequest
    <2> QED
      BY <1>1, <2>1, <2>2, <2>3 DEF TypeOK, TokensIssued, CallsFine, AnswersAreTrue, AnswerIsTrue, AnswerFits,
         DisabledIsDead, RequesterOwns, RowLives
  <1>3. CASE lease.owner # p
    <2> DEFINE g == [flight[p] EXCEPT !.lost = TRUE]
    <2>1. Fly(p, g) /\ lease' = lease
      BY <1>3 DEF Renew
    <2>2. /\ g \in FlightType /\ g.pc = "request" /\ g.sent = flight[p].sent /\ g.new = flight[p].new
          /\ g.answer = flight[p].answer /\ g.result = flight[p].result
      BY <1>1, Numbers DEF FlightType
    <2>3. hurt
      BY <1>1, <1>3 DEF RequesterOwns, InRequest
    <2> HIDE DEF g
    <2>4. AnswerIsTrue(g)
      BY <1>1, <2>2 DEF AnswersAreTrue, AnswerIsTrue, AnswerFits
    <2>5. AnswersAreTrue' /\ DisabledIsDead' /\ RequesterOwns' /\ RowLives'
      BY <1>1, <2>1, <2>2, <2>3, <2>4, FlightOnly
    <2>6. /\ flight' \in [Procs -> FlightType] /\ flight'[p] = g
          /\ \A q \in Procs : q # p => flight'[q] = flight[q]
      BY <2>1, <2>2, FlyTyped
    <2> QED
      BY <1>1, <2>1, <2>2, <2>5, <2>6 DEF TypeOK, TokensIssued, CallsFine
  <1> QED
    BY <1>2, <1>3

LEMMA AnsweredSafe == ASSUME IInv, NEW p \in Procs, Answered(p) PROVE IInv'
  <1> DEFINE f == flight[p]
             g == [f EXCEPT !.pc = f.answer, !.lost = FALSE]
  <1> USE DEF IInv
  <1>1. /\ f.pc = "request" /\ f.answer \in {"granted", "refused"} /\ f \in FlightType
        /\ UNCHANGED <<row, lease, issued, live, due, mem, call, faults, hurt>>
    BY Numbers DEF Answered, database, provider, At, FlightType
  <1>2. CASE f.answer = "granted" /\ f.lost
    <2>1. Fly(p, Over(0)) /\ 0 <= issued /\ 0 \in {0} \cup Tokens
      BY <1>2, Numbers DEF Answered
    <2>2. hurt
      BY <1>1, <1>2 DEF RequesterOwns, InRequest
    <2>3. /\ AnswersAreTrue' /\ DisabledIsDead' /\ RequesterOwns' /\ RowLives'
          /\ flight' \in [Procs -> FlightType] /\ \A q \in Procs : flight'[q].result <= issued
      BY <1>1, <2>1, <2>2, IsOver
    <2> QED
      BY <1>1, <2>3 DEF TypeOK, TokensIssued, CallsFine
  <1>3. CASE ~(f.answer = "granted" /\ f.lost)
    <2>1. Fly(p, g)
      BY <1>3 DEF Answered
    <2>2. /\ g \in FlightType /\ g.pc = f.answer /\ g.sent = f.sent /\ g.new = f.new
          /\ g.answer = f.answer /\ g.result = f.result
      BY <1>1 DEF FlightType
    <2> HIDE DEF g
    <2>3. AnswerIsTrue(g)
      BY <1>1, <2>2 DEF AnswersAreTrue, AnswerIsTrue, AnswerFits
    <2>4. f.new # 0 => f.answer = "granted"
      BY <1>1 DEF AnswersAreTrue, AnswerIsTrue, AnswerFits
    <2>5. ~hurt => lease.owner = p /\ ~lease.expired /\ (f.new # 0 => f.new \in live)
      BY <1>1 DEF RequesterOwns, InRequest
    <2>6. AnswersAreTrue' /\ DisabledIsDead' /\ RequesterOwns' /\ RowLives'
      BY <1>1, <2>1, <2>2, <2>3, <2>4, <2>5, FlightOnly
    <2>7. /\ flight' \in [Procs -> FlightType] /\ flight'[p] = g
          /\ \A q \in Procs : q # p => flight'[q] = flight[q]
      BY <2>1, <2>2, FlyTyped
    <2> QED
      BY <1>1, <2>2, <2>6, <2>7 DEF TypeOK, TokensIssued, CallsFine
  <1> QED
    BY <1>2, <1>3

LEMMA RequestFailsSafe == ASSUME IInv, NEW p \in Procs, RequestFails(p) PROVE IInv'
  <1> USE DEF IInv
  <1>1. /\ flight[p].pc = "request" /\ Fly(p, Over(0))
        /\ hurt' = (hurt \/ flight[p].answer = "granted")
        /\ UNCHANGED <<row, lease, issued, live, due, mem, call, faults>>
    BY DEF RequestFails, database, provider, At
  <1>2. ~hurt' => flight[p].new = 0
    BY <1>1 DEF AnswersAreTrue, AnswerIsTrue, AnswerFits
  <1>3. 0 <= issued /\ 0 \in {0} \cup Tokens /\ hurt' \in BOOLEAN
    BY <1>1, Numbers DEF TypeOK
  <1>4. /\ AnswersAreTrue' /\ DisabledIsDead' /\ RequesterOwns' /\ RowLives'
        /\ flight' \in [Procs -> FlightType] /\ \A q \in Procs : flight'[q].result <= issued
    BY <1>1, <1>2, <1>3, IsOver
  <1> QED
    BY <1>1, <1>3, <1>4 DEF TypeOK, TokensIssued, CallsFine

-----------------------------------------------------------------------------
(* Outcomes. *)

(* The token in the row gives way to the one it was exchanged for.         *)
LEMMA WriteSafe == ASSUME IInv, NEW p \in Procs, Write(p) PROVE IInv'
  <1> DEFINE f == flight[p]
  <1> USE DEF IInv
  <1>1. /\ f.pc = "granted" /\ f \in FlightType /\ f.new # 0 /\ f.new \in Tokens
        /\ f.new <= issued /\ f.sent \in 1..issued
        /\ UNCHANGED <<lease, issued, live, due, call, faults, hurt>>
    BY Numbers DEF Write, provider, At, AnswersAreTrue, AnswerIsTrue, AnswerFits, FlightType
  <1>2. ~hurt => lease.owner = p /\ ~lease.expired /\ f.new \in live
    BY <1>1 DEF RequesterOwns, InRequest
  <1>3. \A q \in Procs : ~hurt /\ Succeeds(q) => q = p
    BY <1>1, <1>2 DEF RequesterOwns, InRequest, Succeeds
  <1>4. CASE Matches(p)
    <2>1. /\ row.active /\ row.token = f.sent
          /\ row' = [row EXCEPT !.token = f.new] /\ Remember(p, f.new) /\ Fly(p, Over(f.new))
      BY <1>1, <1>4, Numbers DEF Write, Matches
    <2>2. /\ row' \in [token : Tokens, active : BOOLEAN] /\ row'.active /\ row'.token = f.new
      BY <1>1, <2>1 DEF TypeOK
    <2>3. Over(f.new) \in FlightType /\ Over(f.new).pc = "release" /\ Over(f.new).result = f.new
      BY <1>1, NoFlightTyped DEF Over, FlightType
    <2>4. /\ flight' \in [Procs -> FlightType] /\ flight'[p] = Over(f.new)
          /\ \A q \in Procs : q # p => flight'[q] = flight[q]
      BY <2>1, <2>3, FlyTyped
    <2>5. mem' \in [Procs -> {0} \cup Tokens] /\ \A q \in Procs : mem'[q] <= issued
      BY <1>1, <2>1, RememberTyped
    <2>6. TypeOK' /\ TokensIssued' /\ CallsFine'
      BY <1>1, <2>2, <2>3, <2>4, <2>5 DEF TypeOK, TokensIssued, CallsFine
    <2>7. AnswersAreTrue' /\ DisabledIsDead'
      BY <1>1, <2>2, <2>3, <2>4 DEF AnswersAreTrue, AnswerIsTrue, AnswerFits, DisabledIsDead
    <2>8. RequesterOwns' /\ RowLives'
      BY <1>1, <1>2, <2>2, <2>3, <2>4 DEF RequesterOwns, RowLives, InRequest
    <2> QED
      BY <2>6, <2>7, <2>8
  <1>5. CASE ~Matches(p)
    <2>1. row' = row /\ Remember(p, Stored) /\ Fly(p, Over(Reloaded))
      BY <1>5 DEF Write
    <2>2. mem' \in [Procs -> {0} \cup Tokens] /\ \A q \in Procs : mem'[q] <= issued
      BY <2>1, StoredTyped, RememberTyped
    <2>3. Over(Reloaded) \in FlightType /\ Over(Reloaded).pc = "release"
          /\ Over(Reloaded).result = Reloaded
      BY StoredTyped, NoFlightTyped DEF Over, FlightType
    <2>4. /\ flight' \in [Procs -> FlightType] /\ flight'[p] = Over(Reloaded)
          /\ \A q \in Procs : q # p => flight'[q] = flight[q]
      BY <2>1, <2>3, FlyTyped
    <2>5. AnswersAreTrue' /\ DisabledIsDead'
      BY <1>1, <2>1, <2>3, <2>4 DEF AnswersAreTrue, AnswerIsTrue, AnswerFits, DisabledIsDead
    <2>6. ~hurt => row.token # f.sent
      <3>1. lease \in [owner : Procs \cup {NoOne}, expired : BOOLEAN]
        BY DEF TypeOK
      <3>2. ~hurt => lease = [owner |-> p, expired |-> FALSE]
        BY <1>2, <3>1
      <3>3. ~hurt => row.active
        BY DEF RowLives
      <3> QED
        BY <1>5, <3>2, <3>3, Numbers DEF Matches
    <2>7. RequesterOwns'
      BY <1>1, <2>3, <2>4 DEF RequesterOwns, InRequest
    <2>8. RowLives'
      BY <1>1, <1>3, <2>1, <2>6, <2>4 DEF RowLives, Succeeds
    <2> QED
      BY <1>1, <2>1, <2>2, <2>3, <2>4, <2>5, <2>7, <2>8, StoredTyped
      DEF TypeOK, TokensIssued, CallsFine
  <1> QED
    BY <1>4, <1>5

(* A refusal disables only the token that was refused.                     *)
LEMMA DisableSafe == ASSUME IInv, NEW p \in Procs, Disable(p) PROVE IInv'
  <1> DEFINE f == flight[p]
  <1> USE DEF IInv
  <1>1. /\ f.pc = "refused" /\ f.sent \in 1..issued /\ f.sent \notin live
        /\ UNCHANGED <<lease, issued, live, due, call, faults, hurt>>
    BY DEF Disable, provider, At, AnswersAreTrue, AnswerIsTrue, AnswerFits
  <1>2. PICK t \in {0} \cup Tokens, m \in {0} \cup Tokens :
          /\ t <= issued /\ m <= issued /\ Fly(p, Over(t)) /\ Remember(p, m)
          /\ \/ row' = row
             \/ Matches(p) /\ row' = [row EXCEPT !.active = FALSE]
    <2>1. 0 <= issued
      BY Numbers
    <2> QED
      BY <2>1, StoredTyped DEF Disable
  <1>3. mem' \in [Procs -> {0} \cup Tokens] /\ \A q \in Procs : mem'[q] <= issued
    BY <1>2, RememberTyped
  <1>4. Over(t) \in FlightType /\ Over(t).pc = "release" /\ Over(t).result = t
    BY NoFlightTyped DEF Over, FlightType
  <1>5. /\ flight' \in [Procs -> FlightType] /\ flight'[p] = Over(t)
        /\ \A q \in Procs : q # p => flight'[q] = flight[q]
    BY <1>2, <1>4, FlyTyped
  <1>6. row' \in [token : Tokens, active : BOOLEAN] /\ row'.token = row.token
    BY <1>2 DEF TypeOK
  <1>7. TypeOK' /\ TokensIssued' /\ CallsFine'
    BY <1>1, <1>2, <1>3, <1>4, <1>5, <1>6 DEF TypeOK, TokensIssued, CallsFine
  <1>8. AnswersAreTrue'
    BY <1>1, <1>4, <1>5 DEF AnswersAreTrue, AnswerIsTrue, AnswerFits
  <1>9. RequesterOwns'
    BY <1>1, <1>4, <1>5 DEF RequesterOwns, InRequest
  <1>10. Matches(p) => row.token \notin live /\ row.token = f.sent
    BY <1>1, Numbers DEF Matches
  <1>11. DisabledIsDead'
    BY <1>1, <1>2, <1>6, <1>10 DEF DisabledIsDead
  <1>12. ASSUME ~hurt PROVE ~Matches(p) /\ \A q \in Procs : ~InRequest(q) \/ q = p
    <2>1. \A q \in Procs : InRequest(q) => q = p
      BY <1>1, <1>12 DEF RequesterOwns, InRequest
    <2>2. row.token \in live
      BY <1>1, <1>12, <2>1 DEF RowLives, Succeeds, InRequest
    <2> QED
      BY <1>10, <2>1, <2>2
  <1>13. RowLives'
    BY <1>1, <1>2, <1>5, <1>12 DEF RowLives, Succeeds
  <1> QED
    BY <1>7, <1>8, <1>9, <1>11, <1>13

LEMMA ReleaseSafe == ASSUME IInv, NEW p \in Procs, Release(p) PROVE IInv'
  <1> USE DEF IInv
  <1>1. /\ flight[p].pc = "release" /\ Settle(p, flight[p].result)
        /\ UNCHANGED <<row, issued, live, due, mem, faults, hurt>>
    BY DEF Release, provider, At
  <1>2. flight[p].result \in {0} \cup Tokens /\ flight[p].result <= issued
    BY Numbers DEF TokensIssued, FlightType
  <1>3. call' \in [Calls -> CallType] /\ CallsFine' /\ Fly(p, NoFlight)
    BY <1>1, <1>2, SettleTyped
  <1>4. /\ flight' \in [Procs -> FlightType] /\ flight'[p] = NoFlight /\ 0 <= issued
        /\ \A q \in Procs : q # p => flight'[q] = flight[q]
    BY <1>3, NoFlightTyped, FlyTyped, Numbers
  <1>5. /\ lease' \in [owner : Procs \cup {NoOne}, expired : BOOLEAN]
        /\ lease.owner # p => lease' = lease
    BY DEF Release, TypeOK
  <1>6. AnswerIsTrue(NoFlight)
    BY NoFlightTyped DEF AnswerIsTrue, AnswerFits
  <1>7. \A q \in Procs : ~hurt /\ q # p /\ InRequest(q) => lease' = lease
    BY <1>5 DEF RequesterOwns
  <1>8. AnswersAreTrue' /\ DisabledIsDead' /\ RequesterOwns' /\ RowLives'
    BY <1>1, <1>3, <1>6, <1>7, NoFlightTyped, FlightOnly
  <1> QED
    BY <1>1, <1>3, <1>4, <1>5, <1>8, NoFlightTyped DEF TypeOK, TokensIssued

-----------------------------------------------------------------------------
(* The provider, the user, the clock and the machine. *)

LEMMA ProvideSafe == ASSUME IInv, NEW p \in Procs, Provide(p) PROVE IInv'
  <1> DEFINE f == flight[p]
             g == [f EXCEPT !.answer = "granted", !.new = issued + 1]
             h == [f EXCEPT !.answer = "refused"]
  <1> USE DEF IInv
  <1>1. /\ f.pc = "request" /\ f.answer = "none" /\ f \in FlightType /\ f.new = 0
        /\ f.sent \in 1..issued
        /\ UNCHANGED <<row, lease, due, mem, call, faults, hurt>>
    BY Numbers DEF Provide, At, database, AnswersAreTrue, AnswerIsTrue, AnswerFits
  <1>2. CASE f.sent \in live
    <2>1. /\ issued' = issued + 1 /\ issued' \in Tokens /\ issued' \in Nat
          /\ live' = (live \ {f.sent}) \cup {issued'} /\ Fly(p, g)
      BY <1>2, LeaseAssumption DEF Provide, TypeOK, Tokens
    <2>2. /\ g \in FlightType /\ g.pc = "request" /\ g.answer = "granted" /\ g.new = issued'
          /\ g.sent = f.sent /\ g.result = f.result /\ g.lost = f.lost
      BY <1>1, <2>1 DEF FlightType
    <2> HIDE DEF g
    <2>3. /\ flight' \in [Procs -> FlightType] /\ flight'[p] = g
          /\ \A q \in Procs : q # p => flight'[q] = flight[q]
      BY <2>1, <2>2, FlyTyped
    <2>4. TypeOK'
      <3>1. issued \in Nat /\ issued' \in 1..issued'
        BY <2>1, Numbers
      <3>2. \A t \in live : t \in 1..issued'
        BY <2>1, <3>1, Numbers
      <3>3. live' \subseteq 1..issued'
        BY <2>1, <3>1, <3>2
      <3>4. due' \in 0..issued'
        BY <1>1, <2>1, <3>1 DEF TypeOK
      <3> QED
        BY <1>1, <2>1, <2>3, <3>3, <3>4 DEF TypeOK
    <2>5. TokensIssued' /\ CallsFine'
      BY <1>1, <2>1, <2>2, <2>3, Numbers DEF TokensIssued, CallsFine
    <2>6. AnswersAreTrue'
      <3>1. ASSUME NEW q \in Procs, q # p PROVE AnswerFits(flight'[q], issued', live')
        BY <2>1, <2>3, <3>1, Numbers DEF AnswersAreTrue, AnswerIsTrue, AnswerFits
      <3>2. AnswerFits(g, issued', live')
        BY <1>1, <2>1, <2>2, Numbers DEF AnswerIsTrue, AnswerFits
      <3> QED
        BY <2>3, <3>1, <3>2 DEF AnswersAreTrue, AnswerIsTrue, AnswerFits
    <2>7. DisabledIsDead'
      BY <1>1, <2>1, Numbers DEF DisabledIsDead, TokensIssued
    <2>8. \A q \in Procs : ~hurt /\ InRequest(q) => q = p
      BY <1>1 DEF RequesterOwns, InRequest
    <2>9. RequesterOwns'
      BY <1>1, <2>1, <2>2, <2>3, <2>8 DEF RequesterOwns, InRequest
    <2>10. 0 \notin live
      BY Numbers
    <2>11. RowLives'
      BY <1>1, <2>1, <2>2, <2>3, <2>8, <2>10 DEF RowLives, Succeeds, InRequest
    <2> QED
      BY <2>4, <2>5, <2>6, <2>7, <2>9, <2>11
  <1>3. CASE f.sent \notin live
    <2>1. Fly(p, h) /\ UNCHANGED <<issued, live>>
      BY <1>3 DEF Provide
    <2>2. /\ h \in FlightType /\ h.pc = "request" /\ h.answer = "refused" /\ h.new = 0
          /\ h.sent = f.sent /\ h.result = f.result /\ h.lost = f.lost
      BY <1>1 DEF FlightType
    <2> HIDE DEF h
    <2>3. AnswerIsTrue(h)
      BY <1>1, <1>3, <2>2 DEF AnswerIsTrue, AnswerFits
    <2>4. ~hurt => lease.owner = p /\ ~lease.expired /\ ~f.lost
      BY <1>1 DEF RequesterOwns, InRequest
    <2>5. AnswersAreTrue' /\ DisabledIsDead' /\ RequesterOwns' /\ RowLives'
      BY <1>1, <2>1, <2>2, <2>3, <2>4, FlightOnly
    <2>6. /\ flight' \in [Procs -> FlightType] /\ flight'[p] = h
          /\ \A q \in Procs : q # p => flight'[q] = flight[q]
      BY <2>1, <2>2, FlyTyped
    <2> QED
      BY <1>1, <2>1, <2>2, <2>5, <2>6 DEF TypeOK, TokensIssued, CallsFine
  <1> QED
    BY <1>2, <1>3

LEMMA WithdrawSafe == ASSUME IInv, NEW p \in Procs, Withdraw(p) PROVE IInv'
  <1> DEFINE f == flight[p]
             h == [f EXCEPT !.answer = "refused"]
  <1> USE DEF IInv
  <1>1. /\ f.pc = "request" /\ f.answer = "none" /\ f \in FlightType /\ f.new = 0
        /\ f.sent \in 1..issued /\ live' = {} /\ hurt' = TRUE /\ Fly(p, h)
        /\ faults' \in 0..MaxFaults
        /\ UNCHANGED <<row, lease, issued, due, mem, call>>
    BY Numbers, LeaseAssumption
    DEF Withdraw, At, database, AnswersAreTrue, AnswerIsTrue, AnswerFits, Fault, TypeOK
  <1>2. /\ h \in FlightType /\ h.pc = "request" /\ h.answer = "refused" /\ h.new = 0
        /\ h.sent = f.sent /\ h.result = f.result
    BY <1>1 DEF FlightType
  <1> HIDE DEF h
  <1>3. /\ flight' \in [Procs -> FlightType] /\ flight'[p] = h
        /\ \A q \in Procs : q # p => flight'[q] = flight[q]
    BY <1>1, <1>2, FlyTyped
  <1>4. TypeOK' /\ TokensIssued' /\ CallsFine'
    BY <1>1, <1>2, <1>3 DEF TypeOK, TokensIssued, CallsFine
  <1>5. AnswersAreTrue'
    BY <1>1, <1>2, <1>3 DEF AnswersAreTrue, AnswerIsTrue, AnswerFits
  <1> QED
    BY <1>1, <1>4, <1>5 DEF DisabledIsDead, RequesterOwns, RowLives

LEMMA StallSafe == ASSUME IInv, NEW p \in Procs, Stall(p) PROVE IInv'
  <1> USE DEF IInv
  <1>1. /\ hurt' = TRUE /\ lease' = [lease EXCEPT !.expired = TRUE] /\ faults' \in 0..MaxFaults
        /\ UNCHANGED <<row, issued, live, due, mem, flight, call>>
    BY LeaseAssumption DEF Stall, provider, Fault, TypeOK
  <1>2. TypeOK' /\ TokensIssued' /\ CallsFine'
    BY <1>1 DEF TypeOK, TokensIssued, CallsFine
  <1> QED
    BY <1>1, <1>2 DEF AnswersAreTrue, AnswerIsTrue, AnswerFits, DisabledIsDead, RequesterOwns, RowLives

LEMMA CrashSafe == ASSUME IInv, NEW p \in Procs, Crash(p) PROVE IInv'
  <1> DEFINE g == [NoFlight EXCEPT !.pc = "dead"]
  <1> USE DEF IInv
  <1>1. /\ Fly(p, g) /\ faults' \in 0..MaxFaults
        /\ hurt' = (hurt \/ (flight[p].pc \in {"request", "granted"} /\ flight[p].answer = "granted"))
        /\ call' = [c \in Calls |-> IF ProcOf[c] = p
                      THEN [pc |-> "done", turn |-> call[c].turn, token |-> 0] ELSE call[c]]
        /\ UNCHANGED <<row, lease, issued, live, due, mem>>
    BY LeaseAssumption DEF Crash, database, provider, Fault, TypeOK
  <1>2. \A c \in Calls : [pc |-> "done", turn |-> call[c].turn, token |-> 0] \in CallType
    BY DEF TypeOK, CallType
  <1>3. call' \in [Calls -> CallType] /\ CallsFine'
    BY <1>1, <1>2, Numbers DEF TypeOK, CallsFine
  <1>4. g \in FlightType /\ g.pc = "dead" /\ g.new = 0 /\ g.result = 0
    BY DEF NoFlight, FlightType, Tokens
  <1> HIDE DEF g
  <1>5. /\ flight' \in [Procs -> FlightType] /\ flight'[p] = g /\ 0 <= issued
        /\ \A q \in Procs : q # p => flight'[q] = flight[q]
    BY <1>1, <1>4, FlyTyped, Numbers
  <1>6. AnswerIsTrue(g)
    BY <1>4 DEF AnswerIsTrue, AnswerFits
  <1>7. ~hurt' /\ flight[p].pc \in {"request", "granted"} => flight[p].new = 0
    BY <1>1, LeaseAssumption DEF AnswersAreTrue, AnswerIsTrue, AnswerFits
  <1>8. AnswersAreTrue' /\ DisabledIsDead' /\ RequesterOwns' /\ RowLives'
    BY <1>1, <1>4, <1>6, <1>7, FlightOnly
  <1>9. hurt' \in BOOLEAN
    BY <1>1 DEF TypeOK
  <1> QED
    BY <1>1, <1>3, <1>4, <1>5, <1>8, <1>9 DEF TypeOK, TokensIssued

LEMMA LoginSafe == ASSUME IInv, Login PROVE IInv'
  <1> USE DEF IInv
  <1>1. /\ row.active /\ issued' = issued + 1 /\ issued' \in Tokens /\ issued' \in Nat
        /\ live' = live \cup {issued'} /\ row' = [row EXCEPT !.token = issued']
        /\ UNCHANGED <<lease, due, mem, flight, call, faults, hurt>>
    BY LeaseAssumption DEF Login, TypeOK, Tokens
  <1>2. /\ row' \in [token : Tokens, active : BOOLEAN] /\ row'.active /\ row'.token = issued'
    BY <1>1 DEF TypeOK
  <1>3. TypeOK'
    BY <1>1, <1>2, Numbers DEF TypeOK, Tokens
  <1>4. TokensIssued' /\ CallsFine'
    BY <1>1, <1>2, Numbers DEF TokensIssued, CallsFine
  <1>5. AnswersAreTrue'
    BY <1>1, Numbers DEF AnswersAreTrue, AnswerIsTrue, AnswerFits
  <1>6. DisabledIsDead' /\ RequesterOwns' /\ RowLives'
    BY <1>1, <1>2 DEF DisabledIsDead, RequesterOwns, RowLives, InRequest
  <1> QED
    BY <1>3, <1>4, <1>5, <1>6

LEMMA LeaseRunsOutSafe == ASSUME IInv, LeaseRunsOut PROVE IInv'
  <1> USE DEF IInv
  <1>1. /\ lease.owner # NoOne /\ flight[lease.owner].pc = "dead"
        /\ lease' = [lease EXCEPT !.expired = TRUE]
        /\ UNCHANGED <<row, issued, live, due, mem, flight, call, faults, hurt>>
    BY DEF LeaseRunsOut, provider, Alive
  <1>2. TypeOK' /\ TokensIssued' /\ CallsFine'
    BY <1>1 DEF TypeOK, TokensIssued, CallsFine
  <1>3. \A q \in Procs : ~hurt => ~InRequest(q)
    BY <1>1 DEF RequesterOwns, InRequest
  <1> QED
    BY <1>1, <1>2, <1>3
    DEF AnswersAreTrue, AnswerIsTrue, AnswerFits, DisabledIsDead, RequesterOwns, RowLives, Succeeds, InRequest

LEMMA AgeSafe == ASSUME IInv, Age PROVE IInv'
  <1> USE DEF IInv
  <1>1. /\ due' \in 0..issued
        /\ UNCHANGED <<row, lease, issued, live, mem, flight, call, faults, hurt>>
    BY Numbers, LeaseAssumption DEF Age, database, TypeOK
  <1> QED
    BY <1>1, NoFlightMoves DEF TypeOK, TokensIssued, CallsFine

-----------------------------------------------------------------------------
LEMMA LeaseStart == Init => IInv
  <1> SUFFICES ASSUME Init PROVE IInv
    OBVIOUS
  <1>1. 1 \in Tokens /\ MaxFaults \in Nat
    BY LeaseAssumption DEF Tokens
  <1>2. /\ row \in [token : Tokens, active : BOOLEAN]
        /\ lease \in [owner : Procs \cup {NoOne}, expired : BOOLEAN]
    BY <1>1 DEF Init
  <1>3. live \subseteq 1..issued /\ due \in 0..issued
    BY DEF Init
  <1>4. call \in [Calls -> CallType] /\ \A c \in Calls : call[c].pc = "idle" /\ call[c].token = 0
    <2>1. [pc |-> "idle", turn |-> 1, token |-> 0] \in CallType
      BY DEF CallType
    <2> QED
      BY <2>1 DEF Init
  <1>5. flight \in [Procs -> FlightType] /\ mem \in [Procs -> {0} \cup Tokens]
    BY <1>1, NoFlightTyped DEF Init
  <1>6. issued \in Tokens /\ faults \in 0..MaxFaults /\ hurt \in BOOLEAN
    <2>1. issued \in Tokens /\ faults = 0
      BY <1>1 DEF Init
    <2>2. faults \in 0..MaxFaults
      BY <1>1, <2>1
    <2>3. hurt \in BOOLEAN
      BY Zenon DEF Init
    <2> QED
      BY <2>1, <2>2, <2>3
  <1>7. TypeOK
    BY <1>2, <1>3, <1>4, <1>5, <1>6 DEF TypeOK
  <1> QED
    BY <1>4, <1>7, NoFlightTyped
    DEF Init, IInv, TokensIssued, CallsFine, AnswersAreTrue, AnswerIsTrue, AnswerFits, DisabledIsDead,
        RequesterOwns, RowLives, InRequest

LEMMA LeaseStep == IInv /\ [Next]_vars => IInv'
  <1> SUFFICES ASSUME IInv, [Next]_vars PROVE IInv'
    OBVIOUS
  <1>1. ASSUME NEW c \in Calls, Serve(c) PROVE IInv'
    BY <1>1, SelectSafe, PrepareSafe, UsageKnownSafe, KeepSafe DEF Serve
  <1>2. ASSUME NEW p \in Procs, Flight(p) PROVE IInv'
    BY <1>2, LookSafe, AcquireSafe, WakeSafe, RecheckSafe, RenewSafe, AnsweredSafe,
       RequestFailsSafe, WriteSafe, DisableSafe, ReleaseSafe DEF Flight
  <1>3. ASSUME NEW p \in Procs, Provide(p) \/ Withdraw(p) \/ Stall(p) \/ Crash(p) PROVE IInv'
    BY <1>3, ProvideSafe, WithdrawSafe, StallSafe, CrashSafe
  <1>4. CASE UNCHANGED vars
    BY <1>4, NoFlightMoves DEF vars, IInv, TypeOK, TokensIssued, CallsFine
  <1> QED
    BY <1>1, <1>2, <1>3, <1>4, AgeSafe, LoginSafe, LeaseRunsOutSafe DEF Next

(* The inductive invariant: what flights say is true, and a process in a   *)
(* request owns the lease unless something was lost.                       *)
THEOREM LeaseInvariant == Spec => []IInv
  BY LeaseStart, LeaseStep, PTL DEF Spec

(* One process at a time is between the reading of the row and the outcome *)
(* of its request, unless a lease was outslept: refreshing processes never *)
(* send a rotating token twice.                                            *)
THEOREM LeaseCorrect == Spec => []LeaseInv
  <1>1. IInv => LeaseInv
    BY DEF IInv, LeaseInv, OneRequester, RequesterOwns
  <1> QED
    BY <1>1, LeaseInvariant, PTL

(* The account is kept: the row's token is accepted, or its successor is   *)
(* about to be written, unless it was lost; and a credential is disabled   *)
(* only for the token that was refused.                                    *)
THEOREM AccountCorrect == Spec => []AccountKept
  <1>1. IInv => AccountKept
    BY DEF IInv, AccountKept, DisabledIsDead, RowLives, Succeeds
  <1> QED
    BY <1>1, LeaseInvariant, PTL

(* A refresh never puts an older token over a newer one, however late its  *)
(* answer comes: only the write of what a request was handed can.          *)
THEOREM LateAnswerCorrect == Spec => LateAnswerIsDropped
  <1>1. ASSUME IInv, [Next]_vars, row'.token < row.token
        PROVE  \E c \in Calls : call[c].pc = "keep" /\ call'[c] # call[c]
    <2> USE <1>1 DEF IInv
    <2>1. ~UNCHANGED row
      BY Numbers
    <2>2. ~Login
      BY Numbers DEF Login, TypeOK, TokensIssued
    <2>3. ASSUME NEW p \in Procs, Write(p) PROVE FALSE
      <3>1. /\ flight[p].pc = "granted" /\ flight[p].new # 0 /\ flight[p].sent < flight[p].new
            /\ flight[p].sent \in 1..issued
        BY <2>3 DEF Write, At, AnswersAreTrue, AnswerIsTrue, AnswerFits
      <3>2. Matches(p) /\ row' = [row EXCEPT !.token = flight[p].new]
        BY <2>1, <2>3 DEF Write
      <3> QED
        BY <3>1, <3>2, Numbers DEF Matches, TypeOK
    <2>4. ASSUME NEW p \in Procs, Disable(p) PROVE FALSE
      BY <2>1, <2>4, Numbers DEF Disable, TypeOK
    <2>5. PICK c \in Calls : Keep(c)
      BY <2>1, <2>2, <2>3, <2>4 DEF Next, Serve, Flight, Select, Prepare, UsageKnown, Look,
         Acquire, Wake, Recheck, Renew, Answered, RequestFails, Release, Provide, Withdraw,
         Stall, Crash, Age, LeaseRunsOut, database, vars
    <2> QED
      BY <2>5 DEF Keep, TypeOK, CallType
  <1> QED
    BY <1>1, LeaseInvariant, PTL DEF Spec, LateAnswerIsDropped
=============================================================================
