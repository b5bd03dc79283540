-------------------------- MODULE AgentFleetProofs --------------------------
(***************************************************************************)
(* For any senders, killers, generations and sessions: no session is live  *)
(* that nobody would end, an idle agent is timed, a killed one is dead for *)
(* good, and parking takes no turn, no session and no message away.        *)
(*                                                                         *)
(* The argument follows the generation of the id.  Its session is attached *)
(* until the step that hands it to a park, a kill or a revival to dispose; *)
(* a generation that was unregistered is never registered again; and while *)
(* a park is in flight nobody revives, kills or adopts what it parks.      *)
(***************************************************************************)
EXTENDS AgentFleet, TLAPS

Used(r)    == refs[r].status # "none"
Aborted(r) == refs[r].status = "aborted"
Of(r)      == refs[r].session

-----------------------------------------------------------------------------
(* What is referred to exists, and a session that is not built is blank.   *)

CurrentUsed == current # 0 => Used(current)
AdoptedUsed == adopted.ref # 0 => Used(adopted.ref)
RefsUsed ==
    \A r \in Refs : /\ ~Used(r) => Of(r) = 0
                    /\ revival[r].at # "none" => Used(r)
SessionsUsed ==
    \A s \in Sessions :
        /\ sess[s].at # "none" => sess[s].ref # 0 /\ Used(sess[s].ref)
        /\ sess[s].at = "none" =>
             /\ sess[s].ref = 0 /\ sess[s].by = "none"
             /\ ~sess[s].synced /\ ~sess[s].turn /\ ~sess[s].early
KillsUsed ==
    \A k \in Killers : kills[k].at \notin {"none", "done"} =>
        kills[k].ref # 0 /\ Used(kills[k].ref) /\ kills[k].how # "none"
ParkUsed ==
    park.at # "none" =>
        /\ park.ref # 0 /\ Used(park.ref) /\ park.session # 0
        /\ sess[park.session].ref = park.ref

-----------------------------------------------------------------------------
(* A session is live while it is attached, or detached from a tombstone;   *)
(* its disposal ends before its ref, if still registered, gets another.    *)

AttachedRight ==
    \A r \in Refs : Of(r) # 0 =>
        /\ sess[Of(r)].ref = r /\ sess[Of(r)].at # "none" /\ sess[Of(r)].by # "park"
        /\ ~Aborted(r)
LiveAttached ==
    \A s \in Sessions : sess[s].at = "live" =>
        /\ Of(sess[s].ref) = s \/ Aborted(sess[s].ref)
        /\ sess[s].by \in {"none", "first"}
DisposingDue ==
    \A s \in Sessions : sess[s].at = "disposing" =>
        \/ Of(sess[s].ref) = s \/ Aborted(sess[s].ref) \/ current # sess[s].ref
        \/ sess[s].by = "park"
DisposingBy ==
    \A s \in Sessions : sess[s].at = "disposing" =>
        /\ sess[s].by # "first"
        /\ sess[s].by = "park" => park.at = "dispose" /\ park.session = s

(* A turn that began before the revival had finished is marked, and an     *)
(* idle ref has no other turn.                                             *)
TurnsSeen ==
    \A s \in Sessions : sess[s].at = "live" /\ sess[s].turn =>
        /\ sess[s].synced \/ sess[s].early
        /\ refs[sess[s].ref].status = "idle" /\ Of(sess[s].ref) = s => sess[s].early

-----------------------------------------------------------------------------
(* A revival is for a ref without a session, until it attaches its own.    *)

RevivalStarts ==
    \A r \in Refs :
        /\ revival[r].at \in {"factory", "building"} =>
             Of(r) = 0 /\ refs[r].status \in {"parked", "aborted"}
        /\ revival[r].at # "wiring" => revival[r].session = 0
RevivalWires ==
    \A r \in Refs : revival[r].at = "wiring" =>
        LET s == revival[r].session IN
        /\ s # 0 /\ sess[s].ref = r /\ sess[s].at # "none"
        /\ ~sess[s].synced /\ sess[s].by # "first"
        /\ Of(r) \in {0, s} /\ (Of(r) = s => refs[r].status = "running")

-----------------------------------------------------------------------------
(* A park owns its ref: nobody revives it, and it is detached once, before *)
(* its session is disposed.                                                *)

ParkOwns ==
    park.at # "none" =>
        /\ revival[park.ref].at \notin {"factory", "building"}
        /\ Of(park.ref) \in {0, park.session} /\ sess[park.session].by # "first"
ParkDisposes ==
    park.at = "dispose" =>
        /\ ~park.cancelled /\ Of(park.ref) = 0
        /\ refs[park.ref].status \in {"parked", "aborted"}
        /\ sess[park.session].at \in {"disposing", "gone"}
ParkRests ==
    /\ park.at = "none" => ~park.cancelled
    /\ \A m \in Messages :
         /\ msgs[m].at \in {"kept", "unparked"} => park.at = "none"
         /\ msgs[m].at \in {"cancelling", "parking"} => park.at # "none"

-----------------------------------------------------------------------------
(* A kill owns its ref from the moment it drops the adoption.              *)

KillWaits ==
    \A k \in Killers :
        /\ kills[k].at \notin {"persist", "dispose"} => kills[k].session = 0
        /\ kills[k].at \in {"parking", "ready"} =>
             /\ current = kills[k].ref => adopted.ref # kills[k].ref
             /\ Of(kills[k].ref) # 0 => sess[Of(kills[k].ref)].by # "first"
        /\ kills[k].at = "parking" => park.at # "none" /\ park.ref = kills[k].ref
        /\ kills[k].at = "ready" => park.at = "none"
KillTook ==
    \A k \in Killers : kills[k].session # 0 =>
        /\ sess[kills[k].session].ref = kills[k].ref
        /\ park.at # "none" => park.ref # kills[k].ref
        /\ kills[k].at = "persist" => Aborted(kills[k].ref)
KillDisposes ==
    \A k \in Killers : kills[k].at = "dispose" =>
        LET r == kills[k].ref
            s == kills[k].session
        IN
        /\ s # 0 /\ sess[s].at \in {"disposing", "gone"}
        /\ kills[k].how = "tombstone" => Aborted(r)
        /\ Of(r) = s => adopted.ref # r
        /\ current = r /\ ~Aborted(r) => Of(r) = s \/ (Of(r) = 0 /\ sess[s].at = "gone")

(* An adopted ref is past its first run. *)
AdoptedRan == adopted.ref # 0 /\ Of(adopted.ref) # 0 => sess[Of(adopted.ref)].by # "first"

-----------------------------------------------------------------------------
(* While the manager listens, an adopted session is live, its timer runs   *)
(* only while it is idle and is not being parked, and the ref of a park is *)
(* registered, its session attached and live, until the park commits.  A   *)
(* ref that replaces it after that waits for the park: nobody revives it   *)
(* or gives it a turn, so it arms its timer only at its adoption.          *)

AdoptedLives ==
    ~disposed /\ adopted.ref # 0 /\ adopted.ref = current =>
        /\ Of(current) # 0 => sess[Of(current)].at = "live"
        /\ adopted.timer =>
             refs[current].status = "idle" /\ (park.at # "none" => park.ref # current)
ParkRegistered ==
    ~disposed /\ park.at # "none" /\ current # park.ref =>
        /\ park.at = "dispose"
        /\ \A m \in Messages : msgs[m].at # "got"
        /\ current # 0 => revival[current].at = "none"
        /\ current # 0 /\ adopted.ref = current /\ Of(current) # 0 =>
             refs[current].status = "idle"
ParkYields ==
    ~disposed /\ park.at = "yield" =>
        /\ Of(park.ref) = park.session /\ sess[park.session].at = "live"
        /\ revival[park.ref].at = "none"
        /\ adopted.ref = park.ref /\ ~park.cancelled =>
             /\ refs[park.ref].status = "idle"
             /\ \A m \in Messages : msgs[m].at # "got"
        /\ adopted.ref = park.ref /\ park.cancelled =>
             \E m \in Messages : msgs[m].at = "cancelling" /\ msgs[m].ref = park.ref

(* An idle adopted agent is timed, or about to be. *)
IdleWillBeTimed ==
    ~disposed /\ adopted.ref # 0 /\ adopted.ref = current
      /\ Of(current) # 0 /\ refs[current].status = "idle" =>
        \/ adopted.timer \/ adopted.missed
        \/ park.at # "none" /\ park.ref = current
        \/ \E m \in Messages : msgs[m].at = "kept" /\ msgs[m].ref = current

-----------------------------------------------------------------------------
(* As long as nobody killed, ended or failed: the registered ref has a     *)
(* live session or is parked, whatever was adopted is it, and who waits    *)
(* for its park or its revival will get a session.                         *)

Unhurt ==
    ~hurt =>
        /\ ~disposed /\ \A k \in Killers : kills[k].at = "none"
        /\ \A r \in Refs : ~Aborted(r) /\ (revival[r].at # "none" => current = r)
        /\ adopted.ref \in {0, current} /\ (adopted.ref # 0 => adopted.revive)
        /\ park.at = "yield" => adopted.ref = current
UnhurtSessions ==
    ~hurt =>
        /\ \A s \in Sessions : sess[s].at = "disposing" => sess[s].by = "park"
        /\ current # 0 /\ Of(current) = 0 =>
             refs[current].status = "parked" /\ revival[current].at # "wiring"
        /\ current # 0 /\ Of(current) # 0 => sess[Of(current)].at = "live"
UnhurtSends ==
    ~hurt =>
        \A m \in Messages :
            /\ msgs[m].at \in {"cancelling", "kept", "parking", "unparked"} =>
                 current # 0
            /\ msgs[m].at = "got" => current # 0 /\ Of(current) # 0
            /\ msgs[m].receipt # "failed"

Referred     == CurrentUsed /\ AdoptedUsed /\ RefsUsed /\ SessionsUsed /\ KillsUsed /\ ParkUsed
AttachedOnce == AttachedRight /\ LiveAttached /\ DisposingDue /\ DisposingBy /\ TurnsSeen
RevivalsHeld == RevivalStarts /\ RevivalWires
ParkHeld     == ParkOwns /\ ParkDisposes /\ ParkRests
KillsHeld    == KillWaits /\ KillTook /\ KillDisposes
Listening    == AdoptedRan /\ AdoptedLives /\ ParkRegistered /\ ParkYields /\ IdleWillBeTimed
UnhurtAll    == Unhurt /\ UnhurtSessions /\ UnhurtSends

FleetIInv ==
    /\ TypeOK /\ NoOrphan /\ Referred /\ AttachedOnce /\ RevivalsHeld /\ ParkHeld /\ KillsHeld
    /\ Listening /\ UnhurtAll

-----------------------------------------------------------------------------
(* The numbers of a typed state, and its stages. *)
Ranges ==
    /\ MaxRefs \in Nat /\ MaxSessions \in Nat
    /\ current \in 0..MaxRefs /\ adopted.ref \in 0..MaxRefs
    /\ park.ref \in 0..MaxRefs /\ park.session \in 0..MaxSessions
    /\ \A r \in Refs : refs[r].session \in 0..MaxSessions /\ revival[r].session \in 0..MaxSessions
    /\ \A r \in Refs : revival[r].at \in {"none", "factory", "building", "wiring"}
    /\ \A s \in Sessions : /\ sess[s].ref \in 0..MaxRefs
                           /\ sess[s].at \in {"none", "live", "disposing", "gone"}
    /\ \A k \in Killers : kills[k].ref \in 0..MaxRefs /\ kills[k].session \in 0..MaxSessions
    /\ \A m \in Messages : msgs[m].ref \in 0..MaxRefs /\ msgs[m].got \in 0..MaxSessions

(* A typed state is in range. *)
LEMMA TypedRanges == (TypeOK => Ranges) /\ (TypeOK' => Ranges')
<1>1. TypeOK => Ranges
  BY FleetAssumption DEF TypeOK, Ranges, RefType, SessionType, AdoptType, ParkType, RevivalType, KillType, SendType
<1>2. TypeOK' => Ranges'
  BY FleetAssumption DEF TypeOK, Ranges, RefType, SessionType, AdoptType, ParkType, RevivalType, KillType, SendType
<1> QED BY <1>1, <1>2

(* The empty slots are typed, and so are the ends of a kill and a send. *)
LEMMA RestTyped ==
    /\ NoAdoption \in AdoptType /\ NoPark \in ParkType
    /\ NoRevival \in RevivalType /\ NoKill \in KillType /\ Over \in KillType
<1>1. 0 \in 0..MaxRefs /\ 0 \in 0..MaxSessions
  BY FleetAssumption
<1>2. NoAdoption \in AdoptType /\ NoPark \in ParkType /\ NoRevival \in RevivalType
  BY <1>1 DEF NoAdoption, AdoptType, NoPark, ParkType, NoRevival, RevivalType
<1>3. NoKill \in KillType
  BY <1>1 DEF NoKill, KillType
<1>4. Over \in KillType
  BY <1>1 DEF Over, NoKill, KillType
<1> QED BY <1>2, <1>3, <1>4

USE DEF Used, Aborted, Of, Refs, Sessions

(* What the beginning of a disposal changes. *)
LEMMA DisposalBegins ==
    ASSUME sess \in [Sessions -> SessionType], NEW s \in Sessions,
           NEW by \in {"kept", "one-shot", "isolated", "park", "revival", "release", "tombstone"}
    PROVE  LET then == BeginDispose(s, by) IN
           /\ then \in [Sessions -> SessionType]
           /\ \A q \in Sessions : q # s => then[q] = sess[q]
           /\ then[s].at = "disposing" /\ then[s].by = by /\ then[s].ref = sess[s].ref
           /\ then[s].synced = sess[s].synced
<1>1. \A x \in SessionType : [x EXCEPT !.at = "disposing", !.by = by] \in SessionType
  <2> SUFFICES ASSUME NEW x \in SessionType
               PROVE  [x EXCEPT !.at = "disposing", !.by = by] \in SessionType
    OBVIOUS
  <2> QED BY DEF SessionType
<1>2. BeginDispose(s, by) = [sess EXCEPT ![s] = [sess[s] EXCEPT !.at = "disposing", !.by = by]]
  BY DEF BeginDispose
<1>3. BeginDispose(s, by) \in [Sessions -> SessionType]
  BY <1>1, <1>2
<1>4. \A q \in Sessions : q # s => BeginDispose(s, by)[q] = sess[q]
  BY <1>2
<1>5. /\ BeginDispose(s, by)[s].at = "disposing" /\ BeginDispose(s, by)[s].by = by
      /\ BeginDispose(s, by)[s].ref = sess[s].ref /\ BeginDispose(s, by)[s].synced = sess[s].synced
  BY <1>2 DEF SessionType
<1> QED BY <1>3, <1>4, <1>5

(* The disposal of a session ends.  If its ref is forgotten, the session   *)
(* was the one attached to it, or none was.                                *)
LEMMA GoneStep ==
    ASSUME FleetIInv, NEW s \in Sessions, SessionGone(s)
    PROVE  FleetIInv'
<1> DEFINE r == sess[s].ref
<1>0. Ranges /\ TypeOK BY TypedRanges DEF FleetIInv
<1> DEFINE gone == [sess[s] EXCEPT !.at = "gone", !.turn = FALSE]
<1>a. sess' = [sess EXCEPT ![s] = gone] /\ sess[s] \in SessionType
  BY <1>0 DEF SessionGone, TypeOK
<1>b. gone \in SessionType
  BY ONLY <1>a DEF SessionType
<1>1. sess' \in [Sessions -> SessionType]
  <2> HIDE DEF gone
  <2> QED BY <1>0, <1>a, <1>b DEF TypeOK
<1>2. /\ \A q \in Sessions : q # s => sess'[q] = sess[q]
      /\ sess'[s].at = "gone" /\ ~sess'[s].turn /\ sess'[s].ref = r
      /\ sess'[s].synced = sess[s].synced /\ sess'[s].early = sess[s].early
      /\ sess'[s].by = sess[s].by
  BY <1>0 DEF SessionGone, TypeOK, SessionType
<1>3. sess[s].at = "disposing" /\ r # 0 /\ r \in Refs
  BY <1>0 DEF SessionGone, FleetIInv, Referred, SessionsUsed, Ranges
<1>4. /\ current' \in {current, 0} /\ adopted' \in {adopted, NoAdoption}
      /\ current' # current => current = r /\ ~Spared(r)
      /\ adopted' # adopted => current = r /\ current' = 0
      /\ current' # current /\ adopted.ref = r /\ ~disposed => adopted' = NoAdoption
  BY <1>3 DEF SessionGone, Unregister
<1>5. UNCHANGED <<park, revival, disposed, kills, msgs, waiter, mailbox, faults, hurt>>
  BY DEF SessionGone, bus, history
<1>6. refs' \in [Refs -> RefType]
  <2>1. \A x \in RefType : [x EXCEPT !.session = 0] \in RefType
    BY <1>0 DEF RefType, Ranges
  <2> QED BY <2>1, <1>0, <1>3 DEF SessionGone, TypeOK
<1>7. /\ \A q \in Refs : refs'[q].status = refs[q].status
      /\ \A q \in Refs : q # r => refs'[q] = refs[q]
      /\ refs'[r].session # refs[r].session =>
           refs'[r].session = 0 /\ current = r /\ sess[s].by = "isolated"
  BY <1>0, <1>3, <1>4 DEF SessionGone, TypeOK, RefType, Ranges
<1>8. current = r => \/ Of(r) = s
                     \/ Of(r) = 0 /\ (Aborted(r) \/ sess[s].by = "park")
  BY <1>0, <1>3 DEF FleetIInv, AttachedOnce, DisposingDue, DisposingBy, AttachedRight, ParkHeld, ParkDisposes, Referred, ParkUsed, Ranges
<1>9. TypeOK'
  <2>1. adopted' \in AdoptType BY <1>0, <1>4, RestTyped DEF TypeOK
  <2>2. current' \in 0..MaxRefs BY <1>0, <1>4 DEF Ranges
  <2> QED BY <1>0, <1>1, <1>5, <1>6, <2>1, <2>2 DEF TypeOK
<1>10. ~hurt => UNCHANGED <<current, adopted>> /\ sess[s].by = "park"
  BY <1>0, <1>3, <1>4, <1>5, <1>7 DEF FleetIInv, UnhurtAll, Unhurt, UnhurtSessions, AttachedOnce,
     DisposingBy, ParkHeld, ParkDisposes, Referred, ParkUsed, Spared
<1> USE <1>0, <1>2, <1>3, <1>4, <1>5, <1>7, <1>8, <1>10
    DEF FleetIInv, Ranges, NoAdoption
<1>11. NoOrphan'
  BY DEF NoOrphan, Live
<1>12. Referred'
  <2>1. CurrentUsed' /\ AdoptedUsed' /\ RefsUsed' /\ SessionsUsed'
    BY SMTT(30) DEF Referred, CurrentUsed, AdoptedUsed, RefsUsed, SessionsUsed
  <2>2. KillsUsed' /\ ParkUsed'
    BY DEF Referred, KillsUsed, ParkUsed
  <2> QED BY ONLY <2>1, <2>2 DEF Referred
<1>13. AttachedOnce'
  <2>1. AttachedRight'
    BY SMTT(30) DEF AttachedOnce, AttachedRight
  <2>2. LiveAttached'
    BY SMTT(30) DEF AttachedOnce, LiveAttached, Referred, SessionsUsed
  <2>3. DisposingDue' /\ DisposingBy'
    BY DEF AttachedOnce, DisposingDue, DisposingBy, Referred, SessionsUsed
  <2>4. TurnsSeen'
    <3> SUFFICES ASSUME NEW q \in Sessions PROVE TurnsSeen!(q)'
      BY DEF TurnsSeen
    <3>1. TurnsSeen!(q) BY DEF AttachedOnce, TurnsSeen
    <3>2. CASE q = s
      BY <3>2
    <3>3. CASE q # s
      <4>1. sess[q].at # "none" => sess[q].ref \in Refs
        BY DEF Referred, SessionsUsed
      <4> QED BY <3>1, <3>3, <4>1
    <3> QED BY ONLY <3>2, <3>3
  <2> QED BY ONLY <2>1, <2>2, <2>3, <2>4 DEF AttachedOnce
<1>14. RevivalsHeld'
  BY SMTT(30) DEF RevivalsHeld, RevivalStarts, RevivalWires
<1>15. ParkHeld'
  BY DEF ParkHeld, ParkOwns, ParkDisposes, ParkRests, Referred, ParkUsed
<1>16. KillsHeld'
  <2>1. KillWaits'
    <3> SUFFICES ASSUME NEW k \in Killers PROVE KillWaits!(k)'
      BY DEF KillWaits
    <3>1. KillWaits!(k) BY DEF KillsHeld, KillWaits
    <3>2. kills[k].at \in {"parking", "ready"} => kills[k].ref \in Refs
      BY DEF Referred, KillsUsed
    <3> QED BY SMTT(30), <3>1, <3>2
  <2>2. KillTook'
    BY DEF KillsHeld, KillWaits, KillTook, Referred, KillsUsed
  <2>3. KillDisposes'
    <3> SUFFICES ASSUME NEW k \in Killers PROVE KillDisposes!(k)'
      BY DEF KillDisposes
    <3>1. KillDisposes!(k) /\ KillTook!(k)
      BY DEF KillsHeld, KillDisposes, KillTook
    <3>2. kills[k].at = "dispose" => kills[k].ref \in Refs /\ kills[k].session \in Sessions
      BY DEF Referred, KillsUsed, KillsHeld, KillDisposes
    <3> QED BY <3>1, <3>2
  <2> QED BY ONLY <2>1, <2>2, <2>3 DEF KillsHeld
<1>17. Listening'
  <2>1. AdoptedRan' /\ AdoptedLives'
    BY SMTT(30) DEF Listening, AdoptedRan, AdoptedLives
  <2>2. ParkRegistered'
    BY DEF Listening, ParkRegistered, Referred, ParkUsed, ParkYields, ParkHeld,
       ParkDisposes, Spared, Parking, ParkType, TypeOK
  <2>3. ParkYields'
    BY DEF Listening, ParkYields, ParkRegistered, Referred, ParkUsed
  <2>4. IdleWillBeTimed'
    BY DEF Listening, IdleWillBeTimed
  <2> QED BY ONLY <2>1, <2>2, <2>3, <2>4 DEF Listening
<1>18. UnhurtAll'
  <2>1. Unhurt'
    BY DEF UnhurtAll, Unhurt
  <2>2. UnhurtSessions'
    BY DEF UnhurtAll, Unhurt, UnhurtSessions
  <2>3. UnhurtSends'
    BY DEF UnhurtAll, Unhurt, UnhurtSends, UnhurtSessions
  <2> QED BY ONLY <2>1, <2>2, <2>3 DEF UnhurtAll
<1> QED BY <1>9, <1>11, <1>12, <1>13, <1>14, <1>15, <1>16, <1>17, <1>18

(* An id that is free is taken by a new generation with a new session. *)
LEMMA SpawnStep ==
    ASSUME FleetIInv, NEW r \in Refs, NEW s \in Sessions, Spawn(r, s)
    PROVE  FleetIInv'
<1>0. Ranges /\ TypeOK BY TypedRanges DEF FleetIInv
<1>1. /\ current = 0 /\ current' = r /\ r # 0 /\ s # 0
      /\ refs[r].status = "none" /\ sess[s].at = "none"
  BY DEF Spawn, Fresh, Unbuilt
<1>2. /\ \A q \in Refs : q # r => refs'[q] = refs[q]
      /\ refs'[r].status = "running" /\ refs'[r].session = s
  BY <1>0 DEF Spawn, TypeOK
<1>3. /\ \A q \in Sessions : q # s => sess'[q] = sess[q]
      /\ sess'[s] = [at |-> "live", ref |-> r, synced |-> TRUE, turn |-> TRUE, early |-> FALSE,
                     by |-> "first"]
  BY <1>0 DEF Spawn, TypeOK
<1>4. UNCHANGED <<adopted, park, revival, disposed, kills, msgs, waiter, mailbox, faults, hurt>>
  BY DEF Spawn, bus, history
<1>5. TypeOK'
  <2>1. [status |-> "running", session |-> s] \in RefType
    BY <1>0 DEF RefType, Ranges
  <2>2. [at |-> "live", ref |-> r, synced |-> TRUE, turn |-> TRUE, early |-> FALSE, by |-> "first"]
           \in SessionType
    BY <1>0 DEF SessionType, Ranges
  <2>3. refs' \in [Refs -> RefType] /\ sess' \in [Sessions -> SessionType]
    BY <1>0, <2>1, <2>2 DEF Spawn, TypeOK
  <2>4. current' \in 0..MaxRefs
    BY <1>0, <1>1 DEF Ranges
  <2> QED BY <1>0, <1>4, <2>3, <2>4 DEF TypeOK
<1>6. /\ Of(r) = 0 /\ adopted.ref # r /\ revival[r].at = "none"
      /\ \A q \in Sessions : sess[q].ref # r
      /\ \A k \in Killers : kills[k].at \notin {"none", "done"} => kills[k].ref # r
      /\ park.at # "none" => park.ref # r
  BY <1>0, <1>1 DEF FleetIInv, Referred, AdoptedUsed, RefsUsed, SessionsUsed, KillsUsed, ParkUsed, Ranges
<1>7. /\ \A q \in Refs : Of(q) # s
      /\ park.at # "none" => park.session # s
      /\ \A q \in Refs : revival[q].at = "wiring" => revival[q].session # s
      /\ \A k \in Killers : kills[k].session # s
  <2>1. \A q \in Refs : Of(q) # s
    BY <1>0, <1>1 DEF FleetIInv, AttachedOnce, AttachedRight, Ranges
  <2>2. /\ park.at # "none" => park.session # s
        /\ \A q \in Refs : revival[q].at = "wiring" => revival[q].session # s
    BY <1>0, <1>1 DEF FleetIInv, Referred, ParkUsed, SessionsUsed, RevivalsHeld, RevivalWires, Ranges
  <2>3. \A k \in Killers : kills[k].session # s
    BY <1>0, <1>1 DEF FleetIInv, Referred, SessionsUsed, KillsUsed, KillsHeld, KillWaits, KillTook, Ranges
  <2> QED BY <2>1, <2>2, <2>3
<1> USE <1>0, <1>1, <1>2, <1>3, <1>4, <1>6, <1>7 DEF FleetIInv, Ranges
<1>8. NoOrphan'
  BY DEF NoOrphan, Live
<1>9. Referred'
  <2>1. CurrentUsed' /\ AdoptedUsed' /\ RefsUsed' /\ SessionsUsed'
    BY DEF Referred, CurrentUsed, AdoptedUsed, RefsUsed, SessionsUsed
  <2>2. KillsUsed' /\ ParkUsed'
    BY DEF Referred, KillsUsed, ParkUsed
  <2> QED BY ONLY <2>1, <2>2 DEF Referred
<1>10. AttachedOnce'
  <2>1. AttachedRight'
    BY DEF AttachedOnce, AttachedRight
  <2>2. LiveAttached'
    BY DEF AttachedOnce, LiveAttached, Referred, SessionsUsed
  <2>3. DisposingDue' /\ DisposingBy'
    BY DEF AttachedOnce, DisposingDue, DisposingBy, Referred, SessionsUsed
  <2>4. TurnsSeen'
    BY DEF AttachedOnce, TurnsSeen, Referred, SessionsUsed
  <2> QED BY ONLY <2>1, <2>2, <2>3, <2>4 DEF AttachedOnce
<1>11. RevivalsHeld'
  BY DEF RevivalsHeld, RevivalStarts, RevivalWires
<1>12. ParkHeld'
  BY DEF ParkHeld, ParkOwns, ParkDisposes, ParkRests, Referred, ParkUsed
<1>13. KillsHeld'
  <2>1. KillWaits'
    BY DEF KillsHeld, KillWaits, Referred, KillsUsed
  <2>2. KillTook'
    BY DEF KillsHeld, KillWaits, KillTook, Referred, KillsUsed
  <2>3. KillDisposes'
    BY DEF KillsHeld, KillDisposes, KillTook, Referred, KillsUsed
  <2> QED BY ONLY <2>1, <2>2, <2>3 DEF KillsHeld
<1>14. Listening'
  <2>1. AdoptedRan' /\ AdoptedLives'
    BY DEF Listening, AdoptedRan, AdoptedLives
  <2>2. ParkRegistered'
    BY DEF Listening, ParkRegistered, Referred, ParkUsed
  <2>3. ParkYields'
    BY DEF Listening, ParkYields, ParkRegistered, Referred, ParkUsed
  <2>4. IdleWillBeTimed'
    BY DEF Listening, IdleWillBeTimed
  <2> QED BY ONLY <2>1, <2>2, <2>3, <2>4 DEF Listening
<1>15. UnhurtAll'
  <2>1. Unhurt'
    BY DEF UnhurtAll, Unhurt, Listening, ParkRegistered, Referred, ParkUsed
  <2>2. UnhurtSessions'
    BY DEF UnhurtAll, Unhurt, UnhurtSessions
  <2>3. UnhurtSends'
    BY DEF UnhurtAll, Unhurt, UnhurtSends
  <2> QED BY ONLY <2>1, <2>2, <2>3 DEF UnhurtAll
<1> QED BY <1>5, <1>8, <1>9, <1>10, <1>11, <1>12, <1>13, <1>14, <1>15

(* A scan of the disk registers a new generation, which nothing knows of. *)
LEMMA RestoreStep ==
    ASSUME FleetIInv, NEW r \in Refs, NEW status \in {"parked", "aborted"}, Restore(r, status)
    PROVE  FleetIInv'
<1>0. Ranges /\ TypeOK BY TypedRanges DEF FleetIInv
<1>1. current = 0 /\ current' = r /\ r # 0 /\ refs[r].status = "none"
  BY DEF Restore, Fresh
<1>2. /\ \A q \in Refs : q # r => refs'[q] = refs[q]
      /\ refs'[r].status = status /\ refs'[r].session = refs[r].session
  BY <1>0 DEF Restore, TypeOK, RefType
<1>3. UNCHANGED <<sess, adopted, park, revival, disposed, kills, msgs, waiter, mailbox, faults>>
  BY DEF Restore, bus
<1>a. hurt' \in BOOLEAN /\ (~hurt' => ~hurt /\ status = "parked")
  BY <1>0, Zenon DEF Restore, TypeOK
<1>4. TypeOK'
  <2>1. refs' \in [Refs -> RefType]
    BY <1>0 DEF Restore, TypeOK, RefType
  <2>2. current' \in 0..MaxRefs
    BY <1>0, <1>1 DEF Ranges
  <2> QED BY <1>0, <1>3, <1>a, <2>1, <2>2 DEF TypeOK
<1>5. /\ Of(r) = 0 /\ adopted.ref # r /\ revival[r].at = "none"
      /\ \A q \in Sessions : sess[q].ref # r
      /\ \A k \in Killers : kills[k].at \notin {"none", "done"} => kills[k].ref # r
      /\ park.at # "none" => park.ref # r
  BY <1>0, <1>1 DEF FleetIInv, Referred, AdoptedUsed, RefsUsed, SessionsUsed, KillsUsed, ParkUsed, Ranges
<1> USE <1>0, <1>1, <1>2, <1>3, <1>5, <1>a DEF FleetIInv, Ranges
<1>6. NoOrphan'
  BY DEF NoOrphan, Live
<1>7. Referred'
  <2>1. CurrentUsed' /\ AdoptedUsed' /\ RefsUsed' /\ SessionsUsed'
    BY DEF Referred, CurrentUsed, AdoptedUsed, RefsUsed, SessionsUsed
  <2>2. KillsUsed' /\ ParkUsed'
    BY DEF Referred, KillsUsed, ParkUsed
  <2> QED BY ONLY <2>1, <2>2 DEF Referred
<1>8. AttachedOnce'
  <2>1. AttachedRight'
    BY DEF AttachedOnce, AttachedRight
  <2>2. LiveAttached'
    BY DEF AttachedOnce, LiveAttached, Referred, SessionsUsed
  <2>3. DisposingDue' /\ DisposingBy'
    BY DEF AttachedOnce, DisposingDue, DisposingBy, Referred, SessionsUsed
  <2>4. TurnsSeen'
    BY DEF AttachedOnce, TurnsSeen, Referred, SessionsUsed
  <2> QED BY ONLY <2>1, <2>2, <2>3, <2>4 DEF AttachedOnce
<1>9. RevivalsHeld'
  BY DEF RevivalsHeld, RevivalStarts, RevivalWires
<1>10. ParkHeld'
  BY DEF ParkHeld, ParkOwns, ParkDisposes, ParkRests, Referred, ParkUsed
<1>11. KillsHeld'
  <2>1. KillWaits'
    BY DEF KillsHeld, KillWaits, Referred, KillsUsed
  <2>2. KillTook'
    BY DEF KillsHeld, KillWaits, KillTook, Referred, KillsUsed
  <2>3. KillDisposes'
    BY DEF KillsHeld, KillDisposes, KillTook, Referred, KillsUsed
  <2> QED BY ONLY <2>1, <2>2, <2>3 DEF KillsHeld
<1>12. Listening'
  <2>1. AdoptedRan' /\ AdoptedLives'
    BY DEF Listening, AdoptedRan, AdoptedLives
  <2>2. ParkRegistered'
    BY DEF Listening, ParkRegistered, Referred, ParkUsed
  <2>3. ParkYields'
    BY DEF Listening, ParkYields, ParkRegistered, Referred, ParkUsed
  <2>4. IdleWillBeTimed'
    BY DEF Listening, IdleWillBeTimed
  <2> QED BY ONLY <2>1, <2>2, <2>3, <2>4 DEF Listening
<1>13. UnhurtAll'
  <2>1. Unhurt'
    BY DEF UnhurtAll, Unhurt, Listening, ParkRegistered, Referred, ParkUsed
  <2>2. UnhurtSessions'
    BY DEF UnhurtAll, Unhurt, UnhurtSessions
  <2>3. UnhurtSends'
    BY DEF UnhurtAll, Unhurt, UnhurtSends
  <2> QED BY ONLY <2>1, <2>2, <2>3 DEF UnhurtAll
<1> QED BY <1>4, <1>6, <1>7, <1>8, <1>9, <1>10, <1>11, <1>12, <1>13

(* A scan replaces a parked ref, which a park may still be disposing the    *)
(* session of and a revival may be building a new one for.                 *)
LEMMA ReplaceStep ==
    ASSUME FleetIInv, NEW r \in Refs, NEW status \in {"parked", "aborted"}, Replace(r, status)
    PROVE  FleetIInv'
<1>0. Ranges /\ TypeOK BY TypedRanges DEF FleetIInv
<1>1. /\ current # 0 /\ refs[current].status = "parked" /\ Of(current) = 0
      /\ current' = r /\ r # 0 /\ refs[r].status = "none" /\ current # r
  BY DEF Replace, Fresh, Status, Live
<1>b. /\ park.at # "yield" /\ \A m \in Messages : msgs[m].at \notin {"got", "kept", "unparked"}
      /\ \A k \in Killers : /\ kills[k].at # "ready"
                            /\ kills[k].at = "dispose" => sess[kills[k].session].at # "gone"
  BY DEF Replace, Drained
<1>d. park.at \in {"none", "dispose"}
  BY <1>0, <1>b DEF TypeOK, ParkType
<1>c. /\ adopted' \in {adopted, NoAdoption}
      /\ adopted' # adopted => adopted.ref = current
      /\ adopted.ref = current /\ ~disposed => adopted' = NoAdoption
  BY DEF Replace
<1>2. /\ \A q \in Refs : q # r => refs'[q] = refs[q]
      /\ refs'[r].status = status /\ refs'[r].session = refs[r].session
  BY <1>0 DEF Replace, TypeOK, RefType
<1>3. UNCHANGED <<sess, park, revival, disposed, kills, msgs, waiter, mailbox, faults>>
  BY DEF Replace, bus
<1>a. hurt' \in BOOLEAN /\ (~hurt' => ~hurt /\ status = "parked" /\ revival[current].at = "none")
  BY <1>0, Zenon DEF Replace, TypeOK
<1>4. TypeOK'
  <2>1. refs' \in [Refs -> RefType]
    BY <1>0 DEF Replace, TypeOK, RefType
  <2>2. current' \in 0..MaxRefs
    BY <1>0, <1>1 DEF Ranges
  <2>3. adopted' \in AdoptType
    BY <1>0, <1>c, RestTyped DEF TypeOK
  <2> QED BY <1>0, <1>3, <1>a, <2>1, <2>2, <2>3 DEF TypeOK
<1>5. /\ Of(r) = 0 /\ adopted.ref # r /\ revival[r].at = "none"
      /\ \A q \in Sessions : sess[q].ref # r
      /\ \A k \in Killers : kills[k].at \notin {"none", "done"} => kills[k].ref # r
      /\ park.at # "none" => park.ref # r
  BY <1>0, <1>1 DEF FleetIInv, Referred, AdoptedUsed, RefsUsed, SessionsUsed, KillsUsed, ParkUsed, Ranges
<1> USE <1>0, <1>1, <1>2, <1>3, <1>5, <1>a, <1>b, <1>c, <1>d DEF FleetIInv, Ranges, NoAdoption
<1>6. NoOrphan'
  BY DEF NoOrphan, Live
<1>7. Referred'
  <2>1. CurrentUsed' /\ AdoptedUsed' /\ RefsUsed' /\ SessionsUsed'
    BY DEF Referred, CurrentUsed, AdoptedUsed, RefsUsed, SessionsUsed
  <2>2. KillsUsed' /\ ParkUsed'
    BY DEF Referred, KillsUsed, ParkUsed
  <2> QED BY ONLY <2>1, <2>2 DEF Referred
<1>8. AttachedOnce'
  <2>1. AttachedRight'
    BY DEF AttachedOnce, AttachedRight
  <2>2. LiveAttached'
    BY DEF AttachedOnce, LiveAttached, Referred, SessionsUsed
  <2>3. DisposingDue' /\ DisposingBy'
    BY DEF AttachedOnce, DisposingDue, DisposingBy, Referred, SessionsUsed
  <2>4. TurnsSeen'
    BY DEF AttachedOnce, TurnsSeen, Referred, SessionsUsed
  <2> QED BY ONLY <2>1, <2>2, <2>3, <2>4 DEF AttachedOnce
<1>9. RevivalsHeld'
  BY DEF RevivalsHeld, RevivalStarts, RevivalWires
<1>10. ParkHeld'
  BY DEF ParkHeld, ParkOwns, ParkDisposes, ParkRests, Referred, ParkUsed
<1>11. KillsHeld'
  <2>1. KillWaits'
    BY DEF KillsHeld, KillWaits, Referred, KillsUsed
  <2>2. KillTook'
    BY DEF KillsHeld, KillWaits, KillTook, Referred, KillsUsed
  <2>3. KillDisposes'
    BY DEF KillsHeld, KillDisposes, KillTook, Referred, KillsUsed
  <2> QED BY ONLY <2>1, <2>2, <2>3 DEF KillsHeld
<1>12. Listening'
  <2>1. AdoptedRan' /\ AdoptedLives'
    BY DEF Listening, AdoptedRan, AdoptedLives
  <2>2. ParkRegistered'
    BY DEF Listening, ParkRegistered, Referred, ParkUsed
  <2>3. ParkYields'
    BY DEF Listening, ParkYields, ParkRegistered, Referred, ParkUsed
  <2>4. IdleWillBeTimed'
    BY DEF Listening, IdleWillBeTimed
  <2> QED BY ONLY <2>1, <2>2, <2>3, <2>4 DEF Listening
<1>13. UnhurtAll'
  <2>1. Unhurt'
    BY DEF UnhurtAll, Unhurt, Listening, ParkRegistered, Referred, ParkUsed
  <2>2. UnhurtSessions'
    BY DEF UnhurtAll, Unhurt, UnhurtSessions
  <2>3. UnhurtSends'
    BY DEF UnhurtAll, Unhurt, UnhurtSends
  <2> QED BY ONLY <2>1, <2>2, <2>3 DEF UnhurtAll
<1> QED BY <1>4, <1>6, <1>7, <1>8, <1>9, <1>10, <1>11, <1>12, <1>13

(* A parked ref that nothing owns is reclaimed. *)
LEMMA ReclaimStep ==
    ASSUME FleetIInv, Reclaim
    PROVE  FleetIInv'
<1>0. Ranges /\ TypeOK BY TypedRanges DEF FleetIInv
<1>1. /\ current' = 0 /\ park.at = "none" /\ adopted.ref = 0
      /\ current # 0 /\ Of(current) = 0 /\ revival[current].at = "none"
      /\ \A m \in Messages : msgs[m].at \notin {"got", "kept", "unparked"}
  BY DEF Reclaim, Live, Status, Has, Drained
<1>2. UNCHANGED <<refs, sess, adopted, park, revival, disposed, kills, msgs, waiter, mailbox, faults, hurt>>
  BY DEF Reclaim, bus, history
<1>3. TypeOK'
  BY <1>0, <1>1, <1>2 DEF TypeOK, Ranges
<1> USE <1>0, <1>1, <1>2 DEF FleetIInv, Ranges
<1>4. NoOrphan'
  BY DEF NoOrphan, Live
<1>5. Referred'
  <2>1. CurrentUsed' /\ AdoptedUsed' /\ RefsUsed' /\ SessionsUsed'
    BY DEF Referred, CurrentUsed, AdoptedUsed, RefsUsed, SessionsUsed
  <2>2. KillsUsed' /\ ParkUsed'
    BY DEF Referred, KillsUsed, ParkUsed
  <2> QED BY ONLY <2>1, <2>2 DEF Referred
<1>6. AttachedOnce'
  <2>1. AttachedRight'
    BY DEF AttachedOnce, AttachedRight
  <2>2. LiveAttached'
    BY DEF AttachedOnce, LiveAttached, Referred, SessionsUsed
  <2>3. DisposingDue' /\ DisposingBy'
    BY DEF AttachedOnce, DisposingDue, DisposingBy, Referred, SessionsUsed
  <2>4. TurnsSeen'
    BY DEF AttachedOnce, TurnsSeen, Referred, SessionsUsed
  <2> QED BY ONLY <2>1, <2>2, <2>3, <2>4 DEF AttachedOnce
<1>7. RevivalsHeld'
  BY DEF RevivalsHeld, RevivalStarts, RevivalWires
<1>8. ParkHeld'
  BY DEF ParkHeld, ParkOwns, ParkDisposes, ParkRests, Referred, ParkUsed
<1>9. KillsHeld'
  <2>1. KillWaits'
    BY DEF KillsHeld, KillWaits, Referred, KillsUsed
  <2>2. KillTook'
    BY DEF KillsHeld, KillWaits, KillTook, Referred, KillsUsed
  <2>3. KillDisposes'
    BY DEF KillsHeld, KillDisposes, KillTook, Referred, KillsUsed
  <2> QED BY ONLY <2>1, <2>2, <2>3 DEF KillsHeld
<1>10. Listening'
  <2>1. AdoptedRan' /\ AdoptedLives'
    BY DEF Listening, AdoptedRan, AdoptedLives
  <2>2. ParkRegistered'
    BY DEF Listening, ParkRegistered, Referred, ParkUsed
  <2>3. ParkYields'
    BY DEF Listening, ParkYields, ParkRegistered, Referred, ParkUsed
  <2>4. IdleWillBeTimed'
    BY DEF Listening, IdleWillBeTimed
  <2> QED BY ONLY <2>1, <2>2, <2>3, <2>4 DEF Listening
<1>11. UnhurtAll'
  <2>1. Unhurt'
    BY DEF UnhurtAll, Unhurt
  <2>2. UnhurtSessions'
    BY DEF UnhurtAll, Unhurt, UnhurtSessions
  <2>3. UnhurtSends'
    BY DEF UnhurtAll, Unhurt, UnhurtSends, ParkHeld, ParkRests
  <2> QED BY ONLY <2>1, <2>2, <2>3 DEF UnhurtAll
<1> QED BY <1>3, <1>4, <1>5, <1>6, <1>7, <1>8, <1>9, <1>10, <1>11

(* A wait of the recipient touches its mailbox and its waiter only. *)
LEMMA BusStep ==
    ASSUME FleetIInv, waiter' \in BOOLEAN, mailbox' \subseteq Messages,
           UNCHANGED <<current, refs, sess, adopted, park, revival, disposed, kills, msgs, hurt>>
    PROVE  FleetIInv'
<1>1. TypeOK'
  BY DEF FleetIInv, TypeOK
<1>2. NoOrphan' /\ Referred' /\ AttachedOnce' /\ RevivalsHeld' /\ ParkHeld'
  BY DEF FleetIInv, NoOrphan, Live, Referred, CurrentUsed, AdoptedUsed, RefsUsed, SessionsUsed, KillsUsed,
     ParkUsed, AttachedOnce, AttachedRight, LiveAttached, DisposingDue, DisposingBy, TurnsSeen,
     RevivalsHeld, RevivalStarts, RevivalWires, ParkHeld, ParkOwns, ParkDisposes, ParkRests
<1>3. KillsHeld' /\ Listening' /\ UnhurtAll'
  BY DEF FleetIInv, KillsHeld, KillWaits, KillTook, KillDisposes, Listening, AdoptedRan, AdoptedLives,
     ParkRegistered, ParkYields, IdleWillBeTimed, UnhurtAll, Unhurt, UnhurtSessions, UnhurtSends
<1> QED BY <1>1, <1>2, <1>3 DEF FleetIInv

(* The idle timer fires: a park begins, or the ref was not to be parked. *)
LEMMA TimerStep ==
    ASSUME FleetIInv, TimerFires
    PROVE  FleetIInv'
<1>0. Ranges /\ TypeOK BY TypedRanges DEF FleetIInv
<1>1. /\ adopted.timer /\ ~adopted'.timer
      /\ adopted'.ref = adopted.ref /\ adopted'.revive = adopted.revive
      /\ park.at # "none" => adopted'.missed
  BY <1>0 DEF TimerFires, TypeOK, AdoptType
<1>2. \/ park' = park /\ (park.at # "none" \/ adopted.ref # current \/ current = 0 \/ Of(current) = 0)
      \/ /\ park.at = "none" /\ adopted.ref = current /\ current # 0 /\ Of(current) # 0
         /\ park'.at = "yield" /\ park'.ref = current /\ park'.session = Of(current)
         /\ ~park'.cancelled
  BY <1>0 DEF TimerFires, TypeOK, ParkType, Live
<1>3. UNCHANGED <<current, refs, sess, revival, disposed, kills, msgs, waiter, mailbox, faults, hurt>>
  BY DEF TimerFires, registry, bus, history
<1>4. /\ \A m \in Messages : msgs[m].at \notin {"got", "kept", "unparked"}
      /\ \A k \in Killers : /\ kills[k].at # "ready"
                            /\ kills[k].at = "dispose" => sess[kills[k].session].at # "gone"
  BY DEF TimerFires, Drained
<1>5. TypeOK'
  <2>1. adopted' \in AdoptType BY <1>0 DEF TimerFires, TypeOK, AdoptType
  <2>2. Live \in 0..MaxSessions BY <1>0 DEF Ranges, Live
  <2>3. park' \in ParkType BY <1>0, <2>2 DEF TimerFires, TypeOK, ParkType, Ranges
  <2> QED BY <1>0, <1>3, <2>1, <2>3 DEF TypeOK
<1> USE <1>0, <1>1, <1>2, <1>3, <1>4 DEF FleetIInv, Ranges
<1>6. NoOrphan'
  BY DEF NoOrphan, Live
<1>7. Referred'
  <2>1. CurrentUsed' /\ AdoptedUsed' /\ RefsUsed' /\ SessionsUsed'
    BY DEF Referred, CurrentUsed, AdoptedUsed, RefsUsed, SessionsUsed
  <2>2. KillsUsed' /\ ParkUsed'
    BY DEF Referred, KillsUsed, ParkUsed, AttachedOnce, AttachedRight, CurrentUsed
  <2> QED BY ONLY <2>1, <2>2 DEF Referred
<1>8. AttachedOnce'
  <2>1. AttachedRight'
    BY DEF AttachedOnce, AttachedRight
  <2>2. LiveAttached'
    BY DEF AttachedOnce, LiveAttached, Referred, SessionsUsed
  <2>3. DisposingDue' /\ DisposingBy'
    BY DEF AttachedOnce, DisposingDue, DisposingBy, Referred, SessionsUsed,
       ParkDisposes, ParkHeld
  <2>4. TurnsSeen'
    BY DEF AttachedOnce, TurnsSeen, Referred, SessionsUsed
  <2> QED BY ONLY <2>1, <2>2, <2>3, <2>4 DEF AttachedOnce
<1>9. RevivalsHeld'
  BY DEF RevivalsHeld, RevivalStarts, RevivalWires
<1>10. ParkHeld'
  BY DEF ParkHeld, ParkOwns, ParkDisposes, ParkRests, Referred, ParkUsed, Listening,
     AdoptedRan, RevivalsHeld, RevivalStarts
<1>11. KillsHeld'
  <2>1. KillWaits'
    <3> SUFFICES ASSUME NEW k \in Killers PROVE KillWaits!(k)'
      BY DEF KillWaits
    <3>1. KillWaits!(k) BY DEF KillsHeld, KillWaits
    <3>2. kills[k].at \in {"parking", "ready"} => kills[k].ref \in Refs
      BY DEF Referred, KillsUsed
    <3> QED BY <3>1, <3>2
  <2>2. KillTook'
    <3> SUFFICES ASSUME NEW k \in Killers PROVE KillTook!(k)'
      BY DEF KillTook
    <3>1. KillTook!(k) /\ KillWaits!(k) /\ KillDisposes!(k)
      BY DEF KillsHeld, KillTook, KillWaits, KillDisposes
    <3>2. kills[k].session # 0 => kills[k].ref \in Refs /\ kills[k].session \in Sessions
      BY DEF Referred, KillsUsed, KillsHeld, KillWaits
    <3> QED BY <3>1, <3>2 DEF AttachedOnce, AttachedRight
  <2>3. KillDisposes'
    <3> SUFFICES ASSUME NEW k \in Killers PROVE KillDisposes!(k)'
      BY DEF KillDisposes
    <3>1. KillDisposes!(k) /\ KillTook!(k)
      BY DEF KillsHeld, KillDisposes, KillTook
    <3>2. kills[k].at = "dispose" => kills[k].ref \in Refs /\ kills[k].session \in Sessions
      BY DEF Referred, KillsUsed, KillsHeld, KillDisposes
    <3> QED BY <3>1, <3>2
  <2> QED BY ONLY <2>1, <2>2, <2>3 DEF KillsHeld
<1>12. Listening'
  <2>1. AdoptedRan' /\ AdoptedLives'
    BY DEF Listening, AdoptedRan, AdoptedLives
  <2>2. ParkRegistered'
    BY DEF Listening, ParkRegistered, Referred, ParkUsed
  <2>3. ParkYields'
    BY DEF Listening, ParkYields, ParkRegistered, Referred, ParkUsed, AdoptedLives,
       RevivalsHeld, RevivalStarts, RevivalWires
  <2>4. IdleWillBeTimed'
    BY DEF Listening, IdleWillBeTimed
  <2> QED BY ONLY <2>1, <2>2, <2>3, <2>4 DEF Listening
<1>13. UnhurtAll'
  <2>1. Unhurt'
    BY DEF UnhurtAll, Unhurt
  <2>2. UnhurtSessions'
    BY DEF UnhurtAll, Unhurt, UnhurtSessions
  <2>3. UnhurtSends'
    BY DEF UnhurtAll, Unhurt, UnhurtSends
  <2> QED BY ONLY <2>1, <2>2, <2>3 DEF UnhurtAll
<1> QED BY <1>5, <1>6, <1>7, <1>8, <1>9, <1>10, <1>11, <1>12, <1>13

(* The first run of an agent that is kept ends, and it is adopted. *)
LEMMA KeptStep ==
    ASSUME FleetIInv, NEW s \in Sessions, Finish(s, "kept"),
           current = sess[s].ref, refs[sess[s].ref].session = s
    PROVE  FleetIInv'
<1> DEFINE r == sess[s].ref
<1>0. Ranges /\ TypeOK BY TypedRanges DEF FleetIInv
<1>1. sess[s].at = "live" /\ sess[s].by = "first"
  BY DEF Finish
<1>2. r # 0 /\ r \in Refs
  BY <1>0, <1>1 DEF FleetIInv, Referred, SessionsUsed, Ranges
<1>3. /\ \A q \in Sessions : q # s => sess'[q] = sess[q]
      /\ sess'[s].at = "live" /\ sess'[s].ref = r /\ sess'[s].synced = sess[s].synced
      /\ ~sess'[s].turn /\ sess'[s].early = sess[s].early /\ sess'[s].by = "none"
  BY <1>0, <1>1 DEF Finish, TypeOK, SessionType
<1>4. /\ \A q \in Refs : q # r => refs'[q] = refs[q]
      /\ refs'[r].status = "idle" /\ refs'[r].session = s
  BY <1>0, <1>2 DEF Finish, TypeOK, RefType
<1>5. adopted' = [ref |-> r, revive |-> TRUE, timer |-> TRUE, missed |-> FALSE]
  BY DEF Finish, Adopted
<1>6. adopted'.ref = r /\ adopted'.revive /\ adopted'.timer
  BY <1>5
<1>7. UNCHANGED <<current, park, revival, disposed, kills, msgs, waiter, mailbox, faults, hurt>>
  BY DEF Finish, bus
<1>8. TypeOK'
  <2>1. refs' \in [Refs -> RefType] /\ sess' \in [Sessions -> SessionType]
    BY <1>0, <1>2 DEF Finish, TypeOK, RefType, SessionType
  <2>2. adopted' \in AdoptType
    BY <1>0, <1>5 DEF AdoptType, Ranges
  <2> QED BY <1>0, <1>7, <2>1, <2>2 DEF TypeOK
<1>9. /\ park.at # "none" => park.ref # r
      /\ ~Aborted(r)
      /\ revival[r].at = "none"
      /\ \A q \in Refs : revival[q].at = "wiring" => revival[q].session # s
      /\ \A k \in Killers : kills[k].at \in {"parking", "ready"} => kills[k].ref # r
  <2>1. /\ park.at # "none" => park.ref # r
        /\ ~Aborted(r)
    BY <1>0, <1>1, <1>2 DEF FleetIInv, ParkHeld, ParkOwns, AttachedOnce, AttachedRight
  <2>2. /\ revival[r].at = "none"
        /\ \A q \in Refs : revival[q].at = "wiring" => revival[q].session # s
    BY <1>0, <1>1, <1>2 DEF FleetIInv, RevivalsHeld, RevivalStarts, RevivalWires, Ranges
  <2>3. \A k \in Killers : kills[k].at \in {"parking", "ready"} => kills[k].ref # r
    BY <1>0, <1>1, <1>2 DEF FleetIInv, KillsHeld, KillWaits
  <2> QED BY <2>1, <2>2, <2>3
<1> USE <1>0, <1>1, <1>2, <1>3, <1>4, <1>6, <1>7, <1>9 DEF FleetIInv, Ranges
<1>10. NoOrphan'
  BY DEF NoOrphan, Live
<1>11. Referred'
  <2>1. CurrentUsed' /\ AdoptedUsed' /\ RefsUsed' /\ SessionsUsed'
    BY SMTT(30) DEF Referred, CurrentUsed, AdoptedUsed, RefsUsed, SessionsUsed
  <2>2. KillsUsed' /\ ParkUsed'
    BY DEF Referred, KillsUsed, ParkUsed
  <2> QED BY ONLY <2>1, <2>2 DEF Referred
<1>12. AttachedOnce'
  <2>1. AttachedRight'
    BY DEF AttachedOnce, AttachedRight
  <2>2. LiveAttached'
    BY SMTT(30) DEF AttachedOnce, LiveAttached, Referred, SessionsUsed
  <2>3. DisposingDue' /\ DisposingBy'
    BY DEF AttachedOnce, DisposingDue, DisposingBy, Referred, SessionsUsed
  <2>4. TurnsSeen'
    BY DEF AttachedOnce, TurnsSeen, Referred, SessionsUsed
  <2> QED BY ONLY <2>1, <2>2, <2>3, <2>4 DEF AttachedOnce
<1>13. RevivalsHeld'
  BY SMTT(30) DEF RevivalsHeld, RevivalStarts, RevivalWires
<1>14. ParkHeld'
  BY DEF ParkHeld, ParkOwns, ParkDisposes, ParkRests, Referred, ParkUsed
<1>15. KillsHeld'
  <2>1. KillWaits'
    BY DEF KillsHeld, KillWaits, Referred, KillsUsed
  <2>2. KillTook'
    BY DEF KillsHeld, KillWaits, KillTook, Referred, KillsUsed
  <2>3. KillDisposes'
    BY DEF KillsHeld, KillDisposes, KillTook, Referred, KillsUsed
  <2> QED BY ONLY <2>1, <2>2, <2>3 DEF KillsHeld
<1>16. Listening'
  <2>1. AdoptedRan' /\ AdoptedLives'
    BY DEF Listening, AdoptedRan, AdoptedLives
  <2>2. ParkRegistered'
    BY DEF Listening, ParkRegistered, Referred, ParkUsed
  <2>3. ParkYields'
    BY DEF Listening, ParkYields, ParkRegistered, Referred, ParkUsed
  <2>4. IdleWillBeTimed'
    BY DEF Listening, IdleWillBeTimed
  <2> QED BY ONLY <2>1, <2>2, <2>3, <2>4 DEF Listening
<1>17. UnhurtAll'
  <2>1. Unhurt'
    BY DEF UnhurtAll, Unhurt
  <2>2. UnhurtSessions'
    BY DEF UnhurtAll, Unhurt, UnhurtSessions
  <2>3. UnhurtSends'
    BY DEF UnhurtAll, Unhurt, UnhurtSends
  <2> QED BY ONLY <2>1, <2>2, <2>3 DEF UnhurtAll
<1> QED BY <1>8, <1>10, <1>11, <1>12, <1>13, <1>14, <1>15, <1>16, <1>17

(* The first run of an agent that is not kept ends: it is disposed. *)
LEMMA EndsStep ==
    ASSUME FleetIInv, NEW s \in Sessions, NEW how \in {"kept", "one-shot", "isolated"}, Finish(s, how),
           how = "kept" => ~(current = sess[s].ref /\ refs[sess[s].ref].session = s)
    PROVE  FleetIInv'
<1> DEFINE r == sess[s].ref
<1>0. Ranges /\ TypeOK BY TypedRanges DEF FleetIInv
<1>1. sess[s].at = "live" /\ sess[s].by = "first"
  BY DEF Finish
<1>2. r # 0 /\ r \in Refs
  BY <1>0, <1>1 DEF FleetIInv, Referred, SessionsUsed, Ranges
<1>3. sess' = BeginDispose(s, how)
  BY DEF Finish
<1>4. /\ \A q \in Sessions : q # s => sess'[q] = sess[q]
      /\ sess'[s].at = "disposing" /\ sess'[s].ref = r /\ sess'[s].by = how
  BY <1>0, <1>3, DisposalBegins DEF TypeOK
<1>5. /\ \A q \in Refs : q # r => refs'[q] = refs[q]
      /\ refs'[r].session = refs[r].session
      /\ refs'[r].status # refs[r].status =>
           refs'[r].status = "parked" /\ current = r /\ refs[r].session = s
  BY <1>0, <1>2 DEF Finish, TypeOK, RefType
<1>6. UNCHANGED <<current, adopted, park, revival, disposed, kills, msgs, waiter, mailbox, faults>> /\ hurt'
  BY DEF Finish, bus
<1>7. TypeOK'
  <2>1. sess' \in [Sessions -> SessionType]
    BY <1>0, <1>3, DisposalBegins DEF TypeOK
  <2>2. refs' \in [Refs -> RefType]
    BY <1>0, <1>2 DEF Finish, TypeOK, RefType
  <2> QED BY <1>0, <1>6, <2>1, <2>2 DEF TypeOK
<1>8. /\ (Of(r) = s /\ ~Aborted(r)) \/ (Of(r) = 0 /\ Aborted(r))
      /\ Of(r) = s /\ park.at # "none" => park.ref # r
      /\ adopted.ref = r => Of(r) # s
      /\ \A q \in Refs : revival[q].at = "wiring" => revival[q].session # s
      /\ \A k \in Killers : kills[k].at = "dispose" => kills[k].session # s
  BY <1>0, <1>1, <1>2 DEF FleetIInv, AttachedOnce, LiveAttached, AttachedRight, Listening, AdoptedRan, ParkHeld, ParkOwns,
     RevivalsHeld, RevivalWires, KillsHeld, KillDisposes, Ranges
<1>9. park.at # "none" => park.session # s
  BY <1>0, <1>1, <1>2 DEF FleetIInv, ParkHeld, ParkOwns
<1> USE <1>0, <1>1, <1>2, <1>4, <1>5, <1>6, <1>8, <1>9 DEF FleetIInv, Ranges
<1>10. NoOrphan'
  BY DEF NoOrphan, Live
<1>11. Referred'
  <2>1. CurrentUsed' /\ AdoptedUsed' /\ RefsUsed' /\ SessionsUsed'
    BY SMTT(30) DEF Referred, CurrentUsed, AdoptedUsed, RefsUsed, SessionsUsed
  <2>2. KillsUsed' /\ ParkUsed'
    BY DEF Referred, KillsUsed, ParkUsed
  <2> QED BY ONLY <2>1, <2>2 DEF Referred
<1>12. AttachedOnce'
  <2>1. AttachedRight'
    BY DEF AttachedOnce, AttachedRight
  <2>2. LiveAttached'
    BY DEF AttachedOnce, LiveAttached, Referred, SessionsUsed
  <2>3. DisposingDue' /\ DisposingBy'
    BY DEF AttachedOnce, DisposingDue, DisposingBy, Referred, SessionsUsed
  <2>4. TurnsSeen'
    BY DEF AttachedOnce, TurnsSeen, Referred, SessionsUsed
  <2> QED BY ONLY <2>1, <2>2, <2>3, <2>4 DEF AttachedOnce
<1>13. RevivalsHeld'
  BY DEF RevivalsHeld, RevivalStarts, RevivalWires
<1>14. ParkHeld'
  BY DEF ParkHeld, ParkOwns, ParkDisposes, ParkRests, Referred, ParkUsed
<1>15. KillsHeld'
  <2>1. KillWaits'
    BY SMTT(30) DEF KillsHeld, KillWaits, Referred, KillsUsed
  <2>2. KillTook'
    BY DEF KillsHeld, KillWaits, KillTook, Referred, KillsUsed
  <2>3. KillDisposes'
    BY SMTT(30) DEF KillsHeld, KillDisposes, KillTook, Referred, KillsUsed
  <2> QED BY ONLY <2>1, <2>2, <2>3 DEF KillsHeld
<1>16. Listening'
  <2>1. AdoptedRan' /\ AdoptedLives'
    BY SMTT(30) DEF Listening, AdoptedRan, AdoptedLives
  <2>2. ParkRegistered'
    BY DEF Listening, ParkRegistered, Referred, ParkUsed
  <2>3. ParkYields'
    BY DEF Listening, ParkYields, ParkRegistered, Referred, ParkUsed
  <2>4. IdleWillBeTimed'
    BY DEF Listening, IdleWillBeTimed
  <2> QED BY ONLY <2>1, <2>2, <2>3, <2>4 DEF Listening
<1>17. UnhurtAll'
  <2>1. Unhurt'
    BY DEF UnhurtAll, Unhurt
  <2>2. UnhurtSessions'
    BY DEF UnhurtAll, Unhurt, UnhurtSessions
  <2>3. UnhurtSends'
    BY DEF UnhurtAll, Unhurt, UnhurtSends
  <2> QED BY ONLY <2>1, <2>2, <2>3 DEF UnhurtAll
<1> QED BY <1>7, <1>10, <1>11, <1>12, <1>13, <1>14, <1>15, <1>16, <1>17

(* What a session changes when it reports its run state: the status of the *)
(* ref it is attached to, if that is registered and not dead, and then the *)
(* timer.                                                                  *)
LEMMA RunStateEffect ==
    ASSUME TypeOK, NEW s \in Sessions, sess[s].ref \in Refs, NEW st \in {"running", "idle"},
           SetRunState(s, st)
    PROVE  LET r == sess[s].ref
               changed == refs'[r].status # refs[r].status
           IN
           /\ refs' \in [Refs -> RefType] /\ adopted' \in AdoptType
           /\ \A q \in Refs : q # r => refs'[q] = refs[q]
           /\ refs'[r].session = refs[r].session
           /\ changed => /\ refs'[r].status = st
                         /\ sess[s].synced /\ current = r /\ refs[r].session = s /\ ~Aborted(r)
           /\ sess[s].synced /\ current = r /\ refs[r].session = s /\ ~Aborted(r) => refs'[r].status = st
           /\ adopted'.ref = adopted.ref /\ adopted'.revive = adopted.revive
           /\ changed /\ ~disposed /\ adopted.ref = r =>
                /\ st = "running" => ~adopted'.timer
                /\ st = "idle" /\ park.at = "none" => adopted'.timer
           /\ adopted'.timer /\ ~adopted.timer => changed /\ st = "idle" /\ park.at = "none"
           /\ adopted.timer /\ ~adopted'.timer => changed /\ st = "running"
           /\ adopted' # adopted => changed /\ adopted.ref = r
<1> DEFINE r == sess[s].ref
           may == sess[s].synced /\ current = r /\ refs[r].session = s /\ refs[r].status \notin {"aborted", st}
<1>1. CASE ~may
  <2>1. UNCHANGED <<refs, adopted>>
    BY <1>1 DEF SetRunState
  <2> QED BY <1>1, <2>1 DEF TypeOK
<1>2. CASE may
  <2>1. refs' = [refs EXCEPT ![r].status = st] /\ adopted' = Timed(adopted, r, st)
    BY <1>2 DEF SetRunState
  <2>2. /\ refs' \in [Refs -> RefType]
        /\ \A q \in Refs : q # r => refs'[q] = refs[q]
        /\ refs'[r].session = refs[r].session /\ refs'[r].status = st
    BY <2>1 DEF TypeOK, RefType
  <2>3. adopted' \in AdoptType /\ adopted'.ref = adopted.ref /\ adopted'.revive = adopted.revive
    BY <2>1 DEF Timed, TypeOK, AdoptType
  <2>4. /\ ~disposed /\ adopted.ref = r =>
             /\ st = "running" => ~adopted'.timer
             /\ st = "idle" /\ park.at = "none" => adopted'.timer
        /\ adopted'.timer /\ ~adopted.timer => st = "idle" /\ park.at = "none"
        /\ adopted.timer /\ ~adopted'.timer => st = "running"
        /\ adopted' # adopted => adopted.ref = r
    BY <2>1 DEF Timed, TypeOK, AdoptType
  <2> QED BY <1>2, <2>2, <2>3, <2>4
<1> QED BY <1>1, <1>2

(* A turn of a live session starts or ends, and the session reports it.  A *)
(* turn starts only for a send that holds the session, or for an agent     *)
(* nobody has adopted.                                                     *)
LEMMA RunStep ==
    ASSUME FleetIInv, NEW s \in Sessions, NEW st \in {"running", "idle"}, SetRunState(s, st),
           TypeOK', sess[s].at = "live",
           \A q \in Sessions : q # s => sess'[q] = sess[q],
           /\ sess'[s].at = "live" /\ sess'[s].ref = sess[s].ref
           /\ sess'[s].synced = sess[s].synced /\ sess'[s].by = sess[s].by
           /\ sess'[s].turn => st = "running" /\ (sess[s].synced \/ sess'[s].early),
           st = "running" => /\ current = sess[s].ref /\ refs[current].session = s
                             /\ adopted.ref = 0 \/ \E m \in Messages : msgs[m].at = "got",
           \A m \in Messages : \/ msgs'[m] = msgs[m]
                               \/ /\ msgs[m].at \in {"new", "got"}
                                  /\ msgs'[m].at = "done" /\ msgs'[m].receipt # "failed",
           UNCHANGED <<current, park, revival, disposed, kills, hurt>>
    PROVE  FleetIInv'
<1> DEFINE r == sess[s].ref
<1>0. Ranges /\ TypeOK BY TypedRanges DEF FleetIInv
<1>1. r # 0 /\ r \in Refs
  BY <1>0 DEF FleetIInv, Referred, SessionsUsed, Ranges
<1>2. TypeOK'
  OBVIOUS
<1>3. /\ \A q \in Refs : q # r => refs'[q] = refs[q]
      /\ refs'[r].session = refs[r].session
      /\ refs'[r].status # refs[r].status =>
           /\ refs'[r].status = st
           /\ sess[s].synced /\ current = r /\ refs[r].session = s /\ ~Aborted(r)
      /\ sess[s].synced /\ current = r /\ refs[r].session = s /\ ~Aborted(r) => refs'[r].status = st
  BY <1>0, <1>1, RunStateEffect
<1>4. /\ adopted'.ref = adopted.ref /\ adopted'.revive = adopted.revive
      /\ refs'[r].status # refs[r].status /\ ~disposed /\ adopted.ref = r =>
           /\ st = "running" => ~adopted'.timer
           /\ st = "idle" /\ park.at = "none" => adopted'.timer
      /\ adopted'.timer /\ ~adopted.timer => refs'[r].status = "idle" /\ current = r /\ park.at = "none"
      /\ adopted.timer /\ ~adopted'.timer => refs'[r].status = "running" /\ current = r
      /\ adopted' # adopted => refs'[r].status # refs[r].status /\ adopted.ref = r
  BY <1>0, <1>1, RunStateEffect
<1>5. (Of(r) = s /\ ~Aborted(r)) \/ (Of(r) = 0 /\ Aborted(r))
  <2>0. s # 0 BY <1>0 DEF Ranges
  <2>1. Of(r) = s \/ Aborted(r) BY DEF FleetIInv, AttachedOnce, LiveAttached
  <2>2. Of(r) # 0 => ~Aborted(r) BY <1>1 DEF FleetIInv, AttachedOnce, AttachedRight
  <2> QED BY ONLY <2>0, <2>1, <2>2
<1> USE <1>0, <1>1, <1>3, <1>4, <1>5 DEF FleetIInv, Ranges
<1>6. NoOrphan'
  BY DEF NoOrphan, Live
<1>7. Referred'
  <2>1. CurrentUsed' /\ AdoptedUsed' /\ RefsUsed' /\ SessionsUsed'
    <3>1. \A q \in Refs : Used(q)' <=> Used(q)
      BY DEF Referred, SessionsUsed
    <3>2. CurrentUsed' /\ AdoptedUsed'
      BY <3>1 DEF Referred, CurrentUsed, AdoptedUsed
    <3>3. RefsUsed' /\ SessionsUsed'
      BY <3>1 DEF Referred, RefsUsed, SessionsUsed
    <3> QED BY ONLY <3>2, <3>3
  <2>2. KillsUsed' /\ ParkUsed'
    BY DEF Referred, KillsUsed, ParkUsed
  <2> QED BY ONLY <2>1, <2>2 DEF Referred
<1>8. AttachedOnce'
  <2>1. AttachedRight'
    BY DEF AttachedOnce, AttachedRight
  <2>2. LiveAttached'
    BY DEF AttachedOnce, LiveAttached, Referred, SessionsUsed
  <2>3. DisposingDue' /\ DisposingBy'
    BY DEF AttachedOnce, DisposingDue, DisposingBy, Referred, SessionsUsed
  <2>4. TurnsSeen'
    BY SMTT(30) DEF AttachedOnce, TurnsSeen, Referred, SessionsUsed
  <2> QED BY ONLY <2>1, <2>2, <2>3, <2>4 DEF AttachedOnce
<1>9. RevivalsHeld'
  BY SMTT(30) DEF RevivalsHeld, RevivalStarts, RevivalWires
<1>10. ParkHeld'
  BY DEF ParkHeld, ParkOwns, ParkDisposes, ParkRests, Referred, ParkUsed
<1>11. KillsHeld'
  <2>1. KillWaits'
    BY SMTT(30) DEF KillsHeld, KillWaits, Referred, KillsUsed
  <2>2. KillTook'
    BY DEF KillsHeld, KillWaits, KillTook, Referred, KillsUsed
  <2>3. KillDisposes'
    BY SMTT(30) DEF KillsHeld, KillDisposes, KillTook, Referred, KillsUsed
  <2> QED BY ONLY <2>1, <2>2, <2>3 DEF KillsHeld
<1>12. Listening'
  <2>1. AdoptedRan' /\ AdoptedLives'
    BY SMTT(30) DEF Listening, AdoptedRan, AdoptedLives
  <2>2. ParkRegistered'
    BY DEF Listening, ParkRegistered, Referred, ParkUsed
  <2>3. ParkYields'
    BY DEF Listening, ParkYields, ParkRegistered, Referred, ParkUsed
  <2>4. IdleWillBeTimed'
    BY DEF Listening, IdleWillBeTimed, ParkRegistered
  <2> QED BY ONLY <2>1, <2>2, <2>3, <2>4 DEF Listening
<1>13. UnhurtAll'
  <2>1. Unhurt'
    BY DEF UnhurtAll, Unhurt
  <2>2. UnhurtSessions'
    BY DEF UnhurtAll, Unhurt, UnhurtSessions
  <2>3. UnhurtSends'
    BY DEF UnhurtAll, Unhurt, UnhurtSends
  <2> QED BY ONLY <2>1, <2>2, <2>3 DEF UnhurtAll
<1> QED BY <1>2, <1>6, <1>7, <1>8, <1>9, <1>10, <1>11, <1>12, <1>13

(* A woken turn ends. *)
LEMMA TurnEndsStep ==
    ASSUME FleetIInv, NEW s \in Sessions, TurnEnds(s)
    PROVE  FleetIInv'
<1>1. /\ sess' \in [Sessions -> SessionType]
      /\ \A q \in Sessions : q # s => sess'[q] = sess[q]
      /\ sess'[s].at = "live" /\ sess'[s].ref = sess[s].ref
      /\ sess'[s].synced = sess[s].synced /\ sess'[s].by = sess[s].by /\ ~sess'[s].turn
  BY DEF TurnEnds, FleetIInv, TypeOK, SessionType
<1>2. /\ sess[s].at = "live" /\ SetRunState(s, "idle")
      /\ UNCHANGED <<current, park, revival, disposed, kills, msgs, waiter, mailbox, hurt>>
  BY DEF TurnEnds, bus, history
<1>3. TypeOK'
  <2>1. sess[s].ref \in Refs
    BY <1>2, TypedRanges DEF FleetIInv, Referred, SessionsUsed, Ranges
  <2> QED BY <1>1, <1>2, <2>1, RunStateEffect DEF FleetIInv, TypeOK
<1> QED BY <1>1, <1>2, <1>3, RunStep

(* What the end of a park changes: who awaited it goes on. *)
LEMMA ParkOverEffect ==
    ASSUME TypeOK, ParkOver
    PROVE  /\ park' = NoPark /\ park'.at = "none" /\ ~park'.cancelled
           /\ msgs' \in [Messages -> SendType] /\ kills' \in [Killers -> KillType]
           /\ \A m \in Messages :
                /\ msgs'[m].ref = msgs[m].ref /\ msgs'[m].receipt = msgs[m].receipt
                /\ msgs[m].at = "cancelling" => msgs'[m].at = "kept"
                /\ msgs[m].at = "parking" => msgs'[m].at = "unparked"
                /\ msgs[m].at \notin {"cancelling", "parking"} => msgs'[m] = msgs[m]
           /\ \A k \in Killers :
                /\ kills[k].at # "parking" => kills'[k] = kills[k]
                /\ kills'[k].how = kills[k].how /\ kills'[k].ref = kills[k].ref
                /\ kills'[k].session = kills[k].session
                /\ kills[k].at = "parking" => kills'[k].at = "ready"
<1>1. park' = NoPark /\ park'.at = "none" /\ ~park'.cancelled
  BY DEF ParkOver, NoPark
<1>2. /\ \A x \in SendType : /\ [x EXCEPT !.at = "kept"] \in SendType
                             /\ [x EXCEPT !.at = "unparked"] \in SendType
      /\ \A x \in KillType : [x EXCEPT !.at = "ready"] \in KillType
  BY DEF SendType, KillType
<1>3. msgs' \in [Messages -> SendType] /\ kills' \in [Killers -> KillType]
  BY <1>2 DEF ParkOver, TypeOK
<1>4. \A m \in Messages :
        /\ msgs'[m].ref = msgs[m].ref /\ msgs'[m].receipt = msgs[m].receipt
        /\ msgs[m].at = "cancelling" => msgs'[m].at = "kept"
        /\ msgs[m].at = "parking" => msgs'[m].at = "unparked"
        /\ msgs[m].at \notin {"cancelling", "parking"} => msgs'[m] = msgs[m]
  BY DEF ParkOver, TypeOK, SendType
<1>5. \A k \in Killers :
        /\ kills[k].at # "parking" => kills'[k] = kills[k]
        /\ kills'[k].how = kills[k].how /\ kills'[k].ref = kills[k].ref
        /\ kills'[k].session = kills[k].session
        /\ kills[k].at = "parking" => kills'[k].at = "ready"
  BY DEF ParkOver, TypeOK, KillType
<1> QED BY <1>1, <1>3, <1>4, <1>5

(* A park ends: it was cancelled, its ref is no longer what it was, or its *)
(* session is gone.                                                        *)
LEMMA ParkOverStep ==
    ASSUME FleetIInv, ParkOver, park.at # "none",
           \/ /\ park.at = "yield"
              /\ \/ park.cancelled \/ current # park.ref \/ Live # park.session
                 \/ adopted.ref # park.ref
           \/ park.at = "dispose" /\ sess[park.session].at = "gone",
           UNCHANGED <<current, refs, sess, adopted, revival, disposed, waiter, mailbox, faults, hurt>>
    PROVE  FleetIInv'
<1>0. Ranges /\ TypeOK BY TypedRanges DEF FleetIInv
<1>1. park'.at = "none" /\ ~park'.cancelled
  BY <1>0, ParkOverEffect
<1>2. \A m \in Messages :
        /\ msgs'[m].ref = msgs[m].ref /\ msgs'[m].receipt = msgs[m].receipt
        /\ msgs[m].at = "cancelling" => msgs'[m].at = "kept"
        /\ msgs[m].at = "parking" => msgs'[m].at = "unparked"
        /\ msgs[m].at \notin {"cancelling", "parking"} => msgs'[m] = msgs[m]
  BY <1>0, ParkOverEffect
<1>3. \A k \in Killers :
        /\ kills[k].at # "parking" => kills'[k] = kills[k]
        /\ kills'[k].how = kills[k].how /\ kills'[k].ref = kills[k].ref
        /\ kills'[k].session = kills[k].session
        /\ kills[k].at = "parking" => kills'[k].at = "ready"
  BY <1>0, ParkOverEffect
<1>4. TypeOK'
  <2>1. /\ park' = NoPark
        /\ msgs' \in [Messages -> SendType] /\ kills' \in [Killers -> KillType]
    BY <1>0, ParkOverEffect
  <2>2. park' \in ParkType
    BY <2>1, RestTyped
  <2> QED BY <1>0, <2>1, <2>2 DEF TypeOK
<1>5. ~disposed /\ adopted.ref # 0 /\ adopted.ref = current /\ Of(current) # 0
        /\ refs[current].status = "idle" =>
        \/ adopted.timer \/ adopted.missed
        \/ \E m \in Messages : msgs[m].at = "cancelling" /\ msgs[m].ref = current
  <2> SUFFICES ASSUME ~disposed, adopted.ref # 0, adopted.ref = current, Of(current) # 0,
                      refs[current].status = "idle"
               PROVE  \/ adopted.timer \/ adopted.missed
                      \/ \E m \in Messages : msgs[m].at = "cancelling" /\ msgs[m].ref = current
    OBVIOUS
  <2>1. CASE park.ref # current
    BY <1>0, <2>1 DEF FleetIInv, Listening, IdleWillBeTimed, ParkHeld, ParkRests
  <2>2. CASE park.ref = current
    BY <1>0, <2>2 DEF FleetIInv, Listening, ParkYields, ParkHeld, ParkDisposes, Referred,
       ParkUsed, Live, Ranges
  <2> QED BY <2>1, <2>2
<1> USE <1>0, <1>1, <1>2, <1>3, <1>5 DEF FleetIInv, Ranges
<1>6. NoOrphan'
  BY DEF NoOrphan, Live
<1>7. Referred'
  <2>1. CurrentUsed' /\ AdoptedUsed' /\ RefsUsed' /\ SessionsUsed'
    BY DEF Referred, CurrentUsed, AdoptedUsed, RefsUsed, SessionsUsed
  <2>2. KillsUsed' /\ ParkUsed'
    BY DEF Referred, KillsUsed, ParkUsed
  <2> QED BY ONLY <2>1, <2>2 DEF Referred
<1>8. AttachedOnce'
  <2>1. AttachedRight'
    BY DEF AttachedOnce, AttachedRight
  <2>2. LiveAttached'
    BY DEF AttachedOnce, LiveAttached, Referred, SessionsUsed
  <2>3. DisposingDue' /\ DisposingBy'
    BY DEF AttachedOnce, DisposingDue, DisposingBy, Referred, SessionsUsed
  <2>4. TurnsSeen'
    BY DEF AttachedOnce, TurnsSeen, Referred, SessionsUsed
  <2> QED BY ONLY <2>1, <2>2, <2>3, <2>4 DEF AttachedOnce
<1>9. RevivalsHeld'
  BY DEF RevivalsHeld, RevivalStarts, RevivalWires
<1>10. ParkHeld'
  BY DEF ParkHeld, ParkOwns, ParkDisposes, ParkRests, Referred, ParkUsed
<1>11. KillsHeld'
  <2>1. KillWaits'
    BY DEF KillsHeld, KillWaits, Referred, KillsUsed
  <2>2. KillTook'
    BY DEF KillsHeld, KillWaits, KillTook, Referred, KillsUsed
  <2>3. KillDisposes'
    BY DEF KillsHeld, KillDisposes, KillTook, Referred, KillsUsed
  <2> QED BY ONLY <2>1, <2>2, <2>3 DEF KillsHeld
<1>12. Listening'
  <2>1. AdoptedRan' /\ AdoptedLives'
    BY DEF Listening, AdoptedRan, AdoptedLives
  <2>2. ParkRegistered'
    BY DEF Listening, ParkRegistered, Referred, ParkUsed
  <2>3. ParkYields'
    BY DEF Listening, ParkYields, ParkRegistered, Referred, ParkUsed
  <2>4. IdleWillBeTimed'
    BY DEF Listening, IdleWillBeTimed
  <2> QED BY ONLY <2>1, <2>2, <2>3, <2>4 DEF Listening
<1>13. UnhurtAll'
  <2>1. Unhurt'
    BY DEF UnhurtAll, Unhurt
  <2>2. UnhurtSessions'
    BY DEF UnhurtAll, Unhurt, UnhurtSessions
  <2>3. UnhurtSends'
    BY DEF UnhurtAll, Unhurt, UnhurtSends
  <2> QED BY ONLY <2>1, <2>2, <2>3 DEF UnhurtAll
<1> QED BY <1>4, <1>6, <1>7, <1>8, <1>9, <1>10, <1>11, <1>12, <1>13

(* A park commits: its ref is detached and its session disposed. *)
LEMMA CommitStep ==
    ASSUME FleetIInv, ParkCommits, park'.at = "dispose"
    PROVE  FleetIInv'
<1> DEFINE r == park.ref
           s == park.session
<1>0. Ranges /\ TypeOK BY TypedRanges DEF FleetIInv
<1>1. /\ park.at = "yield" /\ ~park.cancelled /\ current = r /\ Live = s /\ adopted.ref = r
      /\ park' = [park EXCEPT !.at = "dispose"]
      /\ refs' = [refs EXCEPT ![r].session = 0,
                              ![r].status = IF @ = "aborted" THEN @ ELSE "parked"]
      /\ sess' = BeginDispose(s, "park")
  BY DEF ParkCommits, ParkOver, NoPark
<1>2. r # 0 /\ r \in Refs /\ s # 0 /\ s \in Sessions /\ Of(r) = s
  BY <1>0, <1>1 DEF FleetIInv, Referred, ParkUsed, Ranges, Live
<1>3. /\ \A q \in Sessions : q # s => sess'[q] = sess[q]
      /\ sess'[s].at = "disposing" /\ sess'[s].ref = sess[s].ref /\ sess'[s].by = "park"
      /\ sess'[s].synced = sess[s].synced
  BY <1>0, <1>1, <1>2, DisposalBegins DEF TypeOK
<1>4. ~Aborted(r) /\ sess[s].ref = r
  BY <1>0, <1>2 DEF FleetIInv, AttachedOnce, AttachedRight
<1>5. /\ \A q \in Refs : q # r => refs'[q] = refs[q]
      /\ refs'[r].status = "parked" /\ refs'[r].session = 0
  BY <1>0, <1>1, <1>2, <1>4 DEF TypeOK, RefType
<1>6. park'.at = "dispose" /\ park'.ref = r /\ park'.session = s /\ ~park'.cancelled
  BY <1>0, <1>1 DEF TypeOK, ParkType
<1>7. UNCHANGED <<current, adopted, revival, disposed, kills, msgs, waiter, mailbox, faults, hurt>>
  BY <1>6 DEF ParkCommits, ParkOver, NoPark, history
<1>8. TypeOK'
  <2>1. sess' \in [Sessions -> SessionType]
    BY <1>0, <1>1, <1>2, DisposalBegins DEF TypeOK
  <2>2. refs' \in [Refs -> RefType]
    <3>1. [refs[r] EXCEPT !.session = 0, !.status = "parked"] \in RefType
      <4>1. refs[r] \in RefType /\ 0 \in 0..MaxSessions BY <1>0, <1>2 DEF TypeOK, Ranges
      <4> QED BY ONLY <4>1 DEF RefType
    <3>2. refs' = [refs EXCEPT ![r] = [refs[r] EXCEPT !.session = 0, !.status = "parked"]]
      BY <1>0, <1>1, <1>2, <1>4 DEF TypeOK, RefType
    <3> QED BY <1>0, <1>2, <3>1, <3>2 DEF TypeOK
  <2>3. park' \in ParkType BY <1>0, <1>1 DEF TypeOK, ParkType
  <2> QED BY <1>0, <1>7, <2>1, <2>2, <2>3 DEF TypeOK
<1>9. park.at = "yield" /\ ~park.cancelled /\ current = r /\ adopted.ref = r
  BY <1>1
<1> USE <1>0, <1>2, <1>3, <1>4, <1>5, <1>6, <1>7, <1>9 DEF FleetIInv, Ranges
<1>10. NoOrphan'
  BY DEF NoOrphan, Live
<1>11. Referred'
  <2>1. CurrentUsed' /\ AdoptedUsed' /\ RefsUsed' /\ SessionsUsed'
    BY SMTT(30) DEF Referred, CurrentUsed, AdoptedUsed, RefsUsed, SessionsUsed
  <2>2. KillsUsed' /\ ParkUsed'
    BY DEF Referred, KillsUsed, ParkUsed
  <2> QED BY ONLY <2>1, <2>2 DEF Referred
<1>12. AttachedOnce'
  <2>1. AttachedRight'
    BY DEF AttachedOnce, AttachedRight
  <2>2. LiveAttached'
    BY DEF AttachedOnce, LiveAttached, Referred, SessionsUsed
  <2>3. DisposingDue' /\ DisposingBy'
    BY DEF AttachedOnce, DisposingDue, DisposingBy, Referred, SessionsUsed
  <2>4. TurnsSeen'
    BY SMTT(30) DEF AttachedOnce, TurnsSeen, Referred, SessionsUsed
  <2> QED BY ONLY <2>1, <2>2, <2>3, <2>4 DEF AttachedOnce
<1>13. RevivalsHeld'
  BY SMTT(30) DEF RevivalsHeld, RevivalStarts, RevivalWires
<1>14. ParkHeld'
  BY DEF ParkHeld, ParkOwns, ParkDisposes, ParkRests, Referred, ParkUsed
<1>15. KillsHeld'
  <2>1. KillWaits'
    BY DEF KillsHeld, KillWaits, Referred, KillsUsed
  <2>2. KillTook'
    BY DEF KillsHeld, KillWaits, KillTook, Referred, KillsUsed
  <2>3. KillDisposes'
    BY DEF KillsHeld, KillDisposes, KillTook, Referred, KillsUsed
  <2> QED BY ONLY <2>1, <2>2, <2>3 DEF KillsHeld
<1>16. Listening'
  <2>1. AdoptedRan' /\ AdoptedLives'
    BY DEF Listening, AdoptedRan, AdoptedLives
  <2>2. ParkRegistered'
    BY DEF Listening, ParkRegistered, Referred, ParkUsed
  <2>3. ParkYields'
    BY DEF Listening, ParkYields, ParkRegistered, Referred, ParkUsed
  <2>4. IdleWillBeTimed'
    BY DEF Listening, IdleWillBeTimed
  <2> QED BY ONLY <2>1, <2>2, <2>3, <2>4 DEF Listening
<1>17. UnhurtAll'
  <2>1. Unhurt'
    BY DEF UnhurtAll, Unhurt
  <2>2. UnhurtSessions'
    BY DEF UnhurtAll, Unhurt, UnhurtSessions, Listening, ParkYields
  <2>3. UnhurtSends'
    BY DEF UnhurtAll, Unhurt, UnhurtSends, Listening, ParkYields
  <2> QED BY ONLY <2>1, <2>2, <2>3 DEF UnhurtAll
<1> QED BY <1>8, <1>10, <1>11, <1>12, <1>13, <1>14, <1>15, <1>16, <1>17

(* A send goes on without waking a session or a revival.  One that holds a *)
(* session got it from the registered ref; one that had cancelled a park   *)
(* has armed the timer again.                                              *)
LEMMA SendGoesOn ==
    ASSUME FleetIInv, NEW m \in Messages, TypeOK',
           UNCHANGED <<current, refs, sess, park, revival, disposed, kills, hurt>>,
           \A n \in Messages : n # m => msgs'[n] = msgs[n],
           msgs[m].at \in {"new", "kept", "unparked", "got"},
           msgs'[m].at \in {"done", "got", "parking", "reviving"},
           msgs'[m].at = "got" => park.at = "none" /\ current # 0 /\ refs[current].session # 0,
           msgs'[m].at = "parking" => park.at # "none" /\ current # 0,
           msgs'[m].receipt = "failed" => hurt,
           adopted.missed => adopted'.missed \/ adopted'.timer,
           adopted'.ref = adopted.ref /\ adopted'.revive = adopted.revive,
           adopted.timer => adopted'.timer,
           adopted'.timer => \/ adopted.timer
                             \/ park.at = "none" /\ (adopted.ref # 0 => refs[adopted.ref].status = "idle"),
           (/\ msgs[m].at = "kept" /\ msgs[m].ref = current /\ adopted.ref = current
            /\ current # 0 /\ Of(current) # 0 /\ refs[current].status = "idle")
             => adopted'.timer
    PROVE  FleetIInv'
<1>0. Ranges BY TypedRanges DEF FleetIInv
<1>1. TypeOK'
  OBVIOUS
<1> USE <1>0 DEF FleetIInv, Ranges
<1>2. NoOrphan'
  BY DEF NoOrphan, Live
<1>3. Referred'
  <2>1. CurrentUsed' /\ AdoptedUsed' /\ RefsUsed' /\ SessionsUsed'
    BY DEF Referred, CurrentUsed, AdoptedUsed, RefsUsed, SessionsUsed
  <2>2. KillsUsed' /\ ParkUsed'
    BY DEF Referred, KillsUsed, ParkUsed
  <2> QED BY ONLY <2>1, <2>2 DEF Referred
<1>4. AttachedOnce'
  <2>1. AttachedRight'
    BY DEF AttachedOnce, AttachedRight
  <2>2. LiveAttached'
    BY DEF AttachedOnce, LiveAttached, Referred, SessionsUsed
  <2>3. DisposingDue' /\ DisposingBy'
    BY DEF AttachedOnce, DisposingDue, DisposingBy, Referred, SessionsUsed
  <2>4. TurnsSeen'
    BY DEF AttachedOnce, TurnsSeen, Referred, SessionsUsed
  <2> QED BY ONLY <2>1, <2>2, <2>3, <2>4 DEF AttachedOnce
<1>5. RevivalsHeld'
  BY DEF RevivalsHeld, RevivalStarts, RevivalWires
<1>6. ParkHeld'
  BY DEF ParkHeld, ParkOwns, ParkDisposes, ParkRests, Referred, ParkUsed
<1>7. KillsHeld'
  <2>1. KillWaits'
    BY DEF KillsHeld, KillWaits, Referred, KillsUsed
  <2>2. KillTook'
    BY DEF KillsHeld, KillWaits, KillTook, Referred, KillsUsed
  <2>3. KillDisposes'
    BY DEF KillsHeld, KillDisposes, KillTook, Referred, KillsUsed
  <2> QED BY ONLY <2>1, <2>2, <2>3 DEF KillsHeld
<1>8. Listening'
  <2>1. AdoptedRan' /\ AdoptedLives'
    BY DEF Listening, AdoptedRan, AdoptedLives
  <2>2. ParkRegistered'
    BY DEF Listening, ParkRegistered, Referred, ParkUsed
  <2>3. ParkYields'
    BY DEF Listening, ParkYields, ParkRegistered, Referred, ParkUsed
  <2>4. IdleWillBeTimed'
    BY DEF Listening, IdleWillBeTimed
  <2> QED BY ONLY <2>1, <2>2, <2>3, <2>4 DEF Listening
<1>9. UnhurtAll'
  <2>1. Unhurt'
    BY DEF UnhurtAll, Unhurt
  <2>2. UnhurtSessions'
    BY DEF UnhurtAll, Unhurt, UnhurtSessions
  <2>3. UnhurtSends'
    BY DEF UnhurtAll, Unhurt, UnhurtSends, Referred, ParkUsed, Listening,
       ParkRegistered
  <2> QED BY ONLY <2>1, <2>2, <2>3 DEF UnhurtAll
<1> QED BY <1>1, <1>2, <1>3, <1>4, <1>5, <1>6, <1>7, <1>8, <1>9

(* A send cancels a park before it commits. *)
LEMMA CancelStep ==
    ASSUME FleetIInv, NEW m \in Messages, TypeOK', msgs[m].at = "new", park.at = "yield", current # 0,
           /\ park'.at = "yield" /\ park'.ref = park.ref /\ park'.session = park.session /\ park'.cancelled,
           /\ \A n \in Messages : n # m => msgs'[n] = msgs[n]
           /\ msgs'[m].at = "cancelling" /\ msgs'[m].ref = current /\ msgs'[m].receipt = msgs[m].receipt,
           UNCHANGED <<current, refs, sess, adopted, revival, disposed, kills, hurt>>
    PROVE  FleetIInv'
<1>0. Ranges BY TypedRanges DEF FleetIInv
<1>1. TypeOK'
  OBVIOUS
<1> USE <1>0 DEF FleetIInv, Ranges
<1>2. NoOrphan'
  BY DEF NoOrphan, Live
<1>3. Referred'
  <2>1. CurrentUsed' /\ AdoptedUsed' /\ RefsUsed' /\ SessionsUsed'
    BY DEF Referred, CurrentUsed, AdoptedUsed, RefsUsed, SessionsUsed
  <2>2. KillsUsed' /\ ParkUsed'
    BY DEF Referred, KillsUsed, ParkUsed
  <2> QED BY ONLY <2>1, <2>2 DEF Referred
<1>4. AttachedOnce'
  <2>1. AttachedRight'
    BY DEF AttachedOnce, AttachedRight
  <2>2. LiveAttached'
    BY DEF AttachedOnce, LiveAttached, Referred, SessionsUsed
  <2>3. DisposingDue' /\ DisposingBy'
    BY DEF AttachedOnce, DisposingDue, DisposingBy, Referred, SessionsUsed
  <2>4. TurnsSeen'
    BY DEF AttachedOnce, TurnsSeen, Referred, SessionsUsed
  <2> QED BY ONLY <2>1, <2>2, <2>3, <2>4 DEF AttachedOnce
<1>5. RevivalsHeld'
  BY DEF RevivalsHeld, RevivalStarts, RevivalWires
<1>6. ParkHeld'
  BY DEF ParkHeld, ParkOwns, ParkDisposes, ParkRests, Referred, ParkUsed
<1>7. KillsHeld'
  <2>1. KillWaits'
    BY DEF KillsHeld, KillWaits, Referred, KillsUsed
  <2>2. KillTook'
    BY DEF KillsHeld, KillWaits, KillTook, Referred, KillsUsed
  <2>3. KillDisposes'
    BY DEF KillsHeld, KillDisposes, KillTook, Referred, KillsUsed
  <2> QED BY ONLY <2>1, <2>2, <2>3 DEF KillsHeld
<1>8. Listening'
  <2>1. AdoptedRan' /\ AdoptedLives'
    BY DEF Listening, AdoptedRan, AdoptedLives
  <2>2. ParkRegistered'
    BY DEF Listening, ParkRegistered, Referred, ParkUsed
  <2>3. ParkYields'
    BY DEF Listening, ParkYields, ParkRegistered, Referred, ParkUsed
  <2>4. IdleWillBeTimed'
    BY DEF Listening, IdleWillBeTimed
  <2> QED BY ONLY <2>1, <2>2, <2>3, <2>4 DEF Listening
<1>9. UnhurtAll'
  <2>1. Unhurt'
    BY DEF UnhurtAll, Unhurt
  <2>2. UnhurtSessions'
    BY DEF UnhurtAll, Unhurt, UnhurtSessions
  <2>3. UnhurtSends'
    BY DEF UnhurtAll, Unhurt, UnhurtSends
  <2> QED BY ONLY <2>1, <2>2, <2>3 DEF UnhurtAll
<1> QED BY <1>1, <1>2, <1>3, <1>4, <1>5, <1>6, <1>7, <1>8, <1>9

(* A send finds its agent parked and starts a revival. *)
LEMMA RevivalStartsStep ==
    ASSUME FleetIInv, NEW m \in Messages, TypeOK',
           msgs[m].at \in {"new", "kept", "unparked"}, park.at = "none",
           current # 0, Of(current) = 0, refs[current].status = "parked", revival[current].at = "none",
           /\ \A n \in Messages : n # m => msgs'[n] = msgs[n]
           /\ msgs'[m].at = "reviving" /\ msgs'[m].receipt = msgs[m].receipt,
           /\ \A r \in Refs : r # current => revival'[r] = revival[r]
           /\ revival'[current].at \in {"factory", "building"} /\ revival'[current].session = 0,
           UNCHANGED <<current, refs, sess, adopted, park, disposed, kills, hurt>>
    PROVE  FleetIInv'
<1>0. Ranges BY TypedRanges DEF FleetIInv
<1>1. TypeOK'
  OBVIOUS
<1> USE <1>0 DEF FleetIInv, Ranges
<1>2. NoOrphan'
  BY DEF NoOrphan, Live, RevivalsHeld, RevivalStarts
<1>3. Referred'
  <2>1. CurrentUsed' /\ AdoptedUsed' /\ RefsUsed' /\ SessionsUsed'
    BY DEF Referred, CurrentUsed, AdoptedUsed, RefsUsed, SessionsUsed
  <2>2. KillsUsed' /\ ParkUsed'
    BY DEF Referred, KillsUsed, ParkUsed
  <2> QED BY ONLY <2>1, <2>2 DEF Referred
<1>4. AttachedOnce'
  <2>1. AttachedRight'
    BY DEF AttachedOnce, AttachedRight
  <2>2. LiveAttached'
    BY DEF AttachedOnce, LiveAttached, Referred, SessionsUsed
  <2>3. DisposingDue' /\ DisposingBy'
    BY DEF AttachedOnce, DisposingDue, DisposingBy, Referred, SessionsUsed
  <2>4. TurnsSeen'
    BY DEF AttachedOnce, TurnsSeen, Referred, SessionsUsed
  <2> QED BY ONLY <2>1, <2>2, <2>3, <2>4 DEF AttachedOnce
<1>5. RevivalsHeld'
  BY DEF RevivalsHeld, RevivalStarts, RevivalWires
<1>6. ParkHeld'
  BY DEF ParkHeld, ParkOwns, ParkDisposes, ParkRests, Referred, ParkUsed
<1>7. KillsHeld'
  <2>1. KillWaits'
    BY DEF KillsHeld, KillWaits, Referred, KillsUsed
  <2>2. KillTook'
    BY DEF KillsHeld, KillWaits, KillTook, Referred, KillsUsed
  <2>3. KillDisposes'
    BY DEF KillsHeld, KillDisposes, KillTook, Referred, KillsUsed
  <2> QED BY ONLY <2>1, <2>2, <2>3 DEF KillsHeld
<1>8. Listening'
  <2>1. AdoptedRan' /\ AdoptedLives'
    BY DEF Listening, AdoptedRan, AdoptedLives
  <2>2. ParkRegistered'
    BY DEF Listening, ParkRegistered, Referred, ParkUsed
  <2>3. ParkYields'
    BY DEF Listening, ParkYields, ParkRegistered, Referred, ParkUsed
  <2>4. IdleWillBeTimed'
    BY DEF Listening, IdleWillBeTimed
  <2> QED BY ONLY <2>1, <2>2, <2>3, <2>4 DEF Listening
<1>9. UnhurtAll'
  <2>1. Unhurt'
    BY DEF UnhurtAll, Unhurt
  <2>2. UnhurtSessions'
    BY DEF UnhurtAll, Unhurt, UnhurtSessions
  <2>3. UnhurtSends'
    BY DEF UnhurtAll, Unhurt, UnhurtSends
  <2> QED BY ONLY <2>1, <2>2, <2>3 DEF UnhurtAll
<1> QED BY <1>1, <1>2, <1>3, <1>4, <1>5, <1>6, <1>7, <1>8, <1>9

(* What the end of a revival changes: all who shared it get the session,   *)
(* or fail.                                                                *)
LEMMA SettleEffect ==
    ASSUME TypeOK, NEW r \in Refs, NEW s \in 0..MaxSessions, Settle(r, s)
    PROVE  /\ revival' \in [Refs -> RevivalType] /\ msgs' \in [Messages -> SendType]
           /\ \A q \in Refs : q # r => revival'[q] = revival[q]
           /\ revival'[r].at = "none" /\ revival'[r].session = 0
           /\ \A m \in Messages :
                \/ msgs'[m] = msgs[m]
                \/ /\ msgs[m].at = "reviving" /\ msgs[m].ref = r
                   /\ s = 0 => msgs'[m].at = "done"
                   /\ s # 0 => /\ msgs'[m].at = "got" /\ msgs'[m].got = s
                               /\ msgs'[m].receipt = msgs[m].receipt
<1>1. revival' = [revival EXCEPT ![r] = NoRevival]
  BY DEF Settle
<1>2. /\ revival' \in [Refs -> RevivalType]
      /\ \A q \in Refs : q # r => revival'[q] = revival[q]
      /\ revival'[r].at = "none" /\ revival'[r].session = 0
  <2>1. NoRevival.at = "none" /\ NoRevival.session = 0 BY DEF NoRevival
  <2> QED BY <1>1, <2>1, RestTyped DEF TypeOK
<1>3. \A x \in SendType : /\ [x EXCEPT !.at = "done", !.receipt = "failed"] \in SendType
                          /\ [x EXCEPT !.at = "got", !.got = s] \in SendType
  <2> SUFFICES ASSUME NEW x \in SendType
               PROVE  /\ [x EXCEPT !.at = "done", !.receipt = "failed"] \in SendType
                      /\ [x EXCEPT !.at = "got", !.got = s] \in SendType
    OBVIOUS
  <2>1. [x EXCEPT !.at = "done", !.receipt = "failed"] \in SendType
    BY DEF SendType
  <2>2. [x EXCEPT !.at = "got", !.got = s] \in SendType
    BY DEF SendType
  <2> QED BY <2>1, <2>2
<1>4. msgs' \in [Messages -> SendType]
  BY ZenonT(60), <1>3 DEF Settle, TypeOK
<1>5. \A m \in Messages :
        \/ msgs'[m] = msgs[m]
        \/ /\ msgs[m].at = "reviving" /\ msgs[m].ref = r
           /\ s = 0 => msgs'[m].at = "done"
           /\ s # 0 => /\ msgs'[m].at = "got" /\ msgs'[m].got = s
                       /\ msgs'[m].receipt = msgs[m].receipt
  BY DEF Settle, TypeOK, SendType
<1> QED BY SMTT(30), <1>2, <1>4, <1>5

(* A revival fails, and drops what it had adopted, or its factory answers  *)
(* too late and is adopted for nothing.                                    *)
LEMMA RevivalFailsStep ==
    ASSUME FleetIInv, NEW r \in Refs, Settle(r, 0), revival[r].at \in {"factory", "building"}, hurt' = TRUE,
           \/ adopted' = adopted
           \/ adopted' = NoAdoption /\ adopted.ref = r
           \/ /\ adopted' = Adopted(r) /\ revival[r].at = "factory"
              /\ \A k \in Killers : kills[k].at # "ready",
           UNCHANGED <<current, refs, sess, park, disposed, kills, waiter, mailbox>>
    PROVE  FleetIInv'
<1>0. Ranges /\ TypeOK BY TypedRanges DEF FleetIInv
<1>1. 0 \in 0..MaxSessions BY <1>0 DEF Ranges
<1>2. /\ \A q \in Refs : q # r => revival'[q] = revival[q]
      /\ revival'[r].at = "none" /\ revival'[r].session = 0
  BY <1>0, <1>1, SettleEffect
<1>3. \A m \in Messages : \/ msgs'[m] = msgs[m]
                          \/ /\ msgs[m].at = "reviving" /\ msgs[m].ref = r
                             /\ msgs'[m].at = "done"
  BY <1>0, <1>1, SettleEffect
<1>4. \/ adopted' = adopted
      \/ adopted'.ref = 0 /\ adopted.ref = r
      \/ /\ adopted'.ref = r /\ ~adopted'.timer /\ revival[r].at = "factory"
         /\ \A k \in Killers : kills[k].at # "ready"
  BY DEF NoAdoption, Adopted
<1>5. TypeOK'
  <2>1. Adopted(r) \in AdoptType
    BY <1>0 DEF Adopted, AdoptType, Ranges
  <2>2. adopted' \in AdoptType
    BY <1>0, <2>1, RestTyped DEF TypeOK
  <2>3. revival' \in [Refs -> RevivalType] /\ msgs' \in [Messages -> SendType]
    BY <1>0, <1>1, SettleEffect
  <2> QED BY <1>0, <2>2, <2>3 DEF TypeOK
<1> USE <1>0, <1>2, <1>3, <1>4 DEF FleetIInv, Ranges
<1>6. NoOrphan'
  BY DEF NoOrphan, Live, RevivalsHeld, RevivalStarts
<1>7. Referred'
  <2>1. CurrentUsed' /\ AdoptedUsed' /\ RefsUsed' /\ SessionsUsed'
    BY DEF Referred, CurrentUsed, AdoptedUsed, RefsUsed, SessionsUsed, RevivalsHeld
  <2>2. KillsUsed' /\ ParkUsed'
    BY DEF Referred, KillsUsed, ParkUsed
  <2> QED BY ONLY <2>1, <2>2 DEF Referred
<1>8. AttachedOnce'
  <2>1. AttachedRight'
    BY DEF AttachedOnce, AttachedRight
  <2>2. LiveAttached'
    BY DEF AttachedOnce, LiveAttached, Referred, SessionsUsed
  <2>3. DisposingDue' /\ DisposingBy'
    BY DEF AttachedOnce, DisposingDue, DisposingBy, Referred, SessionsUsed
  <2>4. TurnsSeen'
    BY DEF AttachedOnce, TurnsSeen, Referred, SessionsUsed
  <2> QED BY ONLY <2>1, <2>2, <2>3, <2>4 DEF AttachedOnce
<1>9. RevivalsHeld'
  BY DEF RevivalsHeld, RevivalStarts, RevivalWires
<1>10. ParkHeld'
  BY DEF ParkHeld, ParkOwns, ParkDisposes, ParkRests, Referred, ParkUsed
<1>11. KillsHeld'
  <2>1. KillWaits'
    BY DEF KillsHeld, KillWaits, Referred, KillsUsed, ParkHeld, ParkOwns
  <2>2. KillTook'
    BY DEF KillsHeld, KillWaits, KillTook, Referred, KillsUsed
  <2>3. KillDisposes'
    BY DEF KillsHeld, KillDisposes, KillTook, Referred, KillsUsed, RevivalsHeld,
       RevivalStarts
  <2> QED BY ONLY <2>1, <2>2, <2>3 DEF KillsHeld
<1>12. Listening'
  <2>1. AdoptedRan' /\ AdoptedLives'
    BY DEF Listening, AdoptedRan, AdoptedLives, RevivalsHeld, RevivalStarts
  <2>2. ParkRegistered'
    BY DEF Listening, ParkRegistered, Referred, ParkUsed
  <2>3. ParkYields'
    BY DEF Listening, ParkYields, ParkRegistered, Referred, ParkUsed, RevivalsHeld,
       RevivalStarts, ParkHeld, ParkOwns
  <2>4. IdleWillBeTimed'
    BY DEF Listening, IdleWillBeTimed, RevivalsHeld, RevivalStarts
  <2> QED BY ONLY <2>1, <2>2, <2>3, <2>4 DEF Listening
<1>13. UnhurtAll'
  <2>1. Unhurt'
    BY DEF UnhurtAll, Unhurt
  <2>2. UnhurtSessions'
    BY DEF UnhurtAll, Unhurt, UnhurtSessions
  <2>3. UnhurtSends'
    BY DEF UnhurtAll, Unhurt, UnhurtSends
  <2> QED BY ONLY <2>1, <2>2, <2>3 DEF UnhurtAll
<1> QED BY <1>5, <1>6, <1>7, <1>8, <1>9, <1>10, <1>11, <1>12, <1>13

(* A revival returns, but its session is no longer wanted: it is disposed. *)
LEMMA DiscardStep ==
    ASSUME FleetIInv, NEW r \in Refs, Revived(r),
           ~(~disposed /\ current = r /\ refs[r].status = "running" /\ refs[r].session = revival[r].session)
    PROVE  FleetIInv'
<1> DEFINE s == revival[r].session
<1>0. Ranges /\ TypeOK BY TypedRanges DEF FleetIInv
<1>1. revival[r].at = "wiring" /\ sess' = Discard(s) /\ adopted' = Dropped(r) /\ Settle(r, 0)
  BY DEF Revived
<1>2. s \in Sessions /\ sess[s].ref = r
  BY <1>0, <1>1 DEF FleetIInv, RevivalsHeld, RevivalWires, Ranges
<1>3. 0 \in 0..MaxSessions BY <1>0 DEF Ranges
<1>4. /\ \A q \in Refs : q # r => revival'[q] = revival[q]
      /\ revival'[r].at = "none" /\ revival'[r].session = 0
  BY <1>0, <1>1, <1>3, SettleEffect
<1>5. \A m \in Messages : \/ msgs'[m] = msgs[m]
                          \/ /\ msgs[m].at = "reviving" /\ msgs[m].ref = r
                             /\ msgs'[m].at = "done"
  BY <1>0, <1>1, <1>3, SettleEffect
<1>6. /\ \A q \in Sessions : q # s => sess'[q] = sess[q]
      /\ sess[s].at # "live" => sess'[s] = sess[s]
      /\ sess[s].at = "live" => /\ sess'[s].at = "disposing" /\ sess'[s].by = "revival"
                                /\ sess'[s].ref = r /\ sess'[s].synced = sess[s].synced
  BY <1>0, <1>1, <1>2, DisposalBegins DEF Discard, TypeOK
<1>7. adopted' = adopted \/ (adopted'.ref = 0 /\ adopted.ref = r)
  BY <1>1 DEF Dropped, NoAdoption
<1>8. UNCHANGED <<current, refs, park, disposed, kills, waiter, mailbox, faults, hurt>>
  BY DEF Revived, history
<1>9. TypeOK'
  <2>1. adopted' \in AdoptType
    BY <1>0, <1>1, RestTyped DEF TypeOK, Dropped
  <2>2. revival' \in [Refs -> RevivalType] /\ msgs' \in [Messages -> SendType]
    BY <1>0, <1>1, <1>3, SettleEffect
  <2>3. sess' \in [Sessions -> SessionType]
    BY <1>0, <1>1, <1>2, DisposalBegins DEF Discard, TypeOK
  <2> QED BY <1>0, <1>8, <2>1, <2>2, <2>3 DEF TypeOK
<1>10. /\ Of(r) = s => disposed \/ current # r
       /\ ~disposed /\ park.at = "yield" => park.session # s
  BY <1>0, <1>1, <1>2 DEF FleetIInv, RevivalsHeld, RevivalWires, Listening, ParkYields, Referred, ParkUsed
<1>11. hurt
  BY <1>0, <1>1, <1>10 DEF FleetIInv, UnhurtAll, Unhurt, UnhurtSessions, RevivalsHeld, RevivalWires, Ranges
<1> USE <1>0, <1>2, <1>4, <1>5, <1>6, <1>7, <1>8, <1>10, <1>11 DEF FleetIInv, Ranges
<1>12. NoOrphan'
  BY SMTT(30) DEF NoOrphan, Live
<1>13. Referred'
  <2>1. CurrentUsed' /\ AdoptedUsed' /\ RefsUsed' /\ SessionsUsed'
    BY DEF Referred, CurrentUsed, AdoptedUsed, RefsUsed, SessionsUsed
  <2>2. KillsUsed' /\ ParkUsed'
    BY DEF Referred, KillsUsed, ParkUsed
  <2> QED BY ONLY <2>1, <2>2 DEF Referred
<1>14. AttachedOnce'
  <2>1. AttachedRight'
    BY SMTT(30) DEF AttachedOnce, AttachedRight
  <2>2. LiveAttached'
    BY DEF AttachedOnce, LiveAttached, Referred, SessionsUsed
  <2>3. DisposingDue' /\ DisposingBy'
    BY DEF AttachedOnce, DisposingDue, DisposingBy, Referred, SessionsUsed,
       LiveAttached
  <2>4. TurnsSeen'
    BY DEF AttachedOnce, TurnsSeen, Referred, SessionsUsed
  <2> QED BY ONLY <2>1, <2>2, <2>3, <2>4 DEF AttachedOnce
<1>15. RevivalsHeld'
  BY SMTT(30) DEF RevivalsHeld, RevivalStarts, RevivalWires
<1>16. ParkHeld'
  BY DEF ParkHeld, ParkOwns, ParkDisposes, ParkRests, Referred, ParkUsed
<1>17. KillsHeld'
  <2>1. KillWaits'
    BY DEF KillsHeld, KillWaits, Referred, KillsUsed
  <2>2. KillTook'
    BY DEF KillsHeld, KillWaits, KillTook, Referred, KillsUsed
  <2>3. KillDisposes'
    BY DEF KillsHeld, KillDisposes, KillTook, Referred, KillsUsed
  <2> QED BY ONLY <2>1, <2>2, <2>3 DEF KillsHeld
<1>18. Listening'
  <2>1. AdoptedRan' /\ AdoptedLives'
    BY SMTT(30) DEF Listening, AdoptedRan, AdoptedLives, AttachedOnce, AttachedRight
  <2>2. ParkRegistered'
    BY DEF Listening, ParkRegistered, Referred, ParkUsed
  <2>3. ParkYields'
    BY DEF Listening, ParkYields, ParkRegistered, Referred, ParkUsed
  <2>4. IdleWillBeTimed'
    BY DEF Listening, IdleWillBeTimed
  <2> QED BY ONLY <2>1, <2>2, <2>3, <2>4 DEF Listening
<1>19. UnhurtAll'
  <2>1. Unhurt'
    BY DEF UnhurtAll, Unhurt
  <2>2. UnhurtSessions'
    BY DEF UnhurtAll, Unhurt, UnhurtSessions
  <2>3. UnhurtSends'
    BY DEF UnhurtAll, Unhurt, UnhurtSends
  <2> QED BY ONLY <2>1, <2>2, <2>3 DEF UnhurtAll
<1> QED BY <1>9, <1>12, <1>13, <1>14, <1>15, <1>16, <1>17, <1>18, <1>19

(* The factory of a parked agent answers in time: its reviver is adopted. *)
LEMMA FactoryFindsStep ==
    ASSUME FleetIInv, NEW r \in Refs, FactoryAnswers(r), revival'[r].at = "building"
    PROVE  FleetIInv'
<1>0. Ranges /\ TypeOK BY TypedRanges DEF FleetIInv
<1>a. ~Settle(r, 0)
  <2> SUFFICES ASSUME Settle(r, 0) PROVE FALSE
    OBVIOUS
  <2> QED BY <1>0 DEF Settle, NoRevival, TypeOK
<1>b. /\ adopted' = Adopted(r)
      /\ revival' = [revival EXCEPT ![r].at = "building", ![r].cold = TRUE]
  BY <1>a DEF FactoryAnswers
<1>c. /\ revival[r].at = "factory" /\ ~disposed /\ current = r /\ refs[r].status = "parked"
      /\ \A k \in Killers : kills[k].at # "ready"
      /\ UNCHANGED <<current, refs, sess, park, disposed, kills, msgs, waiter, mailbox, hurt>>
  BY <1>a DEF FactoryAnswers, Drained, registry
<1>1. /\ \A q \in Refs : q # r => revival'[q] = revival[q]
      /\ revival'[r].at = "building" /\ revival'[r].session = revival[r].session
  BY <1>0, <1>b DEF TypeOK, RevivalType
<1>2. adopted'.ref = r /\ adopted'.revive /\ ~adopted'.timer
  BY <1>b DEF Adopted
<1>3. TypeOK'
  <2>1. Adopted(r) \in AdoptType
    BY <1>0 DEF Adopted, AdoptType, Ranges
  <2>2. \A x \in RevivalType : [x EXCEPT !.at = "building", !.cold = TRUE] \in RevivalType
    <3> SUFFICES ASSUME NEW x \in RevivalType
                 PROVE  [x EXCEPT !.at = "building", !.cold = TRUE] \in RevivalType
      OBVIOUS
    <3> QED BY ONLY x \in RevivalType DEF RevivalType
  <2>3. revival' = [revival EXCEPT ![r] = [revival[r] EXCEPT !.at = "building", !.cold = TRUE]]
    BY <1>b
  <2>4. revival' \in [Refs -> RevivalType]
    BY <1>0, <2>2, <2>3 DEF TypeOK
  <2> QED BY <1>0, <1>b, <1>c, <2>1, <2>4 DEF TypeOK
<1>4. /\ Of(r) = 0 /\ (park.at # "none" => park.ref # r)
  BY <1>0, <1>c DEF FleetIInv, RevivalsHeld, RevivalStarts, ParkHeld, ParkOwns
<1> USE <1>0, <1>c, <1>1, <1>2, <1>4 DEF FleetIInv, Ranges
<1>5. NoOrphan'
  BY DEF NoOrphan, Live
<1>6. Referred'
  <2>1. CurrentUsed' /\ AdoptedUsed' /\ RefsUsed' /\ SessionsUsed'
    BY DEF Referred, CurrentUsed, AdoptedUsed, RefsUsed, SessionsUsed
  <2>2. KillsUsed' /\ ParkUsed'
    BY DEF Referred, KillsUsed, ParkUsed
  <2> QED BY ONLY <2>1, <2>2 DEF Referred
<1>7. AttachedOnce'
  <2>1. AttachedRight'
    BY DEF AttachedOnce, AttachedRight
  <2>2. LiveAttached'
    BY DEF AttachedOnce, LiveAttached, Referred, SessionsUsed
  <2>3. DisposingDue' /\ DisposingBy'
    BY DEF AttachedOnce, DisposingDue, DisposingBy, Referred, SessionsUsed
  <2>4. TurnsSeen'
    BY DEF AttachedOnce, TurnsSeen, Referred, SessionsUsed
  <2> QED BY ONLY <2>1, <2>2, <2>3, <2>4 DEF AttachedOnce
<1>8. RevivalsHeld'
  BY DEF RevivalsHeld, RevivalStarts, RevivalWires
<1>9. ParkHeld'
  BY DEF ParkHeld, ParkOwns, ParkDisposes, ParkRests, Referred, ParkUsed
<1>10. KillsHeld'
  <2>1. KillWaits'
    BY DEF KillsHeld, KillWaits, Referred, KillsUsed
  <2>2. KillTook'
    BY DEF KillsHeld, KillWaits, KillTook, Referred, KillsUsed
  <2>3. KillDisposes'
    BY DEF KillsHeld, KillDisposes, KillTook, Referred, KillsUsed
  <2> QED BY ONLY <2>1, <2>2, <2>3 DEF KillsHeld
<1>11. Listening'
  <2>1. AdoptedRan' /\ AdoptedLives'
    BY DEF Listening, AdoptedRan, AdoptedLives
  <2>2. ParkRegistered'
    BY DEF Listening, ParkRegistered, Referred, ParkUsed
  <2>3. ParkYields'
    BY DEF Listening, ParkYields, ParkRegistered, Referred, ParkUsed
  <2>4. IdleWillBeTimed'
    BY DEF Listening, IdleWillBeTimed
  <2> QED BY ONLY <2>1, <2>2, <2>3, <2>4 DEF Listening
<1>12. UnhurtAll'
  <2>1. Unhurt'
    BY DEF UnhurtAll, Unhurt
  <2>2. UnhurtSessions'
    BY DEF UnhurtAll, Unhurt, UnhurtSessions
  <2>3. UnhurtSends'
    BY DEF UnhurtAll, Unhurt, UnhurtSends
  <2> QED BY ONLY <2>1, <2>2, <2>3 DEF UnhurtAll
<1> QED BY <1>3, <1>5, <1>6, <1>7, <1>8, <1>9, <1>10, <1>11, <1>12

(* A revival attaches the session it built to the parked ref. *)
LEMMA AttachStep ==
    ASSUME FleetIInv, NEW r \in Refs, NEW s \in Sessions, Build(r, s), MayAttach(r)
    PROVE  FleetIInv'
<1>0. Ranges /\ TypeOK BY TypedRanges DEF FleetIInv
<1>1. /\ revival[r].at = "building" /\ Drained /\ sess[s].at = "none" /\ s # 0 /\ r # 0
      /\ current = r /\ refs[r].status = "parked" /\ Of(r) = 0
  BY DEF Build, Unbuilt, MayAttach
<1>2. sess[s].ref = 0 /\ sess[s].by = "none" /\ ~sess[s].synced /\ ~sess[s].turn
  BY <1>1 DEF FleetIInv, Referred, SessionsUsed
<1>3. /\ \A q \in Refs : q # r => refs'[q] = refs[q]
      /\ refs'[r].status = "running" /\ refs'[r].session = s
  BY <1>0 DEF Build, TypeOK
<1>4. sess' = [sess EXCEPT ![s].at = "live", ![s].ref = r]
  BY DEF Build, Attached
<1>5. /\ \A q \in Sessions : q # s => sess'[q] = sess[q]
      /\ sess'[s].at = "live" /\ sess'[s].ref = r /\ sess'[s].by = "none"
      /\ ~sess'[s].synced /\ ~sess'[s].turn
  BY <1>0, <1>2, <1>4 DEF TypeOK, SessionType
<1>6. /\ \A q \in Refs : q # r => revival'[q] = revival[q]
      /\ revival'[r].at = "wiring" /\ revival'[r].session = s
  BY <1>0 DEF Build, TypeOK, RevivalType
<1>7. adopted' = Timed(adopted, r, "running")
  BY DEF Build
<1>8. /\ adopted' \in AdoptType
      /\ adopted'.ref = adopted.ref /\ adopted'.revive = adopted.revive
      /\ adopted'.timer => adopted.timer
      /\ ~disposed /\ adopted.ref = r => ~adopted'.timer
      /\ adopted.ref # r => adopted'.timer = adopted.timer
  BY <1>0, <1>7 DEF Timed, TypeOK, AdoptType
<1>9. UNCHANGED <<current, park, disposed, kills, msgs, waiter, mailbox, faults, hurt>>
  BY DEF Build, history
<1>10. TypeOK'
  <2>1. [status |-> "running", session |-> s] \in RefType
    BY <1>0 DEF RefType, Ranges
  <2>2. refs' \in [Refs -> RefType]
    BY <1>0, <2>1 DEF Build, TypeOK
  <2>3. sess' \in [Sessions -> SessionType]
    <3>1. r \in 0..MaxRefs BY <1>0 DEF Ranges
    <3>2. \A x \in SessionType : [x EXCEPT !.at = "live", !.ref = r] \in SessionType
      <4> SUFFICES ASSUME NEW x \in SessionType
                   PROVE  [x EXCEPT !.at = "live", !.ref = r] \in SessionType
        OBVIOUS
      <4> QED BY ONLY x \in SessionType, <3>1 DEF SessionType
    <3>3. sess' = [sess EXCEPT ![s] = [sess[s] EXCEPT !.at = "live", !.ref = r]]
      BY <1>4
    <3> QED BY <1>0, <3>2, <3>3 DEF TypeOK
  <2>4. revival' \in [Refs -> RevivalType]
    <3>1. s \in 0..MaxSessions BY <1>0 DEF Ranges
    <3>2. \A x \in RevivalType : [x EXCEPT !.at = "wiring", !.session = s] \in RevivalType
      <4> SUFFICES ASSUME NEW x \in RevivalType
                   PROVE  [x EXCEPT !.at = "wiring", !.session = s] \in RevivalType
        OBVIOUS
      <4> QED BY ONLY x \in RevivalType, <3>1 DEF RevivalType
    <3>3. revival' = [revival EXCEPT ![r] = [revival[r] EXCEPT !.at = "wiring", !.session = s]]
      BY DEF Build
    <3> QED BY <1>0, <3>2, <3>3 DEF TypeOK
  <2> QED BY <1>0, <1>8, <1>9, <2>2, <2>3, <2>4 DEF TypeOK
<1>11. /\ \A q \in Refs : Of(q) # s
       /\ park.at # "none" => park.session # s /\ park.ref # r
       /\ \A q \in Refs : revival[q].at = "wiring" => revival[q].session # s
       /\ \A k \in Killers : kills[k].session # s
  <2>1. \A q \in Refs : Of(q) # s
    BY <1>0, <1>1 DEF FleetIInv, AttachedOnce, AttachedRight, Ranges
  <2>2. /\ park.at # "none" => park.session # s /\ park.ref # r
        /\ \A q \in Refs : revival[q].at = "wiring" => revival[q].session # s
    BY <1>0, <1>1 DEF FleetIInv, Referred, ParkUsed, SessionsUsed, RevivalsHeld, RevivalWires, ParkHeld,
       ParkOwns, Ranges
  <2>3. \A k \in Killers : kills[k].session # s
    BY <1>0, <1>1 DEF FleetIInv, Referred, SessionsUsed, KillsUsed, KillsHeld, KillWaits, KillTook, Ranges
  <2> QED BY <2>1, <2>2, <2>3
<1>12. /\ \A q \in Sessions : sess[q].ref = r => sess[q].at # "live"
       /\ \A q \in Sessions : sess[q].ref = r /\ sess[q].at = "disposing" => sess[q].by = "park"
  BY <1>0, <1>1 DEF FleetIInv, AttachedOnce, LiveAttached, DisposingDue, Ranges
<1>13. \A k \in Killers : /\ kills[k].at \in {"parking", "ready"} => kills[k].ref # r
                          /\ kills[k].session # 0 => kills[k].ref # r
  <2> SUFFICES ASSUME NEW k \in Killers
               PROVE  /\ kills[k].at \in {"parking", "ready"} => kills[k].ref # r
                      /\ kills[k].session # 0 => kills[k].ref # r
    OBVIOUS
  <2>1. KillTook!(k) /\ KillWaits!(k) /\ KillDisposes!(k)
    BY DEF FleetIInv, KillsHeld, KillTook, KillWaits, KillDisposes
  <2>2. kills[k].at # "ready" /\ (kills[k].at = "dispose" => sess[kills[k].session].at # "gone")
    BY <1>1 DEF Drained
  <2> QED BY <1>1, <1>11, <2>1, <2>2
<1> USE <1>0, <1>1, <1>2, <1>3, <1>5, <1>6, <1>8, <1>9, <1>11, <1>12, <1>13 DEF FleetIInv, Ranges
<1>14. NoOrphan'
  BY DEF NoOrphan, Live, RevivalsHeld, RevivalStarts
<1>15. Referred'
  <2>1. CurrentUsed' /\ AdoptedUsed' /\ RefsUsed' /\ SessionsUsed'
    BY DEF Referred, CurrentUsed, AdoptedUsed, RefsUsed, SessionsUsed
  <2>2. KillsUsed' /\ ParkUsed'
    BY DEF Referred, KillsUsed, ParkUsed
  <2> QED BY ONLY <2>1, <2>2 DEF Referred
<1>16. AttachedOnce'
  <2>1. AttachedRight'
    BY DEF AttachedOnce, AttachedRight
  <2>2. LiveAttached'
    BY DEF AttachedOnce, LiveAttached, Referred, SessionsUsed
  <2>3. DisposingDue' /\ DisposingBy'
    BY DEF AttachedOnce, DisposingDue, DisposingBy, Referred, SessionsUsed
  <2>4. TurnsSeen'
    BY DEF AttachedOnce, TurnsSeen, Referred, SessionsUsed
  <2> QED BY ONLY <2>1, <2>2, <2>3, <2>4 DEF AttachedOnce
<1>17. RevivalsHeld'
  BY DEF RevivalsHeld, RevivalStarts, RevivalWires
<1>18. ParkHeld'
  BY DEF ParkHeld, ParkOwns, ParkDisposes, ParkRests, Referred, ParkUsed
<1>19. KillsHeld'
  <2>1. KillWaits'
    BY DEF KillsHeld, KillWaits, Referred, KillsUsed
  <2>2. KillTook'
    BY DEF KillsHeld, KillWaits, KillTook, Referred, KillsUsed
  <2>3. KillDisposes'
    BY DEF KillsHeld, KillDisposes, KillTook, Referred, KillsUsed
  <2> QED BY ONLY <2>1, <2>2, <2>3 DEF KillsHeld
<1>20. Listening'
  <2>1. AdoptedRan' /\ AdoptedLives'
    BY DEF Listening, AdoptedRan, AdoptedLives
  <2>2. ParkRegistered'
    BY DEF Listening, ParkRegistered, Referred, ParkUsed
  <2>3. ParkYields'
    BY DEF Listening, ParkYields, ParkRegistered, Referred, ParkUsed
  <2>4. IdleWillBeTimed'
    BY DEF Listening, IdleWillBeTimed
  <2> QED BY ONLY <2>1, <2>2, <2>3, <2>4 DEF Listening
<1>21. UnhurtAll'
  <2>1. Unhurt'
    BY DEF UnhurtAll, Unhurt
  <2>2. UnhurtSessions'
    BY DEF UnhurtAll, Unhurt, UnhurtSessions
  <2>3. UnhurtSends'
    BY DEF UnhurtAll, Unhurt, UnhurtSends
  <2> QED BY ONLY <2>1, <2>2, <2>3 DEF UnhurtAll
<1> QED BY <1>10, <1>14, <1>15, <1>16, <1>17, <1>18, <1>19, <1>20, <1>21

(* A revival is done: its session mirrors its run state, and all who       *)
(* shared it get the session.                                              *)
LEMMA RevivesStep ==
    ASSUME FleetIInv, NEW r \in Refs, Revived(r),
           ~disposed /\ current = r /\ refs[r].status = "running" /\ refs[r].session = revival[r].session
    PROVE  FleetIInv'
<1> DEFINE s == revival[r].session
<1>0. Ranges /\ TypeOK BY TypedRanges DEF FleetIInv
<1>1. /\ revival[r].at = "wiring" /\ Settle(r, s)
      /\ sess' = [sess EXCEPT ![s].synced = TRUE]
      /\ refs' = [refs EXCEPT ![r].status = "idle"]
      /\ adopted' = Timed(adopted, r, "idle")
  BY DEF Revived
<1>2. s \in Sessions /\ s # 0 /\ s \in 0..MaxSessions /\ sess[s].ref = r /\ r # 0 /\ ~sess[s].synced
  BY <1>0, <1>1 DEF FleetIInv, RevivalsHeld, RevivalWires, Ranges
<1>3. park.at = "none"
  BY <1>0, <1>1, <1>2 DEF FleetIInv, Listening, ParkRegistered, ParkYields, ParkHeld, ParkDisposes, TypeOK,
     ParkType
<1>4. /\ \A q \in Refs : q # r => revival'[q] = revival[q]
      /\ revival'[r].at = "none" /\ revival'[r].session = 0
  BY <1>0, <1>1, <1>2, SettleEffect
<1>5. \A m \in Messages : \/ msgs'[m] = msgs[m]
                          \/ /\ msgs[m].at = "reviving" /\ msgs[m].ref = r
                             /\ msgs'[m].at = "got" /\ msgs'[m].got = s
                             /\ msgs'[m].receipt = msgs[m].receipt
  BY <1>0, <1>1, <1>2, SettleEffect
<1>6. /\ \A q \in Sessions : q # s => sess'[q] = sess[q]
      /\ sess'[s].at = sess[s].at /\ sess'[s].ref = r /\ sess'[s].by = sess[s].by /\ sess'[s].synced
      /\ sess'[s].turn = sess[s].turn /\ sess'[s].early = sess[s].early
  BY <1>0, <1>1, <1>2 DEF TypeOK, SessionType
<1>7. /\ \A q \in Refs : q # r => refs'[q] = refs[q]
      /\ refs'[r].status = "idle" /\ refs'[r].session = s
  BY <1>0, <1>1 DEF TypeOK, RefType
<1>8. /\ adopted' \in AdoptType
      /\ adopted'.ref = adopted.ref /\ adopted'.revive = adopted.revive
      /\ adopted.ref = r => adopted'.timer
      /\ adopted.ref # r => adopted'.timer = adopted.timer
  BY <1>0, <1>1, <1>3 DEF Timed, TypeOK, AdoptType
<1>9. UNCHANGED <<current, park, disposed, kills, waiter, mailbox, faults, hurt>>
  BY DEF Revived, history
<1>10. TypeOK'
  <2>1. revival' \in [Refs -> RevivalType] /\ msgs' \in [Messages -> SendType]
    BY <1>0, <1>1, <1>2, SettleEffect
  <2>2. sess' \in [Sessions -> SessionType]
    <3>1. \A x \in SessionType : [x EXCEPT !.synced = TRUE] \in SessionType
      BY DEF SessionType
    <3>2. sess' = [sess EXCEPT ![s] = [sess[s] EXCEPT !.synced = TRUE]]
      BY <1>1
    <3> QED BY <1>0, <1>2, <3>1, <3>2 DEF TypeOK
  <2>3. refs' \in [Refs -> RefType]
    BY <1>0, <1>1 DEF TypeOK, RefType
  <2> QED BY <1>0, <1>8, <1>9, <2>1, <2>2, <2>3 DEF TypeOK
<1> USE <1>0, <1>1, <1>2, <1>3, <1>4, <1>5, <1>6, <1>7, <1>8, <1>9 DEF FleetIInv, Ranges
<1> HIDE <1>1
<1>11. NoOrphan'
  BY DEF NoOrphan, Live
<1>12. Referred'
  <2>1. CurrentUsed' /\ AdoptedUsed' /\ RefsUsed' /\ SessionsUsed'
    BY DEF Referred, CurrentUsed, AdoptedUsed, RefsUsed, SessionsUsed
  <2>2. KillsUsed' /\ ParkUsed'
    BY DEF Referred, KillsUsed, ParkUsed
  <2> QED BY ONLY <2>1, <2>2 DEF Referred
<1>13. AttachedOnce'
  <2>1. AttachedRight'
    BY SMTT(30) DEF AttachedOnce, AttachedRight
  <2>2. LiveAttached'
    BY DEF AttachedOnce, LiveAttached, Referred, SessionsUsed
  <2>3. DisposingDue' /\ DisposingBy'
    BY DEF AttachedOnce, DisposingDue, DisposingBy, Referred, SessionsUsed
  <2>4. TurnsSeen'
    BY SMTT(30) DEF AttachedOnce, TurnsSeen, Referred, SessionsUsed
  <2> QED BY ONLY <2>1, <2>2, <2>3, <2>4 DEF AttachedOnce
<1>14. RevivalsHeld'
  BY SMTT(30) DEF RevivalsHeld, RevivalStarts, RevivalWires
<1>15. ParkHeld'
  BY DEF ParkHeld, ParkOwns, ParkDisposes, ParkRests, Referred, ParkUsed
<1>16. KillsHeld'
  <2>1. KillWaits'
    <3> SUFFICES ASSUME NEW k \in Killers PROVE KillWaits!(k)'
      BY DEF KillWaits
    <3>1. KillWaits!(k) BY DEF KillsHeld, KillWaits
    <3>2. kills[k].at \in {"parking", "ready"} => kills[k].ref \in Refs
      BY DEF Referred, KillsUsed
    <3>3. sess[s].by # "first"
      BY <1>1 DEF RevivalsHeld, RevivalWires
    <3>4. UNCHANGED <<current, kills, park>> /\ adopted'.ref = adopted.ref
      BY <1>8, <1>9
    <3> QED BY ONLY SMTT(30), <1>0, <1>2, <1>6, <1>7, <3>1, <3>2, <3>3, <3>4
  <2>2. KillTook'
    BY DEF KillsHeld, KillWaits, KillTook, Referred, KillsUsed
  <2>3. KillDisposes'
    BY DEF KillsHeld, KillDisposes, KillTook, Referred, KillsUsed
  <2> QED BY ONLY <2>1, <2>2, <2>3 DEF KillsHeld
<1>17. Listening'
  <2>1. AdoptedRan' /\ AdoptedLives'
    BY SMTT(30) DEF Listening, AdoptedRan, AdoptedLives
  <2>2. ParkRegistered'
    BY DEF Listening, ParkRegistered, Referred, ParkUsed
  <2>3. ParkYields'
    BY DEF Listening, ParkYields, ParkRegistered, Referred, ParkUsed
  <2>4. IdleWillBeTimed'
    BY DEF Listening, IdleWillBeTimed
  <2> QED BY ONLY <2>1, <2>2, <2>3, <2>4 DEF Listening
<1>18. UnhurtAll'
  <2>1. Unhurt'
    BY DEF UnhurtAll, Unhurt
  <2>2. UnhurtSessions'
    BY DEF UnhurtAll, Unhurt, UnhurtSessions
  <2>3. UnhurtSends'
    BY DEF UnhurtAll, Unhurt, UnhurtSends
  <2> QED BY ONLY <2>1, <2>2, <2>3 DEF UnhurtAll
<1> QED BY <1>10, <1>11, <1>12, <1>13, <1>14, <1>15, <1>16, <1>17, <1>18

(* A kill takes its ref for dead: the ref is aborted and detached at once. *)
LEMMA TombstoneTaken ==
    ASSUME FleetIInv, NEW k \in Killers, NEW r \in Refs, Used(r), Take(k, r, "tombstone"),
           kills[k].at \in {"none", "ready"}, park.at # "none" => park.ref # r,
           adopted' \in {adopted, NoAdoption}, current = r => adopted'.ref # r,
           disposed' \in BOOLEAN, disposed => disposed', hurt' = TRUE,
           UNCHANGED <<park, revival, msgs, waiter, mailbox>>
    PROVE  FleetIInv'
<1>0. Ranges /\ TypeOK BY TypedRanges DEF FleetIInv
<1>1. adopted' = adopted \/ adopted'.ref = 0
  BY DEF NoAdoption
<1>2. adopted' \in AdoptType
  BY <1>0, RestTyped DEF TypeOK
<1>3. /\ current' = current /\ sess' = sess
      /\ kills' = [kills EXCEPT ![k] =
                     [at |-> "persist", how |-> "tombstone", ref |-> r, session |-> Captured(r, "tombstone")]]
      /\ refs' = IF current = r THEN [refs EXCEPT ![r] = [status |-> "aborted", session |-> 0]] ELSE refs
  BY DEF Take
<1>4. /\ \A j \in Killers : j # k => kills'[j] = kills[j]
      /\ kills'[k].at = "persist" /\ kills'[k].how = "tombstone" /\ kills'[k].ref = r
      /\ kills'[k].session = IF current = r THEN refs[r].session ELSE 0
  BY <1>0, <1>3 DEF TypeOK, Captured
<1>5. /\ \A q \in Refs : q # r => refs'[q] = refs[q]
      /\ current = r => refs'[r].status = "aborted" /\ refs'[r].session = 0
      /\ current # r => refs'[r] = refs[r]
  BY <1>0, <1>3 DEF TypeOK
<1>6. TypeOK'
  <2>1. [status |-> "aborted", session |-> 0] \in RefType
    BY <1>0 DEF RefType, Ranges
  <2>2. refs' \in [Refs -> RefType]
    BY <1>0, <1>3, <2>1 DEF TypeOK
  <2>3. Captured(r, "tombstone") \in 0..MaxSessions /\ r \in 0..MaxRefs
    BY <1>0 DEF Captured, Ranges
  <2>4. [at |-> "persist", how |-> "tombstone", ref |-> r, session |-> Captured(r, "tombstone")] \in KillType
    BY ONLY <2>3 DEF KillType
  <2>5. kills' \in [Killers -> KillType]
    BY <1>0, <1>3, <2>4 DEF TypeOK
  <2> QED BY <1>0, <1>2, <1>3, <2>2, <2>5 DEF TypeOK
<1>7. current' = current /\ sess' = sess
  BY <1>3
<1> USE <1>0, <1>1, <1>4, <1>5, <1>7 DEF FleetIInv, Ranges
<1>8. NoOrphan'
  BY SMTT(30) DEF NoOrphan, Live, KillsHeld, KillWaits
<1>9. Referred'
  <2>1. CurrentUsed' /\ AdoptedUsed' /\ RefsUsed' /\ SessionsUsed'
    BY DEF Referred, CurrentUsed, AdoptedUsed, RefsUsed, SessionsUsed
  <2>2. KillsUsed' /\ ParkUsed'
    BY DEF Referred, KillsUsed, ParkUsed
  <2> QED BY ONLY <2>1, <2>2 DEF Referred
<1>10. AttachedOnce'
  <2>1. AttachedRight'
    BY DEF AttachedOnce, AttachedRight
  <2>2. LiveAttached'
    BY DEF AttachedOnce, LiveAttached, Referred, SessionsUsed
  <2>3. DisposingDue' /\ DisposingBy'
    BY DEF AttachedOnce, DisposingDue, DisposingBy, Referred, SessionsUsed
  <2>4. TurnsSeen'
    BY DEF AttachedOnce, TurnsSeen, Referred, SessionsUsed
  <2> QED BY ONLY <2>1, <2>2, <2>3, <2>4 DEF AttachedOnce
<1>11. RevivalsHeld'
  BY DEF RevivalsHeld, RevivalStarts, RevivalWires
<1>12. ParkHeld'
  BY DEF ParkHeld, ParkOwns, ParkDisposes, ParkRests, Referred, ParkUsed
<1>13. KillsHeld'
  <2>1. KillWaits'
    BY DEF KillsHeld, KillWaits, Referred, KillsUsed
  <2>2. KillTook'
    BY DEF KillsHeld, KillWaits, KillTook, Referred, KillsUsed, AttachedOnce,
       AttachedRight
  <2>3. KillDisposes'
    BY DEF KillsHeld, KillDisposes, KillTook, Referred, KillsUsed
  <2> QED BY ONLY <2>1, <2>2, <2>3 DEF KillsHeld
<1>14. Listening'
  <2>1. AdoptedRan' /\ AdoptedLives'
    BY DEF Listening, AdoptedRan, AdoptedLives
  <2>2. ParkRegistered'
    BY DEF Listening, ParkRegistered, Referred, ParkUsed
  <2>3. ParkYields'
    BY DEF Listening, ParkYields, ParkRegistered, Referred, ParkUsed
  <2>4. IdleWillBeTimed'
    BY DEF Listening, IdleWillBeTimed
  <2> QED BY ONLY <2>1, <2>2, <2>3, <2>4 DEF Listening
<1>15. UnhurtAll'
  <2>1. Unhurt'
    BY DEF UnhurtAll, Unhurt
  <2>2. UnhurtSessions'
    BY DEF UnhurtAll, Unhurt, UnhurtSessions
  <2>3. UnhurtSends'
    BY DEF UnhurtAll, Unhurt, UnhurtSends
  <2> QED BY ONLY <2>1, <2>2, <2>3 DEF UnhurtAll
<1> QED BY <1>6, <1>8, <1>9, <1>10, <1>11, <1>12, <1>13, <1>14, <1>15

(* A kill takes a ref that has a session: the session is disposed first.   *)
LEMMA SessionTaken ==
    ASSUME FleetIInv, NEW k \in Killers, NEW r \in Refs, Used(r), Take(k, r, "release"),
           Captured(r, "release") # 0,
           kills[k].at \in {"none", "ready"}, park.at # "none" => park.ref # r,
           adopted' \in {adopted, NoAdoption}, current = r => adopted'.ref # r,
           disposed' \in BOOLEAN, disposed => disposed', hurt' = TRUE,
           UNCHANGED <<park, revival, msgs, waiter, mailbox>>
    PROVE  FleetIInv'
<1> DEFINE s == refs[r].session
<1>0. Ranges /\ TypeOK BY TypedRanges DEF FleetIInv
<1>1. adopted' = adopted \/ adopted'.ref = 0
  BY DEF NoAdoption
<1>2. adopted' \in AdoptType
  BY <1>0, RestTyped DEF TypeOK
<1>3. current = r /\ s # 0 /\ s \in Sessions /\ Captured(r, "release") = s
  BY <1>0 DEF Captured, Ranges
<1>4. /\ UNCHANGED <<current, refs>> /\ sess' = Disposing(s, "release")
      /\ kills' = [kills EXCEPT ![k] = [at |-> "dispose", how |-> "release", ref |-> r, session |-> s]]
  BY <1>3 DEF Take
<1>5. /\ \A j \in Killers : j # k => kills'[j] = kills[j]
      /\ kills'[k].at = "dispose" /\ kills'[k].how = "release" /\ kills'[k].ref = r /\ kills'[k].session = s
  BY <1>0, <1>4 DEF TypeOK
<1>6. /\ \A q \in Sessions : q # s => sess'[q] = sess[q]
      /\ sess[s].at # "live" => sess'[s] = sess[s]
      /\ sess[s].at = "live" => /\ sess'[s].at = "disposing" /\ sess'[s].by = "release"
                                /\ sess'[s].ref = r /\ sess'[s].synced = sess[s].synced
  <2>1. sess[s].ref = r
    BY <1>3 DEF FleetIInv, AttachedOnce, AttachedRight
  <2> QED BY <1>0, <1>3, <1>4, <2>1, DisposalBegins DEF Disposing, TypeOK
<1>7. TypeOK'
  <2>1. sess' \in [Sessions -> SessionType]
    BY <1>0, <1>3, <1>4, DisposalBegins DEF Disposing, TypeOK
  <2>2. s \in 0..MaxSessions /\ r \in 0..MaxRefs
    BY <1>0 DEF Ranges
  <2>3. [at |-> "dispose", how |-> "release", ref |-> r, session |-> s] \in KillType
    BY ONLY <2>2 DEF KillType
  <2>4. kills' \in [Killers -> KillType]
    BY <1>0, <1>4, <2>3 DEF TypeOK
  <2> QED BY <1>0, <1>2, <1>4, <2>1, <2>4 DEF TypeOK
<1>8. /\ sess[s].ref = r /\ sess[s].at # "none" /\ ~Aborted(r)
      /\ park.at # "none" => park.session # s
  BY <1>0, <1>3 DEF FleetIInv, AttachedOnce, AttachedRight, Referred, ParkUsed
<1>9. UNCHANGED <<current, refs>>
  BY <1>4
<1> USE <1>0, <1>1, <1>3, <1>5, <1>6, <1>8, <1>9 DEF FleetIInv, Ranges
<1>10. NoOrphan'
  BY DEF NoOrphan, Live, KillsHeld, KillWaits
<1>11. Referred'
  <2>1. CurrentUsed' /\ AdoptedUsed' /\ RefsUsed' /\ SessionsUsed'
    BY DEF Referred, CurrentUsed, AdoptedUsed, RefsUsed, SessionsUsed
  <2>2. KillsUsed' /\ ParkUsed'
    BY DEF Referred, KillsUsed, ParkUsed
  <2> QED BY ONLY <2>1, <2>2 DEF Referred
<1>12. AttachedOnce'
  <2>1. AttachedRight'
    BY DEF AttachedOnce, AttachedRight
  <2>2. LiveAttached'
    BY DEF AttachedOnce, LiveAttached, Referred, SessionsUsed
  <2>3. DisposingDue' /\ DisposingBy'
    BY DEF AttachedOnce, DisposingDue, DisposingBy, Referred, SessionsUsed
  <2>4. TurnsSeen'
    BY DEF AttachedOnce, TurnsSeen, Referred, SessionsUsed
  <2> QED BY ONLY <2>1, <2>2, <2>3, <2>4 DEF AttachedOnce
<1>13. RevivalsHeld'
  BY SMTT(30) DEF RevivalsHeld, RevivalStarts, RevivalWires
<1>14. ParkHeld'
  BY DEF ParkHeld, ParkOwns, ParkDisposes, ParkRests, Referred, ParkUsed
<1>15. KillsHeld'
  <2>1. KillWaits'
    <3> SUFFICES ASSUME NEW j \in Killers PROVE KillWaits!(j)'
      BY DEF KillWaits
    <3>1. KillWaits!(j) BY DEF KillsHeld, KillWaits
    <3>2. kills[j].at \in {"parking", "ready"} => kills[j].ref \in Refs
      BY DEF Referred, KillsUsed
    <3>3. CASE j = k
      BY <3>3
    <3>4. CASE j # k
      BY SMTT(30), <3>1, <3>2, <3>4
    <3> QED BY ONLY <3>3, <3>4
  <2>2. KillTook'
    BY SMTT(30) DEF KillsHeld, KillWaits, KillTook, Referred, KillsUsed
  <2>3. KillDisposes'
    <3> SUFFICES ASSUME NEW j \in Killers PROVE KillDisposes!(j)'
      BY DEF KillDisposes
    <3>1. KillDisposes!(j) /\ KillTook!(j)
      BY DEF KillsHeld, KillDisposes, KillTook
    <3>2. kills[j].at = "dispose" => kills[j].ref \in Refs /\ kills[j].session \in Sessions
      BY DEF Referred, KillsUsed, KillsHeld, KillDisposes
    <3>3. CASE j = k
      BY <3>3
    <3>4. CASE j # k
      BY <3>1, <3>2, <3>4
    <3> QED BY ONLY <3>3, <3>4
  <2> QED BY ONLY <2>1, <2>2, <2>3 DEF KillsHeld
<1>16. Listening'
  <2>1. AdoptedRan' /\ AdoptedLives'
    BY DEF Listening, AdoptedRan, AdoptedLives
  <2>2. ParkRegistered'
    BY DEF Listening, ParkRegistered, Referred, ParkUsed
  <2>3. ParkYields'
    BY DEF Listening, ParkYields, ParkRegistered, Referred, ParkUsed
  <2>4. IdleWillBeTimed'
    BY DEF Listening, IdleWillBeTimed
  <2> QED BY ONLY <2>1, <2>2, <2>3, <2>4 DEF Listening
<1>17. UnhurtAll'
  <2>1. Unhurt'
    BY DEF UnhurtAll, Unhurt
  <2>2. UnhurtSessions'
    BY DEF UnhurtAll, Unhurt, UnhurtSessions
  <2>3. UnhurtSends'
    BY DEF UnhurtAll, Unhurt, UnhurtSends
  <2> QED BY ONLY <2>1, <2>2, <2>3 DEF UnhurtAll
<1> QED BY <1>7, <1>10, <1>11, <1>12, <1>13, <1>14, <1>15, <1>16, <1>17

(* A kill takes a ref without a session, or one that is no longer the      *)
(* registered one: it is forgotten.                                        *)
LEMMA RefTaken ==
    ASSUME FleetIInv, NEW k \in Killers, NEW r \in Refs, Used(r), Take(k, r, "release"),
           Captured(r, "release") = 0,
           kills[k].at \in {"none", "ready"}, park.at # "none" => park.ref # r,
           adopted' \in {adopted, NoAdoption}, current = r => adopted'.ref # r,
           disposed' \in BOOLEAN, disposed => disposed', hurt' = TRUE,
           UNCHANGED <<park, revival, msgs, waiter, mailbox>>
    PROVE  FleetIInv'
<1>0. Ranges /\ TypeOK BY TypedRanges DEF FleetIInv
<1>1. adopted' = adopted \/ adopted'.ref = 0
  BY DEF NoAdoption
<1>2. adopted' \in AdoptType
  BY <1>0, RestTyped DEF TypeOK
<1>3. /\ UNCHANGED <<refs, sess>> /\ current' = (IF current = r THEN 0 ELSE current)
      /\ kills' = [kills EXCEPT ![k] = Over]
  BY DEF Take
<1>4. current = r => Of(r) = 0
  BY DEF Captured
<1>5. /\ \A j \in Killers : j # k => kills'[j] = kills[j]
      /\ kills'[k].at = "done" /\ kills'[k].session = 0
  <2>1. Over.at = "done" /\ Over.session = 0
    BY DEF Over, NoKill
  <2> QED BY <1>0, <1>3, <2>1 DEF TypeOK
<1>6. TypeOK'
  <2>1. kills' \in [Killers -> KillType]
    BY <1>0, <1>3, RestTyped DEF TypeOK
  <2>2. current' \in 0..MaxRefs
    BY <1>0, <1>3 DEF Ranges
  <2> QED BY <1>0, <1>2, <1>3, <2>1, <2>2 DEF TypeOK
<1>7. UNCHANGED <<refs, sess>> /\ current' = (IF current = r THEN 0 ELSE current)
  BY <1>3
<1> USE <1>0, <1>1, <1>4, <1>5, <1>7 DEF FleetIInv, Ranges
<1>8. NoOrphan'
  BY DEF NoOrphan, Live, KillsHeld, KillWaits
<1>9. Referred'
  <2>1. CurrentUsed' /\ AdoptedUsed' /\ RefsUsed' /\ SessionsUsed'
    BY DEF Referred, CurrentUsed, AdoptedUsed, RefsUsed, SessionsUsed
  <2>2. KillsUsed' /\ ParkUsed'
    BY DEF Referred, KillsUsed, ParkUsed
  <2> QED BY ONLY <2>1, <2>2 DEF Referred
<1>10. AttachedOnce'
  <2>1. AttachedRight'
    BY DEF AttachedOnce, AttachedRight
  <2>2. LiveAttached'
    BY DEF AttachedOnce, LiveAttached, Referred, SessionsUsed
  <2>3. DisposingDue' /\ DisposingBy'
    BY DEF AttachedOnce, DisposingDue, DisposingBy, Referred, SessionsUsed
  <2>4. TurnsSeen'
    BY DEF AttachedOnce, TurnsSeen, Referred, SessionsUsed
  <2> QED BY ONLY <2>1, <2>2, <2>3, <2>4 DEF AttachedOnce
<1>11. RevivalsHeld'
  BY DEF RevivalsHeld, RevivalStarts, RevivalWires
<1>12. ParkHeld'
  BY DEF ParkHeld, ParkOwns, ParkDisposes, ParkRests, Referred, ParkUsed
<1>13. KillsHeld'
  <2>1. KillWaits'
    BY DEF KillsHeld, KillWaits, Referred, KillsUsed
  <2>2. KillTook'
    BY DEF KillsHeld, KillWaits, KillTook, Referred, KillsUsed
  <2>3. KillDisposes'
    BY DEF KillsHeld, KillDisposes, KillTook, Referred, KillsUsed
  <2> QED BY ONLY <2>1, <2>2, <2>3 DEF KillsHeld
<1>14. Listening'
  <2>1. AdoptedRan' /\ AdoptedLives'
    BY DEF Listening, AdoptedRan, AdoptedLives
  <2>2. ParkRegistered'
    BY DEF Listening, ParkRegistered, Referred, ParkUsed
  <2>3. ParkYields'
    BY DEF Listening, ParkYields, ParkRegistered, Referred, ParkUsed
  <2>4. IdleWillBeTimed'
    BY DEF Listening, IdleWillBeTimed
  <2> QED BY ONLY <2>1, <2>2, <2>3, <2>4 DEF Listening
<1>15. UnhurtAll'
  <2>1. Unhurt'
    BY DEF UnhurtAll, Unhurt
  <2>2. UnhurtSessions'
    BY DEF UnhurtAll, Unhurt, UnhurtSessions
  <2>3. UnhurtSends'
    BY DEF UnhurtAll, Unhurt, UnhurtSends
  <2> QED BY ONLY <2>1, <2>2, <2>3 DEF UnhurtAll
<1> QED BY <1>6, <1>8, <1>9, <1>10, <1>11, <1>12, <1>13, <1>14, <1>15

(* A release awaits the park of its ref; it cancels one that has not       *)
(* committed.                                                              *)
LEMMA ReleaseWaits ==
    ASSUME FleetIInv, NEW k \in Killers, NEW r \in Refs, Used(r), NEW how \in {"release", "tombstone"},
           park.at # "none", park.ref = r, kills[k].at = "none", current \in {0, r},
           adopted' = (IF adopted.ref = r THEN NoAdoption ELSE adopted),
           park' = [park EXCEPT !.cancelled = @ \/ park.at = "yield"],
           kills' = [kills EXCEPT ![k] = [at |-> "parking", how |-> how, ref |-> r, session |-> 0]],
           disposed' \in BOOLEAN, disposed => disposed', hurt' = TRUE,
           UNCHANGED <<current, refs, sess, revival, msgs, waiter, mailbox>>
    PROVE  FleetIInv'
<1>0. Ranges /\ TypeOK BY TypedRanges DEF FleetIInv
<1>1. IF adopted.ref = r THEN adopted'.ref = 0 ELSE adopted' = adopted
  BY DEF NoAdoption
<1>2. /\ park'.at = park.at /\ park'.ref = park.ref /\ park'.session = park.session
      /\ park.at = "dispose" => park'.cancelled = park.cancelled
      /\ park' \in ParkType
  BY <1>0 DEF TypeOK, ParkType
<1>3. /\ \A j \in Killers : j # k => kills'[j] = kills[j]
      /\ kills'[k].at = "parking" /\ kills'[k].how = how /\ kills'[k].ref = r /\ kills'[k].session = 0
  BY <1>0 DEF TypeOK
<1>4. TypeOK'
  <2>1. adopted' \in AdoptType
    BY <1>0, RestTyped DEF TypeOK
  <2>2. 0 \in 0..MaxSessions /\ r \in 0..MaxRefs
    BY <1>0 DEF Ranges
  <2>3. [at |-> "parking", how |-> how, ref |-> r, session |-> 0] \in KillType
    BY ONLY <2>2, how \in {"release", "tombstone"} DEF KillType
  <2>4. kills' \in [Killers -> KillType]
    BY <1>0, <2>3 DEF TypeOK
  <2> QED BY <1>0, <1>2, <2>1, <2>4 DEF TypeOK
<1> USE <1>0, <1>1, <1>2, <1>3 DEF FleetIInv, Ranges
<1>5. NoOrphan'
  BY DEF NoOrphan, Live, KillsHeld, KillWaits
<1>6. Referred'
  <2>1. CurrentUsed' /\ AdoptedUsed' /\ RefsUsed' /\ SessionsUsed'
    BY DEF Referred, CurrentUsed, AdoptedUsed, RefsUsed, SessionsUsed
  <2>2. KillsUsed' /\ ParkUsed'
    BY DEF Referred, KillsUsed, ParkUsed
  <2> QED BY ONLY <2>1, <2>2 DEF Referred
<1>7. AttachedOnce'
  <2>1. AttachedRight'
    BY DEF AttachedOnce, AttachedRight
  <2>2. LiveAttached'
    BY DEF AttachedOnce, LiveAttached, Referred, SessionsUsed
  <2>3. DisposingDue' /\ DisposingBy'
    BY DEF AttachedOnce, DisposingDue, DisposingBy, Referred, SessionsUsed
  <2>4. TurnsSeen'
    BY DEF AttachedOnce, TurnsSeen, Referred, SessionsUsed
  <2> QED BY ONLY <2>1, <2>2, <2>3, <2>4 DEF AttachedOnce
<1>8. RevivalsHeld'
  BY DEF RevivalsHeld, RevivalStarts, RevivalWires
<1>9. ParkHeld'
  BY DEF ParkHeld, ParkOwns, ParkDisposes, ParkRests, Referred, ParkUsed
<1>10. KillsHeld'
  <2>1. KillWaits'
    BY DEF KillsHeld, KillWaits, Referred, KillsUsed, ParkHeld, ParkOwns
  <2>2. KillTook'
    BY DEF KillsHeld, KillWaits, KillTook, Referred, KillsUsed
  <2>3. KillDisposes'
    BY DEF KillsHeld, KillDisposes, KillTook, Referred, KillsUsed
  <2> QED BY ONLY <2>1, <2>2, <2>3 DEF KillsHeld
<1>11. Listening'
  <2>1. AdoptedRan' /\ AdoptedLives'
    BY DEF Listening, AdoptedRan, AdoptedLives
  <2>2. ParkRegistered'
    BY DEF Listening, ParkRegistered, Referred, ParkUsed
  <2>3. ParkYields'
    BY DEF Listening, ParkYields, ParkRegistered, Referred, ParkUsed
  <2>4. IdleWillBeTimed'
    BY DEF Listening, IdleWillBeTimed
  <2> QED BY ONLY <2>1, <2>2, <2>3, <2>4 DEF Listening
<1>12. UnhurtAll'
  <2>1. Unhurt'
    BY DEF UnhurtAll, Unhurt
  <2>2. UnhurtSessions'
    BY DEF UnhurtAll, Unhurt, UnhurtSessions
  <2>3. UnhurtSends'
    BY DEF UnhurtAll, Unhurt, UnhurtSends
  <2> QED BY ONLY <2>1, <2>2, <2>3 DEF UnhurtAll
<1> QED BY <1>4, <1>5, <1>6, <1>7, <1>8, <1>9, <1>10, <1>11, <1>12

(* The sidecar of a tombstone is written: its session is disposed. *)
LEMMA WrittenStep ==
    ASSUME FleetIInv, NEW k \in Killers, TombstoneWritten(k)
    PROVE  FleetIInv'
<1> DEFINE s == kills[k].session
           r == kills[k].ref
<1>0. Ranges /\ TypeOK BY TypedRanges DEF FleetIInv
<1>1. /\ kills[k].at = "persist" /\ sess' = Disposing(s, "tombstone")
      /\ kills' = [kills EXCEPT ![k] = IF @.session = 0 THEN Over ELSE [@ EXCEPT !.at = "dispose"]]
  BY DEF TombstoneWritten
<1>2. UNCHANGED <<current, refs, adopted, park, revival, disposed, msgs, waiter, mailbox, faults, hurt>>
  BY DEF TombstoneWritten, registry, bus, history
<1>3. /\ r # 0 /\ r \in Refs /\ kills[k].how # "none"
      /\ s # 0 => s \in Sessions /\ sess[s].ref = r /\ Aborted(r) /\ sess[s].at # "none"
      /\ s # 0 /\ park.at # "none" => park.ref # r /\ park.session # s
  BY <1>0, <1>1 DEF FleetIInv, Referred, KillsUsed, SessionsUsed, ParkUsed, KillsHeld, KillTook, Ranges
<1>4. /\ \A j \in Killers : j # k => kills'[j] = kills[j]
      /\ s = 0 => kills'[k].at = "done" /\ kills'[k].session = 0
      /\ s # 0 => /\ kills'[k].at = "dispose" /\ kills'[k].how = kills[k].how
                  /\ kills'[k].ref = r /\ kills'[k].session = s
  <2>1. Over.at = "done" /\ Over.session = 0
    BY DEF Over, NoKill
  <2> QED BY <1>0, <1>1, <2>1 DEF TypeOK, KillType
<1>5. /\ \A q \in Sessions : q # s => sess'[q] = sess[q]
      /\ s # 0 /\ sess[s].at # "live" => sess'[s] = sess[s]
      /\ s # 0 /\ sess[s].at = "live" => /\ sess'[s].at = "disposing" /\ sess'[s].by = "tombstone"
                                         /\ sess'[s].ref = r /\ sess'[s].synced = sess[s].synced
  BY <1>0, <1>1, <1>3, DisposalBegins DEF Disposing, TypeOK
<1>6. TypeOK'
  <2>1. sess' \in [Sessions -> SessionType]
    BY <1>0, <1>1, <1>3, DisposalBegins DEF Disposing, TypeOK
  <2>2. \A x \in KillType : [x EXCEPT !.at = "dispose"] \in KillType
    BY DEF KillType
  <2>3. kills' \in [Killers -> KillType]
    BY <1>0, <1>1, <2>2, RestTyped DEF TypeOK
  <2> QED BY <1>0, <1>2, <2>1, <2>3 DEF TypeOK
<1>7. kills[k].at = "persist" /\ (s # 0 => Of(r) = 0)
  BY <1>1, <1>3 DEF FleetIInv, AttachedOnce, AttachedRight
<1>8. hurt
  BY <1>1 DEF FleetIInv, UnhurtAll, Unhurt
<1> USE <1>0, <1>2, <1>3, <1>4, <1>5, <1>7, <1>8 DEF FleetIInv, Ranges
<1>9. NoOrphan'
  BY DEF NoOrphan, Live
<1>10. Referred'
  <2>1. CurrentUsed' /\ AdoptedUsed' /\ RefsUsed' /\ SessionsUsed'
    BY DEF Referred, CurrentUsed, AdoptedUsed, RefsUsed, SessionsUsed
  <2>2. KillsUsed' /\ ParkUsed'
    BY DEF Referred, KillsUsed, ParkUsed
  <2> QED BY ONLY <2>1, <2>2 DEF Referred
<1>11. AttachedOnce'
  <2>1. AttachedRight'
    BY DEF AttachedOnce, AttachedRight
  <2>2. LiveAttached'
    BY DEF AttachedOnce, LiveAttached, Referred, SessionsUsed
  <2>3. DisposingDue' /\ DisposingBy'
    BY DEF AttachedOnce, DisposingDue, DisposingBy, Referred, SessionsUsed
  <2>4. TurnsSeen'
    BY DEF AttachedOnce, TurnsSeen, Referred, SessionsUsed
  <2> QED BY ONLY <2>1, <2>2, <2>3, <2>4 DEF AttachedOnce
<1>12. RevivalsHeld'
  BY SMTT(30) DEF RevivalsHeld, RevivalStarts, RevivalWires
<1>13. ParkHeld'
  BY DEF ParkHeld, ParkOwns, ParkDisposes, ParkRests, Referred, ParkUsed
<1>14. KillsHeld'
  <2>1. KillWaits'
    BY SMTT(30) DEF KillsHeld, KillWaits, Referred, KillsUsed
  <2>2. KillTook'
    BY DEF KillsHeld, KillWaits, KillTook, Referred, KillsUsed
  <2>3. KillDisposes'
    <3> SUFFICES ASSUME NEW j \in Killers PROVE KillDisposes!(j)'
      BY DEF KillDisposes
    <3>1. KillDisposes!(j) /\ KillTook!(j)
      BY DEF KillsHeld, KillDisposes, KillTook
    <3>2. kills[j].at = "dispose" => kills[j].ref \in Refs /\ kills[j].session \in Sessions
      BY DEF Referred, KillsUsed, KillsHeld, KillDisposes
    <3>3. CASE j = k
      BY <3>3
    <3>4. CASE j # k
      BY <3>1, <3>2, <3>4
    <3> QED BY ONLY <3>3, <3>4
  <2> QED BY ONLY <2>1, <2>2, <2>3 DEF KillsHeld
<1>15. Listening'
  <2>1. AdoptedRan' /\ AdoptedLives'
    BY DEF Listening, AdoptedRan, AdoptedLives, AttachedOnce, AttachedRight
  <2>2. ParkRegistered'
    BY DEF Listening, ParkRegistered, Referred, ParkUsed
  <2>3. ParkYields'
    BY DEF Listening, ParkYields, ParkRegistered, Referred, ParkUsed
  <2>4. IdleWillBeTimed'
    BY DEF Listening, IdleWillBeTimed
  <2> QED BY ONLY <2>1, <2>2, <2>3, <2>4 DEF Listening
<1>16. UnhurtAll'
  <2>1. Unhurt'
    BY DEF UnhurtAll, Unhurt
  <2>2. UnhurtSessions'
    BY DEF UnhurtAll, Unhurt, UnhurtSessions
  <2>3. UnhurtSends'
    BY DEF UnhurtAll, Unhurt, UnhurtSends
  <2> QED BY ONLY <2>1, <2>2, <2>3 DEF UnhurtAll
<1> QED BY <1>6, <1>9, <1>10, <1>11, <1>12, <1>13, <1>14, <1>15, <1>16

(* The session of a kill is gone: its ref is forgotten, unless it is a     *)
(* tombstone.                                                              *)
LEMMA KillEndsStep ==
    ASSUME FleetIInv, NEW k \in Killers, KillEnds(k)
    PROVE  FleetIInv'
<1> DEFINE s == kills[k].session
           r == kills[k].ref
<1>0. Ranges /\ TypeOK BY TypedRanges DEF FleetIInv
<1>1. /\ kills[k].at = "dispose" /\ sess[s].at = "gone"
      /\ kills' = [kills EXCEPT ![k] = Over]
  BY DEF KillEnds
<1>2. r # 0 /\ r \in Refs /\ s # 0 /\ s \in Sessions /\ sess[s].ref = r
  BY <1>0, <1>1 DEF FleetIInv, Referred, KillsUsed, KillsHeld, KillTook, KillDisposes, Ranges
<1>3. /\ current' \in {current, 0} /\ adopted' \in {adopted, NoAdoption}
      /\ current' # current => current = r
      /\ adopted' # adopted => current = r /\ current' = 0
      /\ current' # current /\ adopted.ref = r /\ ~disposed => adopted' = NoAdoption
  BY <1>2 DEF KillEnds, Unregister
<1>4. /\ \A j \in Killers : j # k => kills'[j] = kills[j]
      /\ kills'[k].at = "done" /\ kills'[k].session = 0
  <2>1. Over.at = "done" /\ Over.session = 0
    BY DEF Over, NoKill
  <2> QED BY <1>0, <1>1, <2>1 DEF TypeOK
<1>5. UNCHANGED <<refs, sess, park, revival, disposed, msgs, waiter, mailbox, faults, hurt>>
  BY DEF KillEnds, bus, history
<1>6. TypeOK'
  <2>1. kills' \in [Killers -> KillType]
    BY <1>0, <1>1, RestTyped DEF TypeOK
  <2>2. adopted' \in AdoptType /\ current' \in 0..MaxRefs
    BY <1>0, <1>3, RestTyped DEF TypeOK, Ranges
  <2> QED BY <1>0, <1>5, <2>1, <2>2 DEF TypeOK
<1>7. /\ current = r => Of(r) \in {0, s}
      /\ park.at # "none" => park.ref # r
      /\ hurt
  <2>1. Of(r) # 0 => ~Aborted(r)
    BY <1>2 DEF FleetIInv, AttachedOnce, AttachedRight
  <2> QED BY <1>1, <1>2, <2>1 DEF FleetIInv, KillsHeld, KillTook, KillDisposes, UnhurtAll, Unhurt
<1>8. sess[s].at = "gone"
  BY <1>1
<1> USE <1>0, <1>2, <1>3, <1>4, <1>5, <1>7, <1>8 DEF FleetIInv, Ranges, NoAdoption
<1>9. NoOrphan'
  BY DEF NoOrphan, Live
<1>10. Referred'
  <2>1. CurrentUsed' /\ AdoptedUsed' /\ RefsUsed' /\ SessionsUsed'
    BY DEF Referred, CurrentUsed, AdoptedUsed, RefsUsed, SessionsUsed
  <2>2. KillsUsed' /\ ParkUsed'
    BY DEF Referred, KillsUsed, ParkUsed
  <2> QED BY ONLY <2>1, <2>2 DEF Referred
<1>11. AttachedOnce'
  <2>1. AttachedRight'
    BY DEF AttachedOnce, AttachedRight
  <2>2. LiveAttached'
    BY DEF AttachedOnce, LiveAttached, Referred, SessionsUsed
  <2>3. DisposingDue' /\ DisposingBy'
    BY DEF AttachedOnce, DisposingDue, DisposingBy, Referred, SessionsUsed
  <2>4. TurnsSeen'
    BY DEF AttachedOnce, TurnsSeen, Referred, SessionsUsed
  <2> QED BY ONLY <2>1, <2>2, <2>3, <2>4 DEF AttachedOnce
<1>12. RevivalsHeld'
  BY DEF RevivalsHeld, RevivalStarts, RevivalWires
<1>13. ParkHeld'
  BY DEF ParkHeld, ParkOwns, ParkDisposes, ParkRests, Referred, ParkUsed
<1>14. KillsHeld'
  <2>1. KillWaits'
    BY DEF KillsHeld, KillWaits, Referred, KillsUsed
  <2>2. KillTook'
    BY DEF KillsHeld, KillWaits, KillTook, Referred, KillsUsed
  <2>3. KillDisposes'
    BY DEF KillsHeld, KillDisposes, KillTook, Referred, KillsUsed
  <2> QED BY ONLY <2>1, <2>2, <2>3 DEF KillsHeld
<1>15. Listening'
  <2>1. AdoptedRan' /\ AdoptedLives'
    BY DEF Listening, AdoptedRan, AdoptedLives
  <2>2. ParkRegistered'
    BY DEF Listening, ParkRegistered, Referred, ParkUsed
  <2>3. ParkYields'
    BY DEF Listening, ParkYields, ParkRegistered, Referred, ParkUsed
  <2>4. IdleWillBeTimed'
    BY DEF Listening, IdleWillBeTimed
  <2> QED BY ONLY <2>1, <2>2, <2>3, <2>4 DEF Listening
<1>16. UnhurtAll'
  <2>1. Unhurt'
    BY DEF UnhurtAll, Unhurt
  <2>2. UnhurtSessions'
    BY DEF UnhurtAll, Unhurt, UnhurtSessions
  <2>3. UnhurtSends'
    BY DEF UnhurtAll, Unhurt, UnhurtSends
  <2> QED BY ONLY <2>1, <2>2, <2>3 DEF UnhurtAll
<1> QED BY <1>6, <1>9, <1>10, <1>11, <1>12, <1>13, <1>14, <1>15, <1>16

(* The manager is disposed: from here on it does not listen. *)
LEMMA UnheardStep ==
    ASSUME FleetIInv, disposed' = TRUE, hurt' = TRUE,
           UNCHANGED <<current, refs, sess, adopted, park, revival, kills, msgs, waiter, mailbox>>
    PROVE  FleetIInv'
<1>1. TypeOK'
  BY DEF FleetIInv, TypeOK
<1>2. NoOrphan' /\ Referred' /\ AttachedOnce' /\ RevivalsHeld' /\ ParkHeld'
  BY DEF FleetIInv, NoOrphan, Live, Referred, CurrentUsed, AdoptedUsed, RefsUsed, SessionsUsed, KillsUsed,
     ParkUsed, AttachedOnce, AttachedRight, LiveAttached, DisposingDue, DisposingBy, TurnsSeen,
     RevivalsHeld, RevivalStarts, RevivalWires, ParkHeld, ParkOwns, ParkDisposes, ParkRests
<1>3. KillsHeld' /\ Listening' /\ UnhurtAll'
  BY DEF FleetIInv, KillsHeld, KillWaits, KillTook, KillDisposes, Listening, AdoptedRan, AdoptedLives,
     ParkRegistered, ParkYields, IdleWillBeTimed, UnhurtAll, Unhurt, UnhurtSessions, UnhurtSends
<1> QED BY <1>1, <1>2, <1>3 DEF FleetIInv

(* What the stages of a send change in it. *)
LEMMA SendEffect ==
    ASSUME TypeOK, NEW m \in Messages
    PROVE  /\ \A receipt \in {"waiter", "session", "failed"} :
                Ends(m, receipt) =>
                    /\ msgs' \in [Messages -> SendType]
                    /\ \A n \in Messages : n # m => msgs'[n] = msgs[n]
                    /\ msgs'[m].at = "done" /\ msgs'[m].receipt = receipt
           /\ \A x \in 0..MaxSessions :
                msgs' = [msgs EXCEPT ![m].at = "got", ![m].got = x] =>
                    /\ msgs' \in [Messages -> SendType]
                    /\ \A n \in Messages : n # m => msgs'[n] = msgs[n]
                    /\ msgs'[m].at = "got" /\ msgs'[m].receipt = msgs[m].receipt
           /\ \A x \in 0..MaxRefs, at \in {"reviving", "cancelling"} :
                msgs' = [msgs EXCEPT ![m].at = at, ![m].ref = x] =>
                    /\ msgs' \in [Messages -> SendType]
                    /\ \A n \in Messages : n # m => msgs'[n] = msgs[n]
                    /\ msgs'[m].at = at /\ msgs'[m].ref = x /\ msgs'[m].receipt = msgs[m].receipt
           /\ msgs' = [msgs EXCEPT ![m].at = "parking"] =>
                    /\ msgs' \in [Messages -> SendType]
                    /\ \A n \in Messages : n # m => msgs'[n] = msgs[n]
                    /\ msgs'[m].at = "parking" /\ msgs'[m].receipt = msgs[m].receipt
<1>1. ASSUME NEW receipt \in {"waiter", "session", "failed"}, Ends(m, receipt)
      PROVE  /\ msgs' \in [Messages -> SendType]
             /\ \A n \in Messages : n # m => msgs'[n] = msgs[n]
             /\ msgs'[m].at = "done" /\ msgs'[m].receipt = receipt
  <2>1. msgs' \in [Messages -> SendType]
    BY ZenonT(60), <1>1 DEF Ends, TypeOK, SendType
  <2>2. /\ \A n \in Messages : n # m => msgs'[n] = msgs[n]
        /\ msgs'[m].at = "done" /\ msgs'[m].receipt = receipt
    BY <1>1 DEF Ends, TypeOK, SendType
  <2> QED BY ONLY <2>1, <2>2
<1>2. ASSUME NEW x \in 0..MaxSessions, msgs' = [msgs EXCEPT ![m].at = "got", ![m].got = x]
      PROVE  /\ msgs' \in [Messages -> SendType]
             /\ \A n \in Messages : n # m => msgs'[n] = msgs[n]
             /\ msgs'[m].at = "got" /\ msgs'[m].receipt = msgs[m].receipt
  <2>1. msgs' \in [Messages -> SendType]
    BY ZenonT(60), <1>2 DEF TypeOK, SendType
  <2>2. /\ \A n \in Messages : n # m => msgs'[n] = msgs[n]
        /\ msgs'[m].at = "got" /\ msgs'[m].receipt = msgs[m].receipt
    BY <1>2 DEF TypeOK, SendType
  <2> QED BY ONLY <2>1, <2>2
<1>3. ASSUME NEW x \in 0..MaxRefs, NEW at \in {"reviving", "cancelling"},
             msgs' = [msgs EXCEPT ![m].at = at, ![m].ref = x]
      PROVE  /\ msgs' \in [Messages -> SendType]
             /\ \A n \in Messages : n # m => msgs'[n] = msgs[n]
             /\ msgs'[m].at = at /\ msgs'[m].ref = x /\ msgs'[m].receipt = msgs[m].receipt
  <2>1. msgs' \in [Messages -> SendType]
    BY ZenonT(60), <1>3 DEF TypeOK, SendType
  <2>2. /\ \A n \in Messages : n # m => msgs'[n] = msgs[n]
        /\ msgs'[m].at = at /\ msgs'[m].ref = x /\ msgs'[m].receipt = msgs[m].receipt
    BY <1>3 DEF TypeOK, SendType
  <2> QED BY ONLY <2>1, <2>2
<1>4. ASSUME msgs' = [msgs EXCEPT ![m].at = "parking"]
      PROVE  /\ msgs' \in [Messages -> SendType]
             /\ \A n \in Messages : n # m => msgs'[n] = msgs[n]
             /\ msgs'[m].at = "parking" /\ msgs'[m].receipt = msgs[m].receipt
  <2>1. msgs' \in [Messages -> SendType]
    BY <1>4 DEF TypeOK, SendType
  <2>2. /\ \A n \in Messages : n # m => msgs'[n] = msgs[n]
        /\ msgs'[m].at = "parking" /\ msgs'[m].receipt = msgs[m].receipt
    BY <1>4 DEF TypeOK, SendType
  <2> QED BY ONLY <2>1, <2>2
<1> QED BY <1>1, <1>2, <1>3, <1>4

(* A send is handed to a waiter, to the session, or to the mailbox. *)
LEMMA HandOverStep ==
    ASSUME FleetIInv, NEW m \in Messages, HandOver(m), msgs[m].at \in {"new", "got"},
           msgs[m].at = "new" => adopted.ref = 0 /\ current # 0 /\ refs[current].status # "parked",
           UNCHANGED <<current, park, revival, disposed, kills, faults, hurt>>
    PROVE  FleetIInv'
<1>0. Ranges /\ TypeOK BY TypedRanges DEF FleetIInv
<1>1. ASSUME UNCHANGED <<sess, refs, adopted>>, waiter' \in BOOLEAN, mailbox' \subseteq Messages,
             NEW receipt \in {"waiter", "session", "failed"}, Ends(m, receipt), receipt = "failed" => hurt
      PROVE  FleetIInv'
  <2>1. /\ msgs' \in [Messages -> SendType]
        /\ \A n \in Messages : n # m => msgs'[n] = msgs[n]
        /\ msgs'[m].at = "done" /\ msgs'[m].receipt = receipt
    BY <1>0, <1>1, SendEffect
  <2>2. TypeOK'
    BY <1>0, <1>1, <2>1 DEF TypeOK
  <2>3. /\ adopted'.ref = adopted.ref /\ adopted'.revive = adopted.revive
        /\ adopted'.timer <=> adopted.timer
        /\ adopted.missed => adopted'.missed \/ adopted'.timer
    BY <1>1
  <2>4. UNCHANGED <<current, refs, sess, park, revival, disposed, kills, hurt>>
    BY <1>1
  <2>5. \A n \in Messages : n # m => msgs'[n] = msgs[n]
    BY <2>1
  <2>6. /\ msgs[m].at \in {"new", "kept", "unparked", "got"}
        /\ msgs'[m].at \in {"done", "got", "parking", "reviving"}
    BY <2>1
  <2>7. /\ msgs'[m].at = "got" => park.at = "none" /\ current # 0 /\ refs[current].session # 0
        /\ msgs'[m].at = "parking" => park.at # "none" /\ current # 0
        /\ msgs'[m].receipt = "failed" => hurt
    BY <1>1, <2>1
  <2>8. /\ adopted.timer => adopted'.timer
        /\ adopted'.timer => \/ adopted.timer
                             \/ park.at = "none" /\ (adopted.ref # 0 => refs[adopted.ref].status = "idle")
    BY <2>3
  <2>9. (/\ msgs[m].at = "kept" /\ msgs[m].ref = current /\ adopted.ref = current
         /\ current # 0 /\ Of(current) # 0 /\ refs[current].status = "idle")
          => adopted'.timer
    OBVIOUS
  <2> QED BY ONLY FleetIInv, m \in Messages, <2>2, <2>3, <2>4, <2>5, <2>6, <2>7, <2>8, <2>9, SendGoesOn
<1>2. CASE waiter /\ Ends(m, "waiter") /\ waiter' = FALSE /\ UNCHANGED <<mailbox, sess, refs, adopted>>
  BY <1>0, <1>1, <1>2 DEF TypeOK
<1>3. CASE Live = 0 /\ Ends(m, "failed") /\ UNCHANGED <<waiter, mailbox, sess, refs, adopted>>
  <2>1. hurt
    BY <1>0, <1>3 DEF FleetIInv, UnhurtAll, UnhurtSessions, UnhurtSends, Live
  <2> QED BY <1>0, <1>1, <1>3, <2>1 DEF TypeOK
<1>4. CASE /\ Live # 0 /\ sess[Live].at # "live" /\ UNCHANGED <<waiter, sess, refs, adopted>>
           /\ Ends(m, "failed") /\ mailbox' = mailbox \cup {m}
  <2>1. hurt
    BY <1>0, <1>4 DEF FleetIInv, UnhurtAll, UnhurtSessions, Live
  <2>2. mailbox' \subseteq Messages
    BY <1>0, <1>4 DEF TypeOK
  <2> QED BY <1>0, <1>1, <1>4, <2>1, <2>2 DEF TypeOK
<1>5. CASE Ends(m, "session") /\ UNCHANGED <<waiter, mailbox, sess, refs, adopted>>
  BY <1>0, <1>1, <1>5 DEF TypeOK
<1>6. CASE /\ Live # 0 /\ sess[Live].at = "live" /\ Ends(m, "session") /\ UNCHANGED <<waiter, mailbox>>
           /\ sess' = [sess EXCEPT ![Live].turn = TRUE, ![Live].early = ~sess[Live].synced]
           /\ SetRunState(Live, "running")
  <2> DEFINE s == Live
  <2>1. s \in Sessions /\ current # 0 /\ current \in Refs /\ refs[current].session = s
    BY <1>0, <1>6 DEF Ranges, Live
  <2>2. sess[s].ref = current
    BY <2>1 DEF FleetIInv, AttachedOnce, AttachedRight
  <2> HIDE DEF s
  <2>3. sess' = [sess EXCEPT ![s] = [sess[s] EXCEPT !.turn = TRUE, !.early = ~sess[s].synced]]
    BY <1>6 DEF s
  <2>4. sess[s] \in SessionType
    BY <1>0, <2>1 DEF TypeOK
  <2>5. [sess[s] EXCEPT !.turn = TRUE, !.early = ~sess[s].synced] \in SessionType
    BY ONLY <2>4 DEF SessionType
  <2>6. sess' \in [Sessions -> SessionType]
    BY <1>0, <2>3, <2>5 DEF TypeOK
  <2>7. /\ \A q \in Sessions : q # s => sess'[q] = sess[q]
        /\ sess'[s].at = sess[s].at /\ sess'[s].ref = sess[s].ref /\ sess'[s].by = sess[s].by
        /\ sess'[s].synced = sess[s].synced /\ (sess[s].synced \/ sess'[s].early)
    BY <1>0, <2>1, <2>3, <2>4 DEF TypeOK, SessionType
  <2>8. /\ msgs' \in [Messages -> SendType]
        /\ \A n \in Messages : n # m => msgs'[n] = msgs[n]
        /\ msgs'[m].at = "done" /\ msgs'[m].receipt = "session"
    BY <1>0, <1>6, SendEffect
  <2>9. SetRunState(s, "running") /\ sess[s].at = "live"
    BY <1>6 DEF s
  <2>10. TypeOK'
    <3>1. refs' \in [Refs -> RefType] /\ adopted' \in AdoptType
      BY <1>0, <2>1, <2>2, <2>9, RunStateEffect
    <3> QED BY <1>0, <1>6, <2>6, <2>8, <3>1 DEF TypeOK
  <2>11. adopted.ref = 0 \/ \E n \in Messages : msgs[n].at = "got"
    OBVIOUS
  <2>12. \A n \in Messages : \/ msgs'[n] = msgs[n]
                             \/ /\ msgs[n].at \in {"new", "got"}
                                /\ msgs'[n].at = "done" /\ msgs'[n].receipt # "failed"
    BY <2>8
  <2> HIDE <1>6
  <2> QED BY <2>1, <2>2, <2>7, <2>9, <2>10, <2>11, <2>12, RunStep
<1> QED BY <1>2, <1>3, <1>4, <1>5, <1>6 DEF HandOver

(* ensureLive looks at the registered ref: a live session, a revival to    *)
(* share, a revival of its own, or a refusal.                              *)
LEMMA ResolveStep ==
    ASSUME FleetIInv, NEW m \in Messages, Resolve(m), park.at = "none",
           \/ msgs[m].at = "new" /\ current # 0
           \/ msgs[m].at = "unparked"
           \/ msgs[m].at = "kept" /\ Live = 0,
           UNCHANGED <<current, refs, sess, adopted, park, disposed, kills, waiter, mailbox, hurt>>
    PROVE  FleetIInv'
<1>0. Ranges /\ TypeOK BY TypedRanges DEF FleetIInv
<1>1. ASSUME UNCHANGED revival, msgs' \in [Messages -> SendType],
             \A n \in Messages : n # m => msgs'[n] = msgs[n],
             msgs'[m].at \in {"done", "got", "reviving"},
             msgs'[m].at = "got" => Live # 0,
             msgs'[m].receipt = "failed" => hurt
      PROVE  FleetIInv'
  <2>1. TypeOK'
    BY <1>0, <1>1 DEF TypeOK
  <2>2. /\ adopted'.ref = adopted.ref /\ adopted'.revive = adopted.revive
        /\ adopted'.timer <=> adopted.timer
    OBVIOUS
  <2>3. msgs[m].at = "kept" /\ current # 0 => Of(current) = 0
    BY DEF Live
  <2>4. msgs'[m].at = "got" => current # 0 /\ refs[current].session # 0
    BY <1>1 DEF Live
  <2>5. UNCHANGED <<current, refs, sess, park, revival, disposed, kills, hurt>>
    BY <1>1
  <2>6. /\ msgs[m].at \in {"new", "kept", "unparked", "got"}
        /\ msgs'[m].at \in {"done", "got", "parking", "reviving"}
    BY <1>1
  <2>7. /\ msgs'[m].at = "got" => park.at = "none" /\ current # 0 /\ refs[current].session # 0
        /\ msgs'[m].at = "parking" => park.at # "none" /\ current # 0
        /\ msgs'[m].receipt = "failed" => hurt
    BY <1>1, <2>4
  <2>8. /\ adopted.timer => adopted'.timer
        /\ adopted.missed => adopted'.missed \/ adopted'.timer
        /\ adopted'.timer => \/ adopted.timer
                             \/ park.at = "none" /\ (adopted.ref # 0 => refs[adopted.ref].status = "idle")
    BY <2>2
  <2>9. (/\ msgs[m].at = "kept" /\ msgs[m].ref = current /\ adopted.ref = current
         /\ current # 0 /\ Of(current) # 0 /\ refs[current].status = "idle")
          => adopted'.timer
    BY <2>3
  <2>10. \A n \in Messages : n # m => msgs'[n] = msgs[n]
    BY <1>1
  <2> QED BY ONLY FleetIInv, m \in Messages, <2>1, <2>2, <2>5, <2>6, <2>7, <2>8, <2>9, <2>10, SendGoesOn
<1>2. msgs[m].receipt = "failed" => hurt
  BY DEF FleetIInv, UnhurtAll, UnhurtSends
<1>3. CASE Ends(m, "failed") /\ UNCHANGED revival
  <2>1. CASE hurt
    <3>1. /\ msgs' \in [Messages -> SendType]
          /\ \A n \in Messages : n # m => msgs'[n] = msgs[n]
          /\ msgs'[m].at = "done"
      BY <1>0, <1>3, SendEffect
    <3> QED BY <1>1, <1>3, <2>1, <3>1
  <2>2. CASE ~hurt
    <3>1. current # 0 /\ ~disposed /\ (Live = 0 => Status = "parked")
      BY <2>2 DEF FleetIInv, UnhurtAll, Unhurt, UnhurtSessions, UnhurtSends, Live, Status
    <3>2. revival[current].at # "none" \/ Live # 0
      BY <1>0, <1>3, <3>1 DEF Resolve, Ends, TypeOK, SendType
    <3> QED BY <1>0, <1>3, <3>1, <3>2 DEF Resolve, Ends, TypeOK, SendType
  <2> QED BY <2>1, <2>2
<1>4. CASE msgs' = [msgs EXCEPT ![m].at = "got", ![m].got = Live] /\ Live # 0 /\ UNCHANGED revival
  <2>1. Live \in 0..MaxSessions
    BY <1>0 DEF Ranges, Live
  <2>2. /\ msgs' \in [Messages -> SendType]
        /\ \A n \in Messages : n # m => msgs'[n] = msgs[n]
        /\ msgs'[m].at = "got" /\ msgs'[m].receipt = msgs[m].receipt
    BY <1>0, <1>4, <2>1, SendEffect
  <2> QED BY <1>1, <1>2, <1>4, <2>2
<1>5. CASE msgs' = [msgs EXCEPT ![m].at = "reviving", ![m].ref = current] /\ UNCHANGED revival
  <2>1. current \in 0..MaxRefs
    BY <1>0 DEF Ranges
  <2>2. /\ msgs' \in [Messages -> SendType]
        /\ \A n \in Messages : n # m => msgs'[n] = msgs[n]
        /\ msgs'[m].at = "reviving" /\ msgs'[m].receipt = msgs[m].receipt
    BY <1>0, <1>5, <2>1, SendEffect
  <2> QED BY <1>1, <1>2, <1>5, <2>2
<1>6. CASE /\ current # 0 /\ Live = 0 /\ revival[current].at = "none" /\ Status = "parked"
           /\ msgs' = [msgs EXCEPT ![m].at = "reviving", ![m].ref = current]
           /\ revival' = [revival EXCEPT ![current] =
                [NoRevival EXCEPT !.at = IF adopted.ref = current /\ adopted.revive
                                         THEN "building" ELSE "factory"]]
  <2> DEFINE x == [NoRevival EXCEPT !.at = IF adopted.ref = current /\ adopted.revive
                                           THEN "building" ELSE "factory"]
  <2>1. current \in 0..MaxRefs /\ current \in Refs
    BY <1>0, <1>6 DEF Ranges
  <2>2. /\ msgs' \in [Messages -> SendType]
        /\ \A n \in Messages : n # m => msgs'[n] = msgs[n]
        /\ msgs'[m].at = "reviving" /\ msgs'[m].receipt = msgs[m].receipt
    BY <1>0, <1>6, <2>1, SendEffect
  <2>3. x.at \in {"factory", "building"} /\ x.session = 0
    BY DEF NoRevival
  <2>4. x \in RevivalType
    <3>1. 0 \in 0..MaxSessions BY <1>0 DEF Ranges
    <3> QED BY ONLY <3>1 DEF NoRevival, RevivalType
  <2>5. revival' = [revival EXCEPT ![current] = x]
    BY <1>6
  <2> HIDE DEF x
  <2>6. /\ revival' \in [Refs -> RevivalType]
        /\ \A r \in Refs : r # current => revival'[r] = revival[r]
        /\ revival'[current] = x
    BY <1>0, <2>1, <2>4, <2>5 DEF TypeOK
  <2>7. TypeOK'
    BY <1>0, <2>2, <2>6 DEF TypeOK
  <2>8. Of(current) = 0 /\ refs[current].status = "parked"
    BY <1>6 DEF Live, Status
  <2> QED BY <1>6, <2>1, <2>2, <2>3, <2>6, <2>7, <2>8, RevivalStartsStep
<1> QED BY <1>3, <1>4, <1>5, <1>6 DEF Resolve

(* A release, of a kill or of the manager. *)
LEMMA ReleaseStep ==
    ASSUME FleetIInv, NEW k \in Killers, NEW how \in {"release", "tombstone"}, Release(k, how),
           kills[k].at = "none", current # 0 \/ adopted.ref # 0,
           disposed' \in BOOLEAN, disposed => disposed', hurt' = TRUE,
           UNCHANGED <<revival, msgs, waiter, mailbox>>
    PROVE  FleetIInv'
<1> DEFINE r == IF current # 0 THEN current ELSE adopted.ref
<1>0. Ranges /\ TypeOK BY TypedRanges DEF FleetIInv
<1>1. r \in Refs /\ Used(r) /\ current \in {0, r}
  BY <1>0 DEF Ranges, FleetIInv, Referred, CurrentUsed, AdoptedUsed
<1>2. /\ adopted' = (IF adopted.ref = r THEN NoAdoption ELSE adopted)
      /\ IF park.at # "none" /\ park.ref = r
         THEN /\ park' = [park EXCEPT !.cancelled = @ \/ park.at = "yield"]
              /\ kills' = [kills EXCEPT ![k] = [at |-> "parking", how |-> how, ref |-> r, session |-> 0]]
              /\ UNCHANGED <<current, refs, sess>>
         ELSE Take(k, r, how) /\ UNCHANGED park
  BY DEF Release
<1> HIDE DEF r
<1>3. /\ adopted' \in {adopted, NoAdoption}
      /\ current = r => adopted'.ref # r
  BY <1>1, <1>2 DEF NoAdoption
<1>4. CASE park.at # "none" /\ park.ref = r
  BY <1>1, <1>2, <1>4, ReleaseWaits
<1>5. CASE ~(park.at # "none" /\ park.ref = r)
  <2>1. Take(k, r, how) /\ UNCHANGED park /\ (park.at # "none" => park.ref # r)
    BY <1>2, <1>5
  <2>2. UNCHANGED <<park, revival, msgs, waiter, mailbox>>
    BY <2>1
  <2>3. CASE how = "tombstone"
    BY <1>1, <1>3, <2>1, <2>2, <2>3, TombstoneTaken
  <2>4. CASE how = "release" /\ Captured(r, "release") # 0
    BY <1>1, <1>3, <2>1, <2>2, <2>4, SessionTaken
  <2>5. CASE how = "release" /\ Captured(r, "release") = 0
    BY <1>1, <1>3, <2>1, <2>2, <2>5, RefTaken
  <2> QED BY <2>3, <2>4, <2>5
<1> QED BY <1>4, <1>5

(* A kill releases the agent. *)
LEMMA KillStep ==
    ASSUME FleetIInv, NEW k \in Killers, NEW how \in {"release", "tombstone"}, Kill(k, how)
    PROVE  FleetIInv'
<1>1. /\ Release(k, how) /\ kills[k].at = "none" /\ (current # 0 \/ adopted.ref # 0)
      /\ hurt' = TRUE
  BY DEF Kill, Has
<1>2. UNCHANGED <<revival, msgs, waiter, mailbox>> /\ UNCHANGED disposed
  BY DEF Kill, bus
<1>3. disposed' \in BOOLEAN /\ (disposed => disposed')
  BY <1>2 DEF FleetIInv, TypeOK
<1> QED BY <1>1, <1>2, <1>3, ReleaseStep

(* The teardown of the manager releases what it adopted. *)
LEMMA DisposeStep ==
    ASSUME FleetIInv, NEW k \in Killers, Dispose(k)
    PROVE  FleetIInv'
<1>1. disposed' = TRUE /\ hurt' = TRUE /\ kills[k].at = "none"
  BY DEF Dispose
<1>2. UNCHANGED <<revival, msgs, waiter, mailbox>>
  BY DEF Dispose, bus
<1>3. CASE Has \/ (park.at # "none" /\ current # 0)
  <2>1. Release(k, "release") /\ (current # 0 \/ adopted.ref # 0)
    BY <1>3 DEF Dispose, Has
  <2> QED BY <1>1, <1>2, <2>1, ReleaseStep
<1>4. CASE ~(Has \/ (park.at # "none" /\ current # 0))
  <2>1. UNCHANGED <<current, adopted, park, kills, refs, sess>>
    BY <1>4 DEF Dispose
  <2>2. UNCHANGED <<current, refs, sess, adopted, park, revival, kills, msgs, waiter, mailbox>>
    BY <1>2, <2>1
  <2> QED BY <1>1, <2>2, UnheardStep
<1> QED BY <1>3, <1>4

(* A kill that waited for a park goes on. *)
LEMMA KillResumesStep ==
    ASSUME FleetIInv, NEW k \in Killers, KillResumes(k)
    PROVE  FleetIInv'
<1> DEFINE r   == kills[k].ref
           how == kills[k].how
<1>0. Ranges /\ TypeOK BY TypedRanges DEF FleetIInv
<1>1. /\ kills[k].at = "ready" /\ Take(k, r, how)
      /\ adopted' = IF current' = 0 /\ adopted.ref = r /\ ~disposed THEN NoAdoption ELSE adopted
  BY DEF KillResumes
<1>2. UNCHANGED <<park, revival, msgs, waiter, mailbox>> /\ UNCHANGED <<disposed, hurt>>
  BY DEF KillResumes, bus, history
<1>3. r \in Refs /\ Used(r) /\ how # "none"
  BY <1>0, <1>1 DEF FleetIInv, Referred, KillsUsed, Ranges
<1>4. how \in {"release", "tombstone"}
  BY <1>0, <1>3 DEF TypeOK, KillType
<1>5. park.at = "none" /\ (current = r => adopted.ref # r)
  BY <1>1 DEF FleetIInv, KillsHeld, KillWaits
<1>6. /\ adopted' \in {adopted, NoAdoption}
      /\ current = r => adopted'.ref # r
  BY <1>1, <1>3, <1>5 DEF NoAdoption
<1>7. hurt' = TRUE /\ disposed' \in BOOLEAN /\ (disposed => disposed')
  BY <1>0, <1>1, <1>2 DEF FleetIInv, UnhurtAll, Unhurt, TypeOK
<1>8. kills[k].at \in {"none", "ready"} /\ (park.at # "none" => park.ref # r)
  BY <1>1, <1>5
<1>9. UNCHANGED <<park, revival, msgs, waiter, mailbox>>
  BY <1>2
<1>10. Take(k, r, how)
  BY <1>1
<1> HIDE DEF r, how
<1>11. CASE how = "tombstone"
  BY <1>3, <1>6, <1>7, <1>8, <1>9, <1>10, <1>11, TombstoneTaken
<1>12. CASE how = "release" /\ Captured(r, "release") # 0
  BY <1>3, <1>6, <1>7, <1>8, <1>9, <1>10, <1>12, SessionTaken
<1>13. CASE how = "release" /\ Captured(r, "release") = 0
  BY <1>3, <1>6, <1>7, <1>8, <1>9, <1>10, <1>13, RefTaken
<1> QED BY <1>4, <1>11, <1>12, <1>13

(* A message is sent: it fails, is handed over at once, cancels or awaits a *)
(* park, or goes on in ensureLive.                                         *)
LEMMA SendStep ==
    ASSUME FleetIInv, NEW m \in Messages, Send(m)
    PROVE  FleetIInv'
<1>0. Ranges /\ TypeOK BY TypedRanges DEF FleetIInv
<1>1. /\ msgs[m].at = "new" /\ current # 0 /\ current \in Refs
      /\ UNCHANGED <<current, disposed, kills, hurt>> /\ UNCHANGED faults
  BY <1>0 DEF Send, Ranges
<1>2. ASSUME UNCHANGED <<refs, sess, adopted, park, revival>>, waiter' = waiter, mailbox' = mailbox,
             msgs' \in [Messages -> SendType],
             \A n \in Messages : n # m => msgs'[n] = msgs[n],
             msgs'[m].at \in {"done", "parking"}, msgs'[m].at = "parking" => park.at # "none",
             msgs'[m].receipt = "failed" => hurt
      PROVE  FleetIInv'
  <2>1. TypeOK'
    BY <1>0, <1>1, <1>2 DEF TypeOK
  <2>2. UNCHANGED <<current, refs, sess, park, revival, disposed, kills, hurt>>
    BY <1>1, <1>2
  <2>3. \A n \in Messages : n # m => msgs'[n] = msgs[n]
    BY <1>2
  <2>4. /\ msgs[m].at \in {"new", "kept", "unparked", "got"} /\ msgs[m].at # "kept"
        /\ msgs'[m].at \in {"done", "got", "parking", "reviving"}
    BY <1>1, <1>2
  <2>5. /\ msgs'[m].at = "got" => park.at = "none" /\ current # 0 /\ refs[current].session # 0
        /\ msgs'[m].at = "parking" => park.at # "none" /\ current # 0
        /\ msgs'[m].receipt = "failed" => hurt
    BY <1>1, <1>2
  <2>6. /\ adopted'.ref = adopted.ref /\ adopted'.revive = adopted.revive
        /\ adopted.timer <=> adopted'.timer
        /\ adopted.missed => adopted'.missed
    BY <1>1, <1>2
  <2> QED BY ONLY FleetIInv, m \in Messages, <2>1, <2>2, <2>3, <2>4, <2>5, <2>6, SendGoesOn
<1>3. CASE Status = "aborted" /\ Ends(m, "failed")
           /\ UNCHANGED <<refs, sess, adopted, park, revival, waiter, mailbox>>
  <2>1. hurt
    BY <1>1, <1>3 DEF FleetIInv, UnhurtAll, Unhurt, Status
  <2>2. /\ msgs' \in [Messages -> SendType]
        /\ \A n \in Messages : n # m => msgs'[n] = msgs[n]
        /\ msgs'[m].at = "done"
    BY <1>0, <1>3, SendEffect
  <2> QED BY <1>2, <1>3, <2>1, <2>2
<1>4. CASE Status # "aborted" /\ Status # "parked" /\ ~Parking /\ ~Has /\ HandOver(m)
           /\ UNCHANGED <<park, revival>>
  <2>1. adopted.ref = 0 /\ refs[current].status # "parked"
    BY <1>1, <1>4 DEF Has, Status
  <2>2. UNCHANGED <<current, park, revival, disposed, kills, faults, hurt>>
    BY <1>1, <1>4
  <2> QED BY <1>1, <1>4, <2>1, <2>2, HandOverStep
<1>5. CASE /\ park.at = "yield" /\ park' = [park EXCEPT !.cancelled = TRUE]
           /\ msgs' = [msgs EXCEPT ![m].at = "cancelling", ![m].ref = current]
           /\ UNCHANGED <<revival, refs, sess, adopted, waiter, mailbox>>
  <2>1. /\ msgs' \in [Messages -> SendType]
        /\ \A n \in Messages : n # m => msgs'[n] = msgs[n]
        /\ msgs'[m].at = "cancelling" /\ msgs'[m].ref = current /\ msgs'[m].receipt = msgs[m].receipt
    BY <1>0, <1>5, SendEffect DEF Ranges
  <2>2. park' \in ParkType
    BY <1>0, <1>5 DEF TypeOK, ParkType
  <2>3. park'.at = "yield" /\ park'.ref = park.ref /\ park'.session = park.session /\ park'.cancelled
    BY <1>0, <1>5 DEF TypeOK, ParkType
  <2>4. TypeOK'
    BY <1>0, <1>1, <1>5, <2>1, <2>2 DEF TypeOK
  <2>5. UNCHANGED <<current, refs, sess, adopted, revival, disposed, kills, hurt>>
    BY <1>1, <1>5
  <2>6. /\ msgs[m].at = "new" /\ park.at = "yield" /\ current # 0
        /\ \A n \in Messages : n # m => msgs'[n] = msgs[n]
        /\ msgs'[m].at = "cancelling" /\ msgs'[m].ref = current /\ msgs'[m].receipt = msgs[m].receipt
    BY <1>1, <1>5, <2>1
  <2> QED BY ONLY FleetIInv, m \in Messages, <2>3, <2>4, <2>5, <2>6, CancelStep
<1>6. CASE /\ park.at # "none" /\ msgs' = [msgs EXCEPT ![m].at = "parking"]
           /\ UNCHANGED <<park, revival>> /\ UNCHANGED <<refs, sess, adopted, waiter, mailbox>>
  <2>1. /\ msgs' \in [Messages -> SendType]
        /\ \A n \in Messages : n # m => msgs'[n] = msgs[n]
        /\ msgs'[m].at = "parking" /\ msgs'[m].receipt = msgs[m].receipt
    BY <1>0, <1>6, SendEffect
  <2>2. msgs[m].receipt = "failed" => hurt
    BY DEF FleetIInv, UnhurtAll, UnhurtSends
  <2> QED BY <1>2, <1>6, <2>1, <2>2
<1>7. CASE /\ park.at = "none" /\ Resolve(m) /\ UNCHANGED park
           /\ UNCHANGED <<refs, sess, adopted, waiter, mailbox>>
  <2>1. UNCHANGED <<current, refs, sess, adopted, park, disposed, kills, waiter, mailbox, hurt>>
    BY <1>1, <1>7
  <2> QED BY <1>1, <1>7, <2>1, ResolveStep
<1> QED BY <1>3, <1>4, <1>5, <1>6, <1>7 DEF Send

(* ensureLive resumes after a park it cancelled or awaited. *)
LEMMA ResumeStep ==
    ASSUME FleetIInv, NEW m \in Messages, Resume(m)
    PROVE  FleetIInv'
<1>0. Ranges /\ TypeOK BY TypedRanges DEF FleetIInv
<1>1. /\ msgs[m].at \in {"kept", "unparked"} /\ park.at = "none"
      /\ UNCHANGED <<current, refs, sess, park, disposed, kills, waiter, mailbox, faults, hurt>>
  BY DEF Resume, registry, history, FleetIInv, ParkHeld, ParkRests
<1>2. CASE /\ msgs[m].at = "kept" /\ Live # 0
           /\ msgs' = [msgs EXCEPT ![m].at = "got", ![m].got = Live]
           /\ adopted' = Rearmed(m) /\ UNCHANGED revival
  <2>1. Live \in 0..MaxSessions /\ current # 0 /\ current \in Refs /\ refs[current].session # 0
    BY <1>0, <1>2 DEF Live, Ranges
  <2>2. /\ msgs' \in [Messages -> SendType]
        /\ \A n \in Messages : n # m => msgs'[n] = msgs[n]
        /\ msgs'[m].at = "got" /\ msgs'[m].receipt = msgs[m].receipt
    BY <1>0, <1>2, <2>1, SendEffect
  <2>3. /\ adopted' \in AdoptType
        /\ adopted'.ref = adopted.ref /\ adopted'.revive = adopted.revive
        /\ adopted' # adopted => adopted'.timer = TRUE /\ adopted.ref = msgs[m].ref
                                 /\ refs[msgs[m].ref].status = "idle"
        /\ adopted.ref = msgs[m].ref /\ refs[msgs[m].ref].status = "idle" => adopted'.timer = TRUE
    BY <1>0, <1>2 DEF Rearmed, TypeOK, AdoptType
  <2>4. TypeOK'
    BY <1>0, <1>1, <1>2, <2>2, <2>3 DEF TypeOK
  <2>5. UNCHANGED <<current, refs, sess, park, revival, disposed, kills, hurt>>
    BY <1>1, <1>2
  <2>6. /\ \A n \in Messages : n # m => msgs'[n] = msgs[n]
        /\ msgs[m].at \in {"new", "kept", "unparked", "got"}
        /\ msgs'[m].at \in {"done", "got", "parking", "reviving"} /\ msgs'[m].at # "parking"
        /\ park.at = "none" /\ current # 0 /\ refs[current].session # 0
    BY <1>1, <2>1, <2>2
  <2>7. msgs'[m].receipt = "failed" => hurt
    BY <2>2 DEF FleetIInv, UnhurtAll, UnhurtSends
  <2>8. /\ adopted.timer => adopted'.timer
        /\ adopted.missed => adopted'.missed \/ adopted'.timer
        /\ adopted'.timer => \/ adopted.timer
                             \/ park.at = "none" /\ (adopted.ref # 0 => refs[adopted.ref].status = "idle")
        /\ (/\ msgs[m].at = "kept" /\ msgs[m].ref = current /\ adopted.ref = current
            /\ current # 0 /\ Of(current) # 0 /\ refs[current].status = "idle")
             => adopted'.timer
        /\ adopted'.ref = adopted.ref /\ adopted'.revive = adopted.revive
    BY <1>1, <2>3
  <2> QED BY ONLY FleetIInv, m \in Messages, <2>4, <2>5, <2>6, <2>7, <2>8, SendGoesOn
<1>3. CASE (msgs[m].at # "kept" \/ Live = 0) /\ Resolve(m) /\ UNCHANGED adopted
  <2>1. UNCHANGED <<current, refs, sess, adopted, park, disposed, kills, waiter, mailbox, hurt>>
    BY <1>1, <1>3
  <2>2. msgs[m].at = "unparked" \/ (msgs[m].at = "kept" /\ Live = 0)
    BY <1>1, <1>3
  <2> QED BY <1>1, <1>3, <2>1, <2>2, ResolveStep
<1> QED BY <1>2, <1>3 DEF Resume

(* #deliver resumes with a session. *)
LEMMA DeliverStep ==
    ASSUME FleetIInv, NEW m \in Messages, Deliver(m)
    PROVE  FleetIInv'
<1>1. /\ msgs[m].at = "got" /\ HandOver(m)
      /\ UNCHANGED <<current, park, revival, disposed, kills, faults, hurt>>
  BY DEF Deliver
<1> QED BY <1>1, HandOverStep

(* A park commits, or finds that it may not. *)
LEMMA ParkCommitsStep ==
    ASSUME FleetIInv, ParkCommits
    PROVE  FleetIInv'
<1>1. CASE park.cancelled \/ current # park.ref \/ Live # park.session \/ adopted.ref # park.ref
  <2>1. park.at = "yield" /\ ParkOver
    BY <1>1 DEF ParkCommits
  <2>2. UNCHANGED <<current, refs, sess, adopted, revival, disposed, waiter, mailbox, faults, hurt>>
    BY <1>1 DEF ParkCommits, history
  <2> QED BY <1>1, <2>1, <2>2, ParkOverStep
<1>2. CASE ~(park.cancelled \/ current # park.ref \/ Live # park.session \/ adopted.ref # park.ref)
  <2>1. park' = [park EXCEPT !.at = "dispose"]
    BY <1>2 DEF ParkCommits
  <2>2. park'.at = "dispose"
    BY <2>1 DEF FleetIInv, TypeOK, ParkType
  <2> QED BY <2>2, CommitStep
<1> QED BY <1>1, <1>2

(* The session of a park is gone. *)
LEMMA ParkEndsStep ==
    ASSUME FleetIInv, ParkEnds
    PROVE  FleetIInv'
<1>1. park.at = "dispose" /\ sess[park.session].at = "gone" /\ ParkOver
  BY DEF ParkEnds
<1>2. UNCHANGED <<current, refs, sess, adopted, revival, disposed, waiter, mailbox, faults, hurt>>
  BY DEF ParkEnds, registry, history
<1> QED BY <1>1, <1>2, ParkOverStep

(* The persisted factory finds a reviver, too late or in time, or none. *)
LEMMA FactoryStep ==
    ASSUME FleetIInv, NEW r \in Refs, FactoryAnswers(r)
    PROVE  FleetIInv'
<1>0. Ranges /\ TypeOK BY TypedRanges DEF FleetIInv
<1>1. /\ revival[r].at = "factory" /\ Drained
      /\ UNCHANGED <<current, refs, sess, park, disposed, kills, waiter, mailbox>>
  BY DEF FactoryAnswers, registry
<1>2. CASE hurt' = TRUE /\ Settle(r, 0) /\ UNCHANGED adopted
  BY <1>1, <1>2, RevivalFailsStep
<1>3. CASE ~(current = r /\ refs[r].status = "parked") /\ adopted' = Adopted(r) /\ Settle(r, 0)
           /\ UNCHANGED <<faults, hurt>>
  <2>1. hurt' = TRUE
    <3>1. ~hurt => current = r /\ Of(r) = 0
      BY <1>1 DEF FleetIInv, UnhurtAll, Unhurt, RevivalsHeld, RevivalStarts
    <3>2. ~hurt => refs[r].status = "parked"
      BY <3>1 DEF FleetIInv, UnhurtAll, UnhurtSessions
    <3> QED BY <1>0, <1>3, <3>1, <3>2 DEF TypeOK
  <2>2. \A k \in Killers : kills[k].at # "ready"
    BY <1>1 DEF Drained
  <2> QED BY <1>1, <1>3, <2>1, <2>2, RevivalFailsStep
<1>4. CASE revival' = [revival EXCEPT ![r].at = "building", ![r].cold = TRUE]
  <2>1. revival'[r].at = "building"
    BY <1>0, <1>4 DEF TypeOK, RevivalType
  <2> QED BY <2>1, FactoryFindsStep
<1> QED BY <1>2, <1>3, <1>4 DEF FactoryAnswers

(* A revival without a session drops the adoption it made, or leaves it. *)
LEMMA DroppedRight ==
    ASSUME NEW r \in Refs
    PROVE  Dropped(r) = adopted \/ (Dropped(r) = NoAdoption /\ adopted.ref = r)
BY DEF Dropped

(* A session is built, and attached if the ref still takes it. *)
LEMMA BuildStep ==
    ASSUME FleetIInv, NEW r \in Refs, NEW s \in Sessions, Build(r, s)
    PROVE  FleetIInv'
<1>0. Ranges /\ TypeOK BY TypedRanges DEF FleetIInv
<1>1. CASE MayAttach(r)
  BY <1>1, AttachStep
<1>2. CASE ~MayAttach(r)
  <2>1. /\ revival[r].at = "building" /\ Settle(r, 0) /\ adopted' = Dropped(r)
        /\ UNCHANGED <<current, refs, sess, park, disposed, kills, waiter, mailbox>> /\ UNCHANGED hurt
    BY <1>2 DEF Build, history
  <2>2. hurt' = TRUE
    <3>1. ~hurt => current = r /\ Of(r) = 0
      BY <2>1 DEF FleetIInv, UnhurtAll, Unhurt, RevivalsHeld, RevivalStarts
    <3>2. ~hurt => refs[r].status = "parked"
      BY <3>1 DEF FleetIInv, UnhurtAll, UnhurtSessions
    <3> QED BY <1>0, <1>2, <2>1, <3>1, <3>2 DEF TypeOK, MayAttach
  <2>3. UNCHANGED <<current, refs, sess, park, disposed, kills, waiter, mailbox>>
    BY <2>1
  <2>4. adopted' = adopted \/ (adopted' = NoAdoption /\ adopted.ref = r)
    BY <2>1, DroppedRight
  <2> QED BY <2>1, <2>2, <2>3, <2>4, RevivalFailsStep
<1> QED BY <1>1, <1>2

(* A reviver fails. *)
LEMMA BuildFailsStep ==
    ASSUME FleetIInv, NEW r \in Refs, BuildFails(r)
    PROVE  FleetIInv'
<1>1. revival[r].at = "building" /\ hurt' = TRUE /\ Settle(r, 0) /\ adopted' = Dropped(r)
  BY DEF BuildFails
<1>2. UNCHANGED <<current, refs, sess, park, disposed, kills, waiter, mailbox>>
  BY DEF BuildFails, registry
<1>3. adopted' = adopted \/ (adopted' = NoAdoption /\ adopted.ref = r)
  BY <1>1, DroppedRight
<1> QED BY <1>1, <1>2, <1>3, RevivalFailsStep

(* The recipient waits for a message, or has waited. *)
LEMMA WaitStep ==
    ASSUME FleetIInv, Wait \/ WaitEnds
    PROVE  FleetIInv'
<1>1. UNCHANGED <<current, refs, sess, adopted, park, revival, disposed, kills, msgs, hurt>>
  BY DEF Wait, WaitEnds, registry, history
<1>2. waiter' \in BOOLEAN /\ mailbox' \subseteq Messages
  BY DEF Wait, WaitEnds, FleetIInv, TypeOK
<1> QED BY <1>1, <1>2, BusStep

(* Nothing happens. *)
LEMMA StutterStep ==
    ASSUME FleetIInv, UNCHANGED vars
    PROVE  FleetIInv'
<1>1. UNCHANGED <<current, refs, sess, adopted, park, revival, disposed, kills, msgs, hurt>>
  BY DEF vars, registry, bus, history
<1>2. waiter' \in BOOLEAN /\ mailbox' \subseteq Messages
  BY DEF vars, bus, FleetIInv, TypeOK
<1> QED BY <1>1, <1>2, BusStep

(* A first run ends. *)
LEMMA FinishStep ==
    ASSUME FleetIInv, NEW s \in Sessions, NEW how \in {"kept", "one-shot", "isolated"}, Finish(s, how)
    PROVE  FleetIInv'
<1>1. CASE how = "kept" /\ current = sess[s].ref /\ refs[sess[s].ref].session = s
  BY <1>1, KeptStep
<1>2. CASE ~(how = "kept" /\ current = sess[s].ref /\ refs[sess[s].ref].session = s)
  BY <1>2, EndsStep
<1> QED BY <1>1, <1>2

(* A revived session is wanted, or discarded. *)
LEMMA RevivedStep ==
    ASSUME FleetIInv, NEW r \in Refs, Revived(r)
    PROVE  FleetIInv'
<1>1. CASE ~disposed /\ current = r /\ refs[r].status = "running" /\ refs[r].session = revival[r].session
  BY <1>1, RevivesStep
<1>2. CASE ~(~disposed /\ current = r /\ refs[r].status = "running" /\ refs[r].session = revival[r].session)
  BY <1>2, DiscardStep
<1> QED BY <1>1, <1>2

(* Every step keeps the invariant. *)
LEMMA FleetStep ==
    ASSUME FleetIInv, [Next]_vars
    PROVE  FleetIInv'
<1>1. ASSUME NEW r \in Refs, NEW s \in Sessions, Spawn(r, s) PROVE FleetIInv'
  BY <1>1, SpawnStep
<1>2. ASSUME NEW r \in Refs, NEW status \in {"parked", "aborted"},
             Restore(r, status) \/ Replace(r, status)
      PROVE  FleetIInv'
  BY <1>2, RestoreStep, ReplaceStep
<1>3. ASSUME NEW s \in Sessions, NEW how \in {"kept", "one-shot", "isolated"}, Finish(s, how) PROVE FleetIInv'
  BY <1>3, FinishStep
<1>4. ASSUME NEW s \in Sessions, TurnEnds(s) PROVE FleetIInv'
  BY <1>4, TurnEndsStep
<1>5. ASSUME NEW m \in Messages, Send(m) PROVE FleetIInv'
  BY <1>5, SendStep
<1>6. ASSUME NEW k \in Killers, NEW how \in {"release", "tombstone"}, Kill(k, how) PROVE FleetIInv'
  BY <1>6, KillStep
<1>7. ASSUME NEW k \in Killers, Dispose(k) PROVE FleetIInv'
  BY <1>7, DisposeStep
<1>8. CASE TimerFires
  BY <1>8, TimerStep
<1>9. CASE Wait \/ WaitEnds
  BY <1>9, WaitStep
<1>10. CASE Reclaim
  BY <1>10, ReclaimStep
<1>11. ASSUME NEW s \in Sessions, SessionGone(s) PROVE FleetIInv'
  BY <1>11, GoneStep
<1>12. CASE ParkCommits
  BY <1>12, ParkCommitsStep
<1>13. CASE ParkEnds
  BY <1>13, ParkEndsStep
<1>14. ASSUME NEW m \in Messages, Resume(m) PROVE FleetIInv'
  BY <1>14, ResumeStep
<1>15. ASSUME NEW m \in Messages, Deliver(m) PROVE FleetIInv'
  BY <1>15, DeliverStep
<1>16. ASSUME NEW r \in Refs, FactoryAnswers(r) PROVE FleetIInv'
  BY <1>16, FactoryStep
<1>17. ASSUME NEW r \in Refs, BuildFails(r) PROVE FleetIInv'
  BY <1>17, BuildFailsStep
<1>18. ASSUME NEW r \in Refs, Revived(r) PROVE FleetIInv'
  BY <1>18, RevivedStep
<1>19. ASSUME NEW r \in Refs, NEW s \in Sessions, Build(r, s) PROVE FleetIInv'
  BY <1>19, BuildStep
<1>20. ASSUME NEW k \in Killers, KillResumes(k) PROVE FleetIInv'
  BY <1>20, KillResumesStep
<1>21. ASSUME NEW k \in Killers, TombstoneWritten(k) PROVE FleetIInv'
  BY <1>21, WrittenStep
<1>22. ASSUME NEW k \in Killers, KillEnds(k) PROVE FleetIInv'
  BY <1>22, KillEndsStep
<1>23. CASE UNCHANGED vars
  BY <1>23, StutterStep
<1> QED BY <1>1, <1>2, <1>3, <1>4, <1>5, <1>6, <1>7, <1>8, <1>9, <1>10, <1>11, <1>12,
   <1>13, <1>14, <1>15, <1>16, <1>17, <1>18, <1>19, <1>20, <1>21, <1>22, <1>23 DEF Next,
   Progress

(* The fleet begins empty. *)
LEMMA FleetInit ==
    ASSUME Init
    PROVE  FleetIInv
<1>0. MaxRefs \in Nat /\ MaxSessions \in Nat /\ 0 \in 0..MaxRefs /\ 0 \in 0..MaxSessions
  BY FleetAssumption
<1>1. TypeOK
  <2>1. refs \in [Refs -> RefType]
    BY <1>0 DEF Init, RefType
  <2>2. sess \in [Sessions -> SessionType]
    BY <1>0 DEF Init, SessionType
  <2>3. msgs \in [Messages -> SendType]
    BY <1>0 DEF Init, SendType
  <2>4. revival \in [Refs -> RevivalType] /\ kills \in [Killers -> KillType]
    BY RestTyped DEF Init
  <2>5. adopted \in AdoptType /\ park \in ParkType
    BY RestTyped DEF Init
  <2> QED BY <1>0, <2>1, <2>2, <2>3, <2>4, <2>5 DEF Init, TypeOK
<1>2. /\ \A r \in Refs : refs[r].status = "none" /\ refs[r].session = 0
      /\ \A s \in Sessions : /\ sess[s].at = "none" /\ sess[s].ref = 0 /\ sess[s].by = "none"
                             /\ ~sess[s].synced /\ ~sess[s].turn /\ ~sess[s].early
      /\ \A m \in Messages : msgs[m].at = "new" /\ msgs[m].receipt = "none"
  BY DEF Init
<1>3. /\ adopted.ref = 0 /\ park.at = "none" /\ ~park.cancelled /\ current = 0
      /\ \A r \in Refs : revival[r].at = "none" /\ revival[r].session = 0
      /\ \A k \in Killers : kills[k].at = "none" /\ kills[k].session = 0
  BY DEF Init, NoAdoption, NoPark, NoRevival, NoKill
<1>4. NoOrphan /\ Referred
  BY <1>2, <1>3 DEF NoOrphan, Live, Referred, CurrentUsed, AdoptedUsed, RefsUsed, SessionsUsed,
     KillsUsed, ParkUsed
<1>5. AttachedOnce /\ RevivalsHeld /\ ParkHeld
  BY <1>2, <1>3 DEF AttachedOnce, AttachedRight, LiveAttached, DisposingDue, DisposingBy, TurnsSeen,
     RevivalsHeld, RevivalStarts, RevivalWires, ParkHeld, ParkOwns, ParkDisposes, ParkRests
<1>6. KillsHeld /\ Listening
  BY <1>2, <1>3 DEF KillsHeld, KillWaits, KillTook, KillDisposes, Listening, AdoptedRan, AdoptedLives,
     ParkRegistered, ParkYields, IdleWillBeTimed
<1>7. UnhurtAll
  BY <1>2, <1>3 DEF Init, UnhurtAll, Unhurt, UnhurtSessions, UnhurtSends
<1> QED BY <1>1, <1>4, <1>5, <1>6, <1>7 DEF FleetIInv

-----------------------------------------------------------------------------
(* For any senders, killers, generations and sessions, every state of the  *)
(* fleet satisfies the inductive invariant.                                *)
THEOREM FleetInvariant == Spec => []FleetIInv
<1>1. Init => FleetIInv
  BY FleetInit
<1>2. FleetIInv /\ [Next]_vars => FleetIInv'
  BY FleetStep
<1> QED BY <1>1, <1>2, PTL DEF Spec

(* However kills, parks, revivals and the teardown interleave, a live      *)
(* session is attached to the registered ref, or in the hands of a kill    *)
(* that is about to dispose it, or of its revival: release, park and       *)
(* #revive of agent-lifecycle.ts leak no session.                          *)
THEOREM FleetCorrect == Spec => []FleetInv
<1>1. FleetIInv => FleetInv
  BY DEF FleetIInv, FleetInv
<1> QED BY <1>1, FleetInvariant, PTL

(* An adopted agent that is idle has a timer, or a park in flight, or the  *)
(* send that cancelled the park is about to arm the timer again: the       *)
(* re-arming in ensureLive and in #revive misses no interleaving.          *)
THEOREM IdleCorrect == Spec => []IdleIsTimed
<1>1. FleetIInv => IdleIsTimed
  BY DEF FleetIInv, Listening, IdleWillBeTimed, IdleIsTimed, Has, Live, Status
<1> QED BY <1>1, FleetInvariant, PTL

(* A send to a registered agent is refused only after a kill, a teardown,  *)
(* the end of an agent that is not kept, or a failing reviver: no race of  *)
(* #deliver and ensureLive with parking alone costs a message.             *)
THEOREM RefusalCorrect == Spec => []RefusedForAReason
<1>1. FleetIInv => RefusedForAReason
  BY DEF FleetIInv, UnhurtAll, UnhurtSends, RefusedForAReason
<1> QED BY <1>1, FleetInvariant, PTL

-----------------------------------------------------------------------------
(* What setStatus does to an aborted ref: nothing. *)
LEMMA RunStateSparesAborted ==
    ASSUME TypeOK, NEW r \in Refs, Aborted(r), NEW s \in Sessions, NEW st \in {"running", "idle"},
           SetRunState(s, st)
    PROVE  Aborted(r)'
BY DEF SetRunState, TypeOK, RefType

(* No step takes a ref out of the aborted state. *)
LEMMA AbortedStays ==
    ASSUME FleetIInv, [Next]_vars, NEW q \in Refs, Aborted(q)
    PROVE  Aborted(q)'
<1> USE DEF FleetIInv
<1>a. Ranges /\ TypeOK /\ Of(q) = 0
  BY TypedRanges DEF AttachedOnce, AttachedRight
<1>b. ASSUME refs' = refs PROVE Aborted(q)'
  BY <1>b
<1>c. ASSUME NEW m \in Messages, HandOver(m) PROVE Aborted(q)'
  <2>1. CASE SetRunState(Live, "running") /\ Live # 0
    <3>1. Live \in Sessions BY <1>a, <2>1 DEF Live, Ranges
    <3> QED BY <1>a, <2>1, <3>1, RunStateSparesAborted
  <2> QED BY <1>b, <1>c, <2>1 DEF HandOver
<1>d. ASSUME NEW k \in Killers, NEW r, NEW how, Take(k, r, how) PROVE Aborted(q)'
  <2>1. refs' = refs \/ refs' = [refs EXCEPT ![r] = [status |-> "aborted", session |-> 0]]
    BY <1>d DEF Take
  <2> QED BY <1>a, <2>1 DEF TypeOK, RefType
<1>1. ASSUME NEW r \in Refs, NEW s \in Sessions, Spawn(r, s) PROVE Aborted(q)'
  <2>1. refs' = [refs EXCEPT ![r] = [status |-> "running", session |-> s]] /\ r # q
    BY <1>1 DEF Spawn, Fresh
  <2> QED BY <1>a, <2>1 DEF TypeOK
<1>2. ASSUME NEW r \in Refs, NEW status \in {"parked", "aborted"},
             Restore(r, status) \/ Replace(r, status)
      PROVE  Aborted(q)'
  <2>1. refs' = [refs EXCEPT ![r].status = status] /\ r # q
    BY <1>2 DEF Restore, Replace, Fresh
  <2> QED BY <1>a, <2>1 DEF TypeOK
<1>3. ASSUME NEW s \in Sessions, NEW how \in {"kept", "one-shot", "isolated"}, Finish(s, how) PROVE Aborted(q)'
  <2> DEFINE r == sess[s].ref
  <2>1. \/ refs' = refs
        \/ /\ refs[r].session = s
           /\ refs' = [refs EXCEPT ![r].status = "idle"] \/ refs' = [refs EXCEPT ![r].status = "parked"]
    BY <1>3 DEF Finish
  <2>2. s # 0 BY <1>3, <1>a DEF Ranges
  <2> HIDE DEF r
  <2>3. CASE r = q BY <1>a, <1>b, <2>1, <2>2, <2>3
  <2>4. CASE r # q BY <1>a, <2>1, <2>4 DEF TypeOK
  <2> QED BY <2>3, <2>4
<1>4. ASSUME NEW s \in Sessions, TurnEnds(s) PROVE Aborted(q)'
  <2>1. SetRunState(s, "idle") BY <1>4 DEF TurnEnds
  <2> QED BY <1>a, <2>1, RunStateSparesAborted
<1>5. ASSUME NEW m \in Messages, Send(m) PROVE Aborted(q)'
  <2>1. HandOver(m) \/ refs' = refs BY <1>5 DEF Send
  <2> QED BY <1>b, <1>c, <2>1
<1>6. ASSUME NEW k \in Killers, NEW how \in {"release", "tombstone"}, Kill(k, how) PROVE Aborted(q)'
  <2>1. refs' = refs \/ \E r : Take(k, r, how) BY <1>6 DEF Kill, Release
  <2> QED BY <1>b, <1>d, <2>1
<1>7. ASSUME NEW k \in Killers, Dispose(k) PROVE Aborted(q)'
  <2>1. refs' = refs \/ \E r : Take(k, r, "release") BY <1>7 DEF Dispose, Release
  <2> QED BY <1>b, <1>d, <2>1
<1>8. CASE TimerFires
  BY <1>8, <1>b DEF TimerFires, registry
<1>9. CASE Wait \/ WaitEnds
  BY <1>9, <1>b DEF Wait, WaitEnds, registry
<1>10. CASE Reclaim
  BY <1>10, <1>b DEF Reclaim, registry
<1>11. ASSUME NEW s \in Sessions, SessionGone(s) PROVE Aborted(q)'
  <2>1. refs' = refs \/ \E r : refs' = [refs EXCEPT ![r].session = 0]
    BY <1>11 DEF SessionGone
  <2> QED BY ZenonT(60), <1>a, <2>1 DEF TypeOK, RefType
<1>12. CASE ParkCommits
  <2>1. CASE refs' = refs
    BY <1>b, <2>1
  <2>2. CASE refs' # refs
    <3>1. /\ park.at = "yield" /\ current = park.ref /\ Live = park.session
          /\ refs' = [refs EXCEPT ![park.ref].session = 0,
                                 ![park.ref].status = IF @ = "aborted" THEN @ ELSE "parked"]
      BY <1>12, <2>2 DEF ParkCommits
    <3>2. park.ref # q
      BY <1>a, <3>1 DEF Referred, ParkUsed, Live
    <3> QED BY <1>a, <3>1, <3>2 DEF TypeOK
  <2> QED BY <2>1, <2>2
<1>13. CASE ParkEnds
  BY <1>13, <1>b DEF ParkEnds, registry
<1>14. ASSUME NEW m \in Messages, Resume(m) PROVE Aborted(q)'
  BY <1>14, <1>b DEF Resume, registry
<1>15. ASSUME NEW m \in Messages, Deliver(m) PROVE Aborted(q)'
  BY <1>15, <1>c DEF Deliver
<1>16. ASSUME NEW r \in Refs, FactoryAnswers(r) PROVE Aborted(q)'
  BY <1>16, <1>b DEF FactoryAnswers, registry
<1>17. ASSUME NEW r \in Refs, BuildFails(r) PROVE Aborted(q)'
  BY <1>17, <1>b DEF BuildFails, registry
<1>18. ASSUME NEW r \in Refs, Revived(r) PROVE Aborted(q)'
  <2>1. \/ refs' = refs
        \/ refs' = [refs EXCEPT ![r].status = "idle"] /\ r # q
    BY <1>18 DEF Revived
  <2> QED BY <1>a, <2>1 DEF TypeOK
<1>19. ASSUME NEW r \in Refs, NEW s \in Sessions, Build(r, s) PROVE Aborted(q)'
  <2>1. \/ refs' = refs
        \/ refs' = [refs EXCEPT ![r] = [status |-> "running", session |-> s]] /\ r # q
    BY <1>19 DEF Build, MayAttach
  <2> QED BY <1>a, <2>1 DEF TypeOK
<1>20. ASSUME NEW k \in Killers, KillResumes(k) PROVE Aborted(q)'
  BY <1>20, <1>d DEF KillResumes
<1>21. ASSUME NEW k \in Killers, TombstoneWritten(k) PROVE Aborted(q)'
  BY <1>21, <1>b DEF TombstoneWritten, registry
<1>22. ASSUME NEW k \in Killers, KillEnds(k) PROVE Aborted(q)'
  BY <1>22, <1>b DEF KillEnds, registry
<1>23. CASE UNCHANGED vars
  BY <1>23, <1>b DEF vars, registry
<1> QED BY <1>1, <1>2, <1>3, <1>4, <1>5, <1>6, <1>7, <1>8, <1>9, <1>10, <1>11, <1>12,
   <1>13, <1>14, <1>15, <1>16, <1>17, <1>18, <1>19, <1>20, <1>21, <1>22, <1>23 DEF Next,
   Progress

(* AbortedIsFinal: a killed generation stays aborted and never gets a      *)
(* session again, whatever revival or late turn of it is in flight         *)
(* (setStatus, attachSession and the detach of a tombstone).               *)
THEOREM AbortedCorrect == Spec => AbortedIsFinal
<1>1. ASSUME FleetIInv, [Next]_vars
      PROVE  \A r \in Refs : refs[r].status = "aborted" =>
                refs'[r].status = "aborted" /\ refs'[r].session = 0
  <2> SUFFICES ASSUME NEW r \in Refs, Aborted(r)
               PROVE  refs'[r].status = "aborted" /\ refs'[r].session = 0
    OBVIOUS
  <2>1. Aborted(r)' /\ FleetIInv'
    BY <1>1, AbortedStays, FleetStep
  <2> QED BY <2>1 DEF FleetIInv, AttachedOnce, AttachedRight
<1>2. FleetIInv /\ [Next]_vars =>
        [\A r \in Refs : refs[r].status = "aborted" =>
            refs'[r].status = "aborted" /\ refs'[r].session = 0]_vars
  BY <1>1
<1> QED BY <1>2, FleetInvariant, PTL DEF Spec, AbortedIsFinal

(* A send gets a session that is attached, or that its revival brought. *)
LEMMA ResolveGets ==
    ASSUME FleetIInv, NEW n \in Messages, Resolve(n) \/ msgs' = [msgs EXCEPT ![n].at = "got", ![n].got = Live],
           Live = 0 => Resolve(n), UNCHANGED sess,
           NEW m \in Messages, msgs[m].at # "got", msgs'[m].at = "got"
    PROVE  sess'[msgs'[m].got].by # "park"
<1>0. Ranges /\ TypeOK BY TypedRanges DEF FleetIInv
<1>1. /\ msgs' = [msgs EXCEPT ![n].at = "got", ![n].got = Live] /\ Live # 0
  <2>1. ASSUME Ends(n, "failed") PROVE FALSE
    BY <1>0, <2>1 DEF Ends, TypeOK, SendType
  <2>2. ASSUME msgs' = [msgs EXCEPT ![n].at = "reviving", ![n].ref = current] PROVE FALSE
    BY <1>0, <2>2 DEF TypeOK, SendType
  <2> QED BY <2>1, <2>2 DEF Resolve
<1>2. m = n
  BY <1>0, <1>1 DEF TypeOK
<1>3. msgs'[m].got = Live
  BY <1>0, <1>1, <1>2 DEF TypeOK, SendType
<1>4. Live \in Sessions /\ \E r \in Refs : Of(r) = Live
  BY <1>0, <1>1 DEF Live, Ranges
<1>5. sess[Live].by # "park"
  BY <1>1, <1>4 DEF FleetIInv, AttachedOnce, AttachedRight
<1> QED BY <1>3, <1>5

(* Nobody gets a session that a park has begun to dispose. *)
LEMMA GotNotParked ==
    ASSUME FleetIInv, [Next]_vars, NEW m \in Messages, msgs[m].at # "got", msgs'[m].at = "got"
    PROVE  sess'[msgs'[m].got].by # "park"
<1>a. Ranges /\ TypeOK
  BY TypedRanges DEF FleetIInv
<1>b. msgs' # msgs
  OBVIOUS
<1>c. ASSUME NEW n \in Messages, NEW receipt \in {"waiter", "session", "failed"}, Ends(n, receipt)
      PROVE  FALSE
  BY <1>a, <1>c, SendEffect
<1>d. ASSUME NEW r \in Refs, Settle(r, 0) PROVE FALSE
  <2>1. 0 \in 0..MaxSessions BY <1>a DEF Ranges
  <2> QED BY <1>a, <1>d, <2>1, SettleEffect
<1>e. ASSUME ParkOver PROVE FALSE
  BY <1>a, <1>e, ParkOverEffect
<1>f. ASSUME NEW n \in Messages, HandOver(n) PROVE FALSE
  BY <1>c, <1>f DEF HandOver
<1>1. ASSUME NEW r \in Refs, NEW s \in Sessions, Spawn(r, s) PROVE sess'[msgs'[m].got].by # "park"
  BY <1>1, <1>b DEF Spawn, bus
<1>2. ASSUME NEW r \in Refs, NEW status \in {"parked", "aborted"},
             Restore(r, status) \/ Replace(r, status)
      PROVE  sess'[msgs'[m].got].by # "park"
  BY <1>2, <1>b DEF Restore, Replace, bus
<1>3. ASSUME NEW s \in Sessions, NEW how \in {"kept", "one-shot", "isolated"}, Finish(s, how) PROVE sess'[msgs'[m].got].by # "park"
  BY <1>3, <1>b DEF Finish, bus
<1>4. ASSUME NEW s \in Sessions, TurnEnds(s) PROVE sess'[msgs'[m].got].by # "park"
  BY <1>4, <1>b DEF TurnEnds, bus
<1>5. ASSUME NEW n \in Messages, Send(n) PROVE sess'[msgs'[m].got].by # "park"
  <2>1. \/ Ends(n, "failed") \/ HandOver(n) \/ (Resolve(n) /\ UNCHANGED sess)
        \/ msgs' = [msgs EXCEPT ![n].at = "cancelling", ![n].ref = current]
        \/ msgs' = [msgs EXCEPT ![n].at = "parking"]
    BY <1>5 DEF Send
  <2>2. ASSUME msgs' = [msgs EXCEPT ![n].at = "cancelling", ![n].ref = current] PROVE FALSE
    <3>1. current \in 0..MaxRefs BY <1>a DEF Ranges
    <3> QED BY <1>a, <2>2, <3>1, SendEffect
  <2>3. ASSUME msgs' = [msgs EXCEPT ![n].at = "parking"] PROVE FALSE
    BY <1>a, <2>3, SendEffect
  <2> QED BY <1>c, <1>f, <2>1, <2>2, <2>3, ResolveGets
<1>6. ASSUME NEW k \in Killers, NEW how \in {"release", "tombstone"}, Kill(k, how) PROVE sess'[msgs'[m].got].by # "park"
  BY <1>6, <1>b DEF Kill, bus
<1>7. ASSUME NEW k \in Killers, Dispose(k) PROVE sess'[msgs'[m].got].by # "park"
  BY <1>7, <1>b DEF Dispose, bus
<1>8. CASE TimerFires
  BY <1>8, <1>b DEF TimerFires, bus
<1>9. CASE Wait \/ WaitEnds
  BY <1>9, <1>b DEF Wait, WaitEnds, bus
<1>10. CASE Reclaim
  BY <1>10, <1>b DEF Reclaim, bus
<1>11. ASSUME NEW s \in Sessions, SessionGone(s) PROVE sess'[msgs'[m].got].by # "park"
  BY <1>11, <1>b DEF SessionGone, bus
<1>12. CASE ParkCommits
  BY <1>12, <1>b, <1>e DEF ParkCommits
<1>13. CASE ParkEnds
  BY <1>13, <1>e DEF ParkEnds
<1>14. ASSUME NEW n \in Messages, Resume(n) PROVE sess'[msgs'[m].got].by # "park"
  <2>1. /\ Resolve(n) \/ msgs' = [msgs EXCEPT ![n].at = "got", ![n].got = Live]
        /\ Live = 0 => Resolve(n)
        /\ UNCHANGED sess
    BY <1>14 DEF Resume
  <2> QED BY <2>1, ResolveGets
<1>15. ASSUME NEW n \in Messages, Deliver(n) PROVE sess'[msgs'[m].got].by # "park"
  BY <1>15, <1>f DEF Deliver
<1>16. ASSUME NEW r \in Refs, FactoryAnswers(r) PROVE sess'[msgs'[m].got].by # "park"
  BY <1>16, <1>b, <1>d DEF FactoryAnswers
<1>17. ASSUME NEW r \in Refs, BuildFails(r) PROVE sess'[msgs'[m].got].by # "park"
  BY <1>17, <1>d DEF BuildFails
<1>18. ASSUME NEW r \in Refs, Revived(r) PROVE sess'[msgs'[m].got].by # "park"
  <2> DEFINE s == revival[r].session
  <2>1. Settle(r, s) /\ refs[r].session = s /\ sess' = [sess EXCEPT ![s].synced = TRUE]
    BY <1>18, <1>d DEF Revived
  <2>2. s # 0 /\ s \in Sessions
    BY SMTT(30), <1>18, <1>a DEF Revived, FleetIInv, RevivalsHeld, RevivalWires, Ranges
  <2>3. msgs'[m].got = s
    BY <1>a, <2>1 DEF Settle, TypeOK, SendType
  <2>4. sess[s].by # "park"
    BY <2>1, <2>2 DEF FleetIInv, AttachedOnce, AttachedRight
  <2>5. sess'[s].by = sess[s].by
    BY <1>a, <2>1, <2>2 DEF TypeOK, SessionType
  <2> QED BY <2>3, <2>4, <2>5
<1>19. ASSUME NEW r \in Refs, NEW s \in Sessions, Build(r, s) PROVE sess'[msgs'[m].got].by # "park"
  BY <1>19, <1>b, <1>d DEF Build
<1>20. ASSUME NEW k \in Killers, KillResumes(k) PROVE sess'[msgs'[m].got].by # "park"
  BY <1>20, <1>b DEF KillResumes, bus
<1>21. ASSUME NEW k \in Killers, TombstoneWritten(k) PROVE sess'[msgs'[m].got].by # "park"
  BY <1>21, <1>b DEF TombstoneWritten, bus
<1>22. ASSUME NEW k \in Killers, KillEnds(k) PROVE sess'[msgs'[m].got].by # "park"
  BY <1>22, <1>b DEF KillEnds, bus
<1>23. CASE UNCHANGED vars
  BY <1>23, <1>b DEF vars, bus
<1> QED BY <1>1, <1>2, <1>3, <1>4, <1>5, <1>6, <1>7, <1>8, <1>9, <1>10, <1>11, <1>12,
   <1>13, <1>14, <1>15, <1>16, <1>17, <1>18, <1>19, <1>20, <1>21, <1>22, <1>23 DEF Next,
   Progress

(* Only its commit lets a park dispose a live session. *)
LEMMA OnlyCommitParks ==
    ASSUME FleetIInv, [Next]_vars, NEW q \in Sessions, sess[q].at = "live", sess'[q].by = "park"
    PROVE  ParkCommits /\ q = park.session
<1>a. Ranges /\ TypeOK
  BY TypedRanges DEF FleetIInv
<1>b. sess[q].by # "park"
  BY DEF FleetIInv, AttachedOnce, LiveAttached
<1>c. ASSUME sess' = sess PROVE FALSE
  BY <1>b, <1>c
<1>d. ASSUME NEW s \in Sessions, NEW by \in {"kept", "one-shot", "isolated", "revival", "release", "tombstone"},
             sess' = BeginDispose(s, by)
      PROVE  FALSE
  <2>1. by # "park" OBVIOUS
  <2>2. sess'[q] = sess[q] \/ sess'[q].by = by
    BY <1>a, <1>d, DisposalBegins DEF TypeOK
  <2> QED BY <1>b, <2>1, <2>2
<1>e. ASSUME NEW s, NEW by \in {"release", "tombstone"}, s \in 0..MaxSessions, sess' = Disposing(s, by)
      PROVE  FALSE
  <2>1. s \in Sessions \/ s = 0 BY <1>e, <1>a DEF Ranges
  <2> QED BY <1>c, <1>d, <1>e, <2>1 DEF Disposing
<1>f. ASSUME NEW m \in Messages, HandOver(m) PROVE FALSE
  <2>1. sess' = [sess EXCEPT ![Live].turn = TRUE, ![Live].early = ~sess[Live].synced]
    BY <1>c, <1>f DEF HandOver
  <2>2. sess'[q].by = sess[q].by
    BY <1>a, <2>1 DEF TypeOK, SessionType
  <2> QED BY <1>b, <2>2
<1>g. ASSUME NEW k \in Killers, NEW r \in Refs, NEW how, Take(k, r, how) PROVE FALSE
  <2>1. sess' = sess \/ sess' = Disposing(Captured(r, how), "release")
    BY <1>g DEF Take
  <2>2. Captured(r, how) \in 0..MaxSessions
    BY <1>a DEF Captured, Ranges
  <2> QED BY <1>c, <1>e, <2>1, <2>2
<1>h. ASSUME NEW k \in Killers, NEW how, Release(k, how), current # 0 \/ adopted.ref # 0 PROVE FALSE
  <2> DEFINE r == IF current # 0 THEN current ELSE adopted.ref
  <2>1. r \in Refs BY <1>a, <1>h DEF Ranges
  <2>2. sess' = sess \/ Take(k, r, how) BY <1>h DEF Release
  <2> QED BY <1>c, <1>g, <2>1, <2>2
<1>1. ASSUME NEW r \in Refs, NEW s \in Sessions, Spawn(r, s) PROVE ParkCommits /\ q = park.session
  <2>1. s # q BY <1>1 DEF Spawn, Unbuilt
  <2>2. sess'[q] = sess[q] BY <1>1, <1>a, <2>1 DEF Spawn, TypeOK
  <2> QED BY <1>b, <2>2
<1>2. ASSUME NEW r \in Refs, NEW status \in {"parked", "aborted"},
             Restore(r, status) \/ Replace(r, status)
      PROVE  ParkCommits /\ q = park.session
  BY <1>2, <1>c DEF Restore, Replace
<1>3. ASSUME NEW s \in Sessions, NEW how \in {"kept", "one-shot", "isolated"}, Finish(s, how) PROVE ParkCommits /\ q = park.session
  <2>1. CASE sess' = BeginDispose(s, how)
    BY <1>3, <1>d, <2>1
  <2>2. CASE sess' = [sess EXCEPT ![s].turn = FALSE, ![s].by = "none"]
    <3>1. sess'[q] = sess[q] \/ sess'[q].by = "none"
      BY <1>a, <2>2 DEF TypeOK, SessionType
    <3> QED BY <1>b, <3>1
  <2> QED BY <1>3, <2>1, <2>2 DEF Finish
<1>4. ASSUME NEW s \in Sessions, TurnEnds(s) PROVE ParkCommits /\ q = park.session
  <2>1. sess'[q].by = sess[q].by
    BY <1>4, <1>a DEF TurnEnds, TypeOK, SessionType
  <2> QED BY <1>b, <2>1
<1>5. ASSUME NEW m \in Messages, Send(m) PROVE ParkCommits /\ q = park.session
  BY <1>5, <1>c, <1>f DEF Send
<1>6. ASSUME NEW k \in Killers, NEW how \in {"release", "tombstone"}, Kill(k, how) PROVE ParkCommits /\ q = park.session
  BY <1>6, <1>h DEF Kill, Has
<1>7. ASSUME NEW k \in Killers, Dispose(k) PROVE ParkCommits /\ q = park.session
  BY <1>7, <1>c, <1>h DEF Dispose, Has
<1>8. CASE TimerFires
  BY <1>8, <1>c DEF TimerFires
<1>9. CASE Wait \/ WaitEnds
  BY <1>9, <1>c DEF Wait, WaitEnds
<1>10. CASE Reclaim
  BY <1>10, <1>c DEF Reclaim
<1>11. ASSUME NEW s \in Sessions, SessionGone(s) PROVE ParkCommits /\ q = park.session
  <2>1. sess'[q].by = sess[q].by
    BY <1>11, <1>a DEF SessionGone, TypeOK, SessionType
  <2> QED BY <1>b, <2>1
<1>12. CASE ParkCommits
  <2>1. sess' = BeginDispose(park.session, "park") /\ Live = park.session /\ current = park.ref
    BY <1>12, <1>c DEF ParkCommits
  <2>2. park.session \in Sessions
    BY <1>12, <1>a DEF ParkCommits, FleetIInv, Referred, ParkUsed, Ranges
  <2>3. q # park.session => sess'[q] = sess[q]
    BY <1>a, <2>1, <2>2, DisposalBegins DEF TypeOK
  <2> QED BY <1>12, <1>b, <2>3
<1>13. CASE ParkEnds
  BY <1>13, <1>c DEF ParkEnds
<1>14. ASSUME NEW m \in Messages, Resume(m) PROVE ParkCommits /\ q = park.session
  BY <1>14, <1>c DEF Resume
<1>15. ASSUME NEW m \in Messages, Deliver(m) PROVE ParkCommits /\ q = park.session
  BY <1>15, <1>f DEF Deliver
<1>16. ASSUME NEW r \in Refs, FactoryAnswers(r) PROVE ParkCommits /\ q = park.session
  BY <1>16, <1>c DEF FactoryAnswers
<1>17. ASSUME NEW r \in Refs, BuildFails(r) PROVE ParkCommits /\ q = park.session
  BY <1>17, <1>c DEF BuildFails
<1>18. ASSUME NEW r \in Refs, Revived(r) PROVE ParkCommits /\ q = park.session
  <2> DEFINE s == revival[r].session
  <2>1. s \in Sessions
    BY <1>18, <1>a DEF Revived, FleetIInv, RevivalsHeld, RevivalWires, Ranges
  <2>2. ASSUME sess' = Discard(s) PROVE FALSE
    BY <1>c, <1>d, <2>1, <2>2 DEF Discard
  <2>3. ASSUME sess' = [sess EXCEPT ![s].synced = TRUE] PROVE FALSE
    <3>1. sess'[q].by = sess[q].by
      BY <1>a, <2>1, <2>3 DEF TypeOK, SessionType
    <3> QED BY <1>b, <3>1
  <2> QED BY <1>18, <2>2, <2>3 DEF Revived
<1>19. ASSUME NEW r \in Refs, NEW s \in Sessions, Build(r, s) PROVE ParkCommits /\ q = park.session
  <2>1. s # q BY <1>19 DEF Build, Unbuilt
  <2>2. sess' = Attached(r, s) => sess'[q] = sess[q]
    BY <1>a, <2>1 DEF Attached, TypeOK
  <2> QED BY <1>19, <1>b, <1>c, <2>2 DEF Build
<1>20. ASSUME NEW k \in Killers, KillResumes(k) PROVE ParkCommits /\ q = park.session
  <2>1. kills[k].ref \in Refs
    BY <1>20, <1>a DEF KillResumes, FleetIInv, Referred, KillsUsed, Ranges
  <2> QED BY <1>20, <1>g, <2>1 DEF KillResumes
<1>21. ASSUME NEW k \in Killers, TombstoneWritten(k) PROVE ParkCommits /\ q = park.session
  <2>1. kills[k].session \in 0..MaxSessions BY <1>a DEF Ranges
  <2> QED BY <1>21, <1>e, <2>1 DEF TombstoneWritten
<1>22. ASSUME NEW k \in Killers, KillEnds(k) PROVE ParkCommits /\ q = park.session
  BY <1>22, <1>c DEF KillEnds
<1>23. CASE UNCHANGED vars
  BY <1>23, <1>c DEF vars
<1> QED BY <1>1, <1>2, <1>3, <1>4, <1>5, <1>6, <1>7, <1>8, <1>9, <1>10, <1>11, <1>12,
   <1>13, <1>14, <1>15, <1>16, <1>17, <1>18, <1>19, <1>20, <1>21, <1>22, <1>23 DEF Next,
   Progress

(* Parking never takes a session from somebody who uses it or gets it:     *)
(* ensureLive hands out no session that a park disposes, and the commit of *)
(* park finds no turn running, but for one begun on a session whose        *)
(* revival had not finished, or after the manager stopped listening.       *)
THEOREM ParkCorrect == Spec => ParkIsSafe
<1>1. FleetIInv /\ [Next]_vars =>
        [\A m \in Messages : msgs[m].at # "got" /\ msgs'[m].at = "got" =>
            sess'[msgs'[m].got].by # "park"]_vars
  BY GotNotParked
<1>2. ASSUME FleetIInv, [Next]_vars, NEW s \in Sessions, sess[s].at = "live", sess'[s].by = "park"
      PROVE  ~sess[s].turn \/ sess[s].early \/ disposed
  <2>1. ParkCommits /\ s = park.session
    BY <1>2, OnlyCommitParks
  <2>2. park.at = "yield" /\ ~park.cancelled /\ adopted.ref = park.ref
    <3>1. sess[s].by # "park"
      BY <1>2 DEF FleetIInv, AttachedOnce, LiveAttached
    <3> QED BY <1>2, <2>1, <3>1 DEF ParkCommits
  <2>3. ~disposed => refs[park.ref].status = "idle" /\ Of(park.ref) = s /\ sess[s].ref = park.ref
    BY <1>2, <2>1, <2>2 DEF FleetIInv, Listening, ParkYields, Referred, ParkUsed
  <2> QED BY <1>2, <2>3 DEF FleetIInv, AttachedOnce, TurnsSeen
<1>3. FleetIInv /\ [Next]_vars =>
        [\A s \in Sessions : sess[s].at = "live" /\ sess'[s].by = "park" =>
            ~sess[s].turn \/ sess[s].early \/ disposed]_vars
  BY <1>2
<1> QED BY <1>1, <1>3, FleetInvariant, PTL DEF Spec, ParkIsSafe, ParkedIsNotReturned, ParkSparesTurns

=============================================================================
