---------------------------- MODULE FollowModeProofs ----------------------------
(***************************************************************************)
(* Theorems about FollowMode, for any number of calls, lines and ticks,    *)
(* any cooldown and any time a wrong turn must last.                       *)
(*                                                                         *)
(* The screen lock.  What a walk holds is in its hand because it asks only *)
(* while it holds nothing: a page that is shown again was hidden, and the  *)
(* browser took its locks then.                                            *)
(*                                                                         *)
(* The walk.  A request waits or flies only for a walk that is lost, the   *)
(* timer it waits on was set a cooldown after the attempt before, and each *)
(* line after the first was paid for with an attempt.                      *)
(***************************************************************************)
EXTENDS FollowMode, FiniteSetTheorems, TLAPS

(* A step of follow mode is one of the lock, or leaves it alone, and one   *)
(* of the walk, or leaves that alone.                                      *)
LEMMA BothPartsStep ==
    [FollowNext]_<<vars, walkVars>> => [Next]_vars /\ [Walk!Next]_walkVars
BY DEF FollowNext, StartBoth, StopBoth, LockStep, WalkStep, Next, Walk!Next

-----------------------------------------------------------------------------
(* The screen lock.                                                        *)
Live == pending \ orphans

(* Strengthens SleepsAfterStop: nothing is held on a hidden page, nor      *)
(* while a first answer is awaited, and what is held is in `lock`.         *)
InHand ==
    /\ ~visible => held = {}
    /\ ~overlapped => held \subseteq {lock}
    /\ ~overlapped => \A a \in Live : held = {} /\ Live = {a}

(* Nothing is asked for, or held, before the first walk.                   *)
LEMMA TypeInit == Init => TypeOK
<1> SUFFICES ASSUME Init PROVE TypeOK
  OBVIOUS
<1>1. orphans = pending /\ lock = 0
  BY DEF Init
<1>2. asked \in 0..MaxAcquires /\ 0 \in 0..asked
  BY WakeLockAssumption DEF Init
<1> QED
  BY <1>1, <1>2 DEF Init, TypeOK

(* A step of the hook, of the browser or of the walker keeps TypeOK.       *)
LEMMA TypeStep == TypeOK /\ [Next]_vars => TypeOK'
<1> SUFFICES ASSUME TypeOK, [Next]_vars PROVE TypeOK'
  OBVIOUS
<1>1. CASE Start
  BY <1>1, WakeLockAssumption DEF TypeOK, Start, Acquire
<1>2. CASE Stop
  <2>1. orphans' = pending' /\ lock' = 0
    BY <1>2 DEF Stop
  <2>2. held' \subseteq 1..asked' /\ 0 \in 0..asked'
    BY <1>2, WakeLockAssumption DEF TypeOK, Stop
  <2> QED
    BY <1>2, <2>1, <2>2 DEF TypeOK, Stop
<1>3. CASE Show
  <2>1. CASE active
    <3>1. Acquire /\ UNCHANGED <<active, orphans, held, lock>> /\ visible' = TRUE
      BY <1>3, <2>1, Zenon DEF Show
    <3>2. asked \in Nat /\ asked' = asked + 1 /\ asked' \in 0..MaxAcquires
      BY <3>1, WakeLockAssumption DEF TypeOK, Acquire
    <3>3. pending' \subseteq 1..asked' /\ orphans' \subseteq pending'
      BY <3>1, <3>2 DEF TypeOK, Acquire
    <3>4. held' \subseteq 1..asked' /\ lock' \in 0..asked'
      BY <3>1, <3>2 DEF TypeOK
    <3>5. overlapped' \in BOOLEAN
      BY <3>1, Zenon DEF Acquire
    <3> QED
      BY <2>1, <3>1, <3>2, <3>3, <3>4, <3>5, Zenon DEF TypeOK
  <2>2. CASE ~active
    <3>1. UNCHANGED <<active, asked, pending, orphans, held, lock, overlapped>>
      <4>1. UNCHANGED <<asked, pending, overlapped>>
        BY <1>3, <2>2, Zenon DEF Show
      <4> QED
        BY <1>3, <4>1 DEF Show
    <3>2. orphans = pending /\ lock = 0
      BY <2>2, Zenon DEF TypeOK
    <3> QED
      BY <1>3, <2>2, <3>1, <3>2 DEF TypeOK, Show
  <2> QED
    BY <2>1, <2>2
<1>4. CASE Hide
  BY <1>4 DEF TypeOK, Hide
<1>5. CASE \E a \in 1..MaxAcquires : Granted(a)
  BY <1>5 DEF TypeOK, Granted
<1>6. CASE \E a \in 1..MaxAcquires : Refused(a)
  BY <1>6 DEF TypeOK, Refused
<1>7. CASE UNCHANGED vars
  BY <1>7 DEF TypeOK, vars
<1> QED
  BY <1>1, <1>2, <1>3, <1>4, <1>5, <1>6, <1>7 DEF Next

(* It keeps what is held in hand.                                          *)
LEMMA InHandStep == TypeOK /\ InHand /\ [Next]_vars => InHand'
<1> SUFFICES ASSUME TypeOK, InHand, [Next]_vars PROVE InHand'
  OBVIOUS
<1>1. CASE Start
  <2>1. held' = held /\ (~overlapped => held = {})
    BY <1>1 DEF TypeOK, InHand, Start
  <2>2. Live = {} /\ Live' = {asked'}
    BY <1>1, WakeLockAssumption DEF TypeOK, Start, Acquire, Live
  <2> QED
    BY <1>1, <2>1, <2>2 DEF TypeOK, InHand, Start, Acquire
<1>2. CASE Stop
  <2>1. Live' = {}
    BY <1>2 DEF TypeOK, Stop, Live
  <2> QED
    BY <1>2, <2>1 DEF TypeOK, InHand, Stop
<1>3. CASE Show
  <2>1. held = {} /\ held' = {}
    BY <1>3 DEF InHand, Show
  <2>2. CASE active /\ Live = {}
    BY <1>3, <2>1, <2>2 DEF TypeOK, InHand, Show, Acquire, Live
  <2>3. CASE active /\ Live # {}
    BY <1>3, <2>1, <2>3 DEF TypeOK, InHand, Show, Acquire, Live
  <2>4. CASE ~active
    BY <1>3, <2>1, <2>4 DEF TypeOK, InHand, Show, Live
  <2> QED
    BY <2>2, <2>3, <2>4
<1>4. CASE Hide
  BY <1>4 DEF TypeOK, InHand, Hide, Live
<1>5. ASSUME NEW a \in 1..MaxAcquires, Granted(a) PROVE InHand'
  <2>1. CASE a \in orphans
    BY <1>5, <2>1 DEF TypeOK, InHand, Granted, Live
  <2>2. CASE a \notin orphans
    <3>1. ~overlapped => held = {} /\ Live = {a}
      BY <1>5, <2>2 DEF InHand, Granted, Live
    <3>2. Live' = Live \ {a}
      BY <1>5, <2>2 DEF Granted, Live
    <3> QED
      BY <1>5, <2>2, <3>1, <3>2 DEF InHand, Granted
  <2> QED
    BY <2>1, <2>2
<1>6. ASSUME NEW a \in 1..MaxAcquires, Refused(a) PROVE InHand'
  <2>1. CASE a \in orphans
    BY <1>6, <2>1 DEF TypeOK, InHand, Refused, Live
  <2>2. CASE a \notin orphans
    <3>1. ~overlapped => held = {} /\ Live = {a}
      BY <1>6, <2>2 DEF InHand, Refused, Live
    <3>2. Live' = Live \ {a}
      BY <1>6, <2>2 DEF Refused, Live
    <3> QED
      BY <1>6, <2>2, <3>1, <3>2 DEF InHand, Refused
  <2> QED
    BY <2>1, <2>2
<1>7. CASE UNCHANGED vars
  BY <1>7 DEF InHand, Live, vars
<1> QED
  BY <1>1, <1>2, <1>3, <1>4, <1>5, <1>6, <1>7 DEF Next

(* followTracking: the variables of the wake-lock effect keep their types. *)
THEOREM WakeLockType == Spec => []TypeOK
BY TypeInit, TypeStep, PTL DEF Spec

(* followTracking: a sentinel answered after Stop is released, as long as  *)
(* no walk asked for a second one while it waited for its first.           *)
THEOREM WakeLockSleeps == Spec => []SleepsAfterStop
<1>1. Init => InHand
  BY DEF Init, InHand, Live
<1>2. TypeOK /\ InHand => SleepsAfterStop
  <2> SUFFICES ASSUME TypeOK, InHand, ~active, ~overlapped PROVE held = {}
    BY DEF SleepsAfterStop
  <2>1. lock = 0 /\ held \subseteq {0}
    BY DEF TypeOK, InHand
  <2>2. 0 \notin 1..asked
    BY DEF TypeOK
  <2> QED
    BY <2>1, <2>2 DEF TypeOK
<1> QED
  BY <1>1, <1>2, TypeInit, TypeStep, InHandStep, PTL DEF Spec

(* The same of the lock in follow mode, where the walk goes on beside it.  *)
LEMMA FollowModeIsALock == FollowSpec => Spec
BY BothPartsStep, PTL DEF FollowSpec, FollowInit, Spec

THEOREM FollowModeSleeps == FollowSpec => []SleepsAfterStop
BY FollowModeIsALock, WakeLockSleeps, PTL

-----------------------------------------------------------------------------
(* The walk.  A wrong turn is part of an unbroken run of off readings.     *)
RunsAgree ==
    /\ offRoute => since # Walk!Never /\ now - since >= Sustain
    /\ since # Walk!Never => lost # Walk!Never /\ lost <= since
    /\ arrived => since = Walk!Never

(* A request is only ever for a walk that is off its route.                *)
OnlyWhenWanted == request # "off" => Walk!Wanted

(* What is sent next comes a cooldown after everything sent before.        *)
Spaced ==
    /\ \A s \in sent : s <= last
    /\ \A s, t \in sent : s # t => s - t >= Cooldown \/ t - s >= Cooldown
    /\ request = "waiting" => due >= last + Cooldown

(* Each line after the first was asked for, and so was the one on its way. *)
LinesPaidFor ==
    /\ line = 0 => reroute.count = 0
    /\ line # 0 => reroute.count < line
    /\ Cardinality(sent) >= reroute.count
    /\ request = "flying" => Cardinality(sent) > reroute.count

WalkInv == Walk!TypeOK /\ RunsAgree /\ OnlyWhenWanted /\ Spaced /\ LinesPaidFor

(* What has been sent is a finite set of instants.                         *)
LEMMA SentFinite ==
    ASSUME Walk!TypeOK
    PROVE  IsFiniteSet(sent) /\ Cardinality(sent) \in Nat
<1>1. now \in Int /\ sent \subseteq 0..now BY FollowAssumption DEF Walk!TypeOK
<1>2. IsFiniteSet(0..now) BY <1>1, FS_Interval
<1> QED BY <1>1, <1>2, FS_Subset, FS_CardinalityType

(* The sets a reading may change, after it has been placed on a line.      *)
LEMMA PlacedOnLine ==
    ASSUME Walk!TypeOK, RunsAgree, NEW here \in Walk!Readings, NEW on,
           Walk!Locate(here, on), now' = now
    PROVE  /\ RunsAgree'
           /\ (since \in 0..now \cup {Walk!Never} /\ lost \in 0..now \cup {Walk!Never})'
           /\ offRoute' \in BOOLEAN /\ arrived' \in BOOLEAN /\ matched' = anchor /\ line' = on
<1>1. now \in Nat /\ here.off \in BOOLEAN /\ here.near \in BOOLEAN
  BY FollowAssumption DEF Walk!TypeOK, Walk!Readings
<1> USE DEF Walk!TypeOK, RunsAgree, Walk!Locate, Walk!Track, Walk!Never
<1>2. (since \in 0..now \cup {Walk!Never})' BY <1>1
<1>3. (lost \in 0..now \cup {Walk!Never})' BY <1>1
<1>4. offRoute' \in BOOLEAN BY <1>1
<1>5. (offRoute => since # Walk!Never /\ now - since >= Sustain)' BY <1>1
<1>6. (since # Walk!Never => lost # Walk!Never /\ lost <= since)' BY <1>1
<1>7. (arrived => since = Walk!Never)' /\ arrived' \in BOOLEAN BY <1>1
<1> QED BY <1>2, <1>3, <1>4, <1>5, <1>6, <1>7

(* A timer is set a cooldown after the attempt before.                     *)
LEMMA ScheduledLater ==
    ASSUME Walk!TypeOK
    PROVE  Walk!Schedule(last) \in 0..(MaxNow + Cooldown) /\ Walk!Schedule(last) >= last + Cooldown
BY FollowAssumption DEF Walk!TypeOK, Walk!Schedule, Walk!Later

(* The effect leaves a request only to a walk that wants one.              *)
LEMMA EffectFollows ==
    ASSUME Walk!TypeOK, OnlyWhenWanted, Spaced, Walk!FollowWanted, last' = last, sent' = sent
    PROVE  /\ OnlyWhenWanted' /\ Spaced'
           /\ request' \in {"off", "waiting", request} /\ due' \in 0..(MaxNow + Cooldown)
<1> DEFINE W == Walk!Wanted
<1>0. W \in BOOLEAN /\ W' \in BOOLEAN BY DEF Walk!Wanted
<1>w. request # "off" => W BY DEF OnlyWhenWanted
<1>f. /\ request' = CASE ~W' -> "off" [] W' /\ ~W -> "waiting" [] OTHER -> request
      /\ due' = IF W' /\ ~W THEN Walk!Schedule(last) ELSE due
  BY DEF Walk!FollowWanted
<1>o. OnlyWhenWanted' <=> (request' # "off" => W') BY DEF OnlyWhenWanted
<1>d. due \in 0..(MaxNow + Cooldown) BY DEF Walk!TypeOK
<1> HIDE DEF W
<1>1. CASE ~W' BY <1>0, <1>d, <1>f, <1>o, <1>1 DEF Spaced
<1>2. CASE W' /\ ~W BY <1>0, <1>f, <1>o, <1>2, ScheduledLater DEF Spaced
<1>3. CASE W' /\ W BY <1>0, <1>d, <1>f, <1>o, <1>3 DEF Spaced
<1> QED BY <1>0, <1>1, <1>2, <1>3


-----------------------------------------------------------------------------
LEMMA WalkBegins == Walk!Init => WalkInv
<1> SUFFICES ASSUME Walk!Init PROVE WalkInv OBVIOUS
<1> USE FollowAssumption DEF Walk!Init, Walk!Quiet, Walk!Never
<1>1. Walk!TypeOK
  <2>1. (now \in 0..MaxNow /\ line \in 0..MaxLines) OBVIOUS
  <2>2. (anchor \in 0..line /\ matched \in 0..MaxLines) OBVIOUS
  <2>3. (since \in 0..now \cup {Walk!Never} /\ lost \in 0..now \cup {Walk!Never}) OBVIOUS
  <2>4. (due \in 0..(MaxNow + Cooldown) /\ last \in (0 - Cooldown)..now /\ sent \subseteq 0..now)
    OBVIOUS
  <2>5. (reroute \in [rerouting : BOOLEAN, failed : BOOLEAN, count : 0..MaxLines]) OBVIOUS
  <2>6. (/\ offRoute \in BOOLEAN /\ arrived \in BOOLEAN /\ poor \in BOOLEAN /\ error \in BOOLEAN
         /\ request \in {"off", "waiting", "flying"}) OBVIOUS
  <2> QED BY ONLY <2>1, <2>2, <2>3, <2>4, <2>5, <2>6 DEF Walk!TypeOK
<1>2. RunsAgree /\ OnlyWhenWanted /\ Spaced BY DEF RunsAgree, OnlyWhenWanted, Spaced
<1>3. LinesPaidFor BY FS_EmptySet DEF LinesPaidFor
<1> QED BY <1>1, <1>2, <1>3 DEF WalkInv

(* A fix on the line being walked.                                         *)
LEMMA FixKeeps ==
    ASSUME WalkInv, NEW here \in Walk!Readings, Walk!Fix(here)
    PROVE  WalkInv'
<1> USE DEF WalkInv
<1>0. /\ Walk!Locate(here, line) /\ Walk!FollowWanted
      /\ poor' = FALSE /\ error' = FALSE /\ anchor' = line
      /\ now' = now /\ last' = last /\ reroute' = reroute /\ sent' = sent
  BY DEF Walk!Fix
<1>1. RunsAgree' /\ line' = line /\ OnlyWhenWanted' /\ Spaced'
  BY <1>0, PlacedOnLine, EffectFollows
<1>2. LinesPaidFor'
  <2>1. request' = "flying" => request = "flying" BY <1>0, EffectFollows
  <2> QED BY <1>0, <1>1, <2>1 DEF LinesPaidFor
<1>3. (since \in 0..now \cup {Walk!Never} /\ lost \in 0..now \cup {Walk!Never})'
  BY <1>0, PlacedOnLine
<1>4. offRoute' \in BOOLEAN /\ arrived' \in BOOLEAN /\ matched' = anchor
  BY <1>0, PlacedOnLine
<1>5. request' \in {"off", "waiting", "flying"} /\ due' \in 0..(MaxNow + Cooldown)
  BY <1>0, EffectFollows DEF Walk!TypeOK
<1>6. Walk!TypeOK'
  <2>1. (anchor \in 0..line /\ matched \in 0..MaxLines)'
    BY <1>0, <1>1, <1>4, FollowAssumption DEF Walk!TypeOK
  <2> QED BY <1>0, <1>1, <1>3, <1>4, <1>5, <2>1 DEF Walk!TypeOK
<1> QED BY <1>1, <1>2, <1>6

(* A new line: it was asked for.                                           *)
LEMMA RedrawnKeeps ==
    ASSUME WalkInv, NEW here \in Walk!Readings, Walk!Redrawn(here)
    PROVE  WalkInv'
<1> USE DEF WalkInv
<1>0. /\ Walk!Locate(here, line + 1)
      /\ request = "flying" /\ line < MaxLines
      /\ reroute' = [rerouting |-> FALSE, failed |-> FALSE, count |-> reroute.count + 1]
      /\ anchor' = 0 /\ due' = Walk!Schedule(last)
      /\ UNCHANGED <<now, poor, error, last, sent>>
  BY DEF Walk!Redrawn, Walk!signal
<1>1. request' = IF Walk!Wanted' THEN "waiting" ELSE "off" BY DEF Walk!Redrawn
<1>2. RunsAgree' /\ line' = line + 1 BY <1>0, PlacedOnLine
<1>3. OnlyWhenWanted'
  <2>1. ~Walk!Wanted' => request' = "off" BY <1>1
  <2> QED BY <2>1 DEF OnlyWhenWanted
<1>4. Spaced' BY <1>0, ScheduledLater DEF Spaced
<1>5. line \in 1..MaxLines
  BY <1>0, FollowAssumption DEF OnlyWhenWanted, Walk!Wanted, Walk!TypeOK
<1>6. request' \in {"off", "waiting"} BY <1>1
<1>7. LinesPaidFor'
  BY <1>0, <1>2, <1>5, <1>6, SentFinite DEF LinesPaidFor, Walk!TypeOK
<1>8. (since \in 0..now \cup {Walk!Never} /\ lost \in 0..now \cup {Walk!Never})'
  BY <1>0, PlacedOnLine
<1>9. offRoute' \in BOOLEAN /\ arrived' \in BOOLEAN /\ matched' = anchor
  BY <1>0, PlacedOnLine
<1>10. due' \in 0..(MaxNow + Cooldown) BY <1>0, ScheduledLater
<1>11. reroute' \in [rerouting : BOOLEAN, failed : BOOLEAN, count : 0..MaxLines]
  <2>1. reroute.count < line /\ reroute.count \in Nat
    BY <1>5, FollowAssumption DEF LinesPaidFor, Walk!TypeOK
  <2>2. reroute.count + 1 \in 0..MaxLines BY <2>1, <1>5, FollowAssumption
  <2> QED BY <1>0, <2>2
<1>12. Walk!TypeOK'
  BY <1>0, <1>2, <1>5, <1>6, <1>8, <1>9, <1>10, <1>11, FollowAssumption DEF Walk!TypeOK
<1> QED BY <1>2, <1>3, <1>4, <1>7, <1>12

(* The timer: a cooldown has passed since everything sent before.          *)
LEMMA AttemptKeeps ==
    ASSUME WalkInv, Walk!Attempt
    PROVE  WalkInv'
<1> USE DEF WalkInv
<1>0. /\ request = "waiting" /\ now >= due /\ request' = "flying" /\ last' = now
      /\ reroute' = [reroute EXCEPT !.rerouting = TRUE]
      /\ sent' = sent \cup {now}
      /\ UNCHANGED <<now, line, anchor, since, offRoute, arrived, matched, lost, poor, error, due>>
  BY DEF Walk!Attempt, Walk!session, Walk!signal
<1>1. /\ now \in 0..MaxNow /\ last \in Int /\ due \in Int /\ Cooldown \in Nat \ {0}
      /\ sent \subseteq Int
  BY FollowAssumption DEF Walk!TypeOK
<1>2. \A s \in sent : now - s >= Cooldown BY <1>0, <1>1 DEF Spaced
<1>3. now \notin sent BY <1>1, <1>2
<1>4. Cardinality(sent') = Cardinality(sent) + 1
  BY <1>0, <1>3, SentFinite, FS_AddElement
<1>5. RunsAgree' BY <1>0 DEF RunsAgree
<1>6. OnlyWhenWanted' BY <1>0 DEF OnlyWhenWanted, Walk!Wanted
<1>7. Spaced' BY <1>0, <1>1, <1>2 DEF Spaced
<1>8. reroute'.count = reroute.count /\ reroute.count \in 0..MaxLines
  BY <1>0 DEF Walk!TypeOK
<1>9. LinesPaidFor'
  <2>1. Cardinality(sent) >= reroute.count /\ Cardinality(sent) \in Nat /\ reroute.count \in Nat
    BY <1>8, SentFinite, FollowAssumption DEF LinesPaidFor
  <2>2. Cardinality(sent') > reroute'.count BY <1>4, <1>8, <2>1
  <2> QED BY <1>0, <1>4, <1>8, <2>1, <2>2 DEF LinesPaidFor
<1>10. Walk!TypeOK'
  <2>1. reroute' \in [rerouting : BOOLEAN, failed : BOOLEAN, count : 0..MaxLines]
    BY <1>0 DEF Walk!TypeOK
  <2>2. (last \in (0 - Cooldown)..now /\ sent \subseteq 0..now)' BY <1>0, <1>1 DEF Walk!TypeOK
  <2> QED BY <1>0, <2>1, <2>2 DEF Walk!TypeOK
<1> QED BY <1>5, <1>6, <1>7, <1>9, <1>10

(* Every step of the walk keeps the invariant.                             *)
LEMMA WalkInvariant == FollowSpec => []WalkInv
<1>1. WalkInv /\ [Walk!Next]_walkVars => WalkInv'
  <2> SUFFICES ASSUME WalkInv, [Walk!Next]_walkVars PROVE WalkInv' OBVIOUS
  <2> USE DEF WalkInv
  <2>1. CASE Walk!Start
    <3>1. Walk!TypeOK'
      BY <2>1, FollowAssumption DEF Walk!Start, Walk!TypeOK, Walk!signal
    <3>2. request = "off"
      BY <2>1 DEF Walk!Start, OnlyWhenWanted, Walk!Wanted
    <3>3. reroute.count \in Nat BY FollowAssumption DEF Walk!TypeOK
    <3> QED
      BY <2>1, <3>1, <3>2, <3>3
         DEF Walk!Start, Walk!signal, RunsAgree, OnlyWhenWanted, Spaced, LinesPaidFor
  <2>2. CASE Walk!Stop
    <3> USE <2>2, FollowAssumption DEF Walk!Stop, Walk!Quiet, Walk!Never
    <3>1. Walk!TypeOK'
      <4>1. (now \in 0..MaxNow /\ line \in 0..MaxLines)'
        BY DEF Walk!TypeOK
      <4>2. (anchor \in 0..line /\ matched \in 0..MaxLines)' OBVIOUS
      <4>3. (since \in 0..now \cup {Walk!Never} /\ lost \in 0..now \cup {Walk!Never})' OBVIOUS
      <4>4. (due \in 0..(MaxNow + Cooldown) /\ last \in (0 - Cooldown)..now /\ sent \subseteq 0..now)'
        BY DEF Walk!TypeOK
      <4>5. (reroute \in [rerouting : BOOLEAN, failed : BOOLEAN, count : 0..MaxLines])' OBVIOUS
      <4>6. (/\ offRoute \in BOOLEAN /\ arrived \in BOOLEAN /\ poor \in BOOLEAN /\ error \in BOOLEAN
             /\ request \in {"off", "waiting", "flying"})' OBVIOUS
      <4> QED BY ONLY <4>1, <4>2, <4>3, <4>4, <4>5, <4>6 DEF Walk!TypeOK
    <3>2. (RunsAgree /\ OnlyWhenWanted /\ Spaced)' BY DEF RunsAgree, OnlyWhenWanted, Spaced
    <3>3. LinesPaidFor' BY FS_EmptySet DEF LinesPaidFor
    <3> QED BY <3>1, <3>2, <3>3
  <2>3. CASE Walk!PoorFix \/ Walk!NoFix \/ UNCHANGED walkVars
    <3>1. /\ UNCHANGED <<now, line, anchor, since, offRoute, arrived, matched, lost,
                         request, due, last, reroute, sent>>
          /\ poor' \in BOOLEAN /\ error' \in BOOLEAN
      BY <2>3 DEF Walk!PoorFix, Walk!NoFix, walkVars, Walk!session, Walk!TypeOK
    <3>2. Walk!TypeOK' BY <3>1 DEF Walk!TypeOK
    <3>3. (RunsAgree /\ OnlyWhenWanted)' BY <3>1 DEF RunsAgree, OnlyWhenWanted, Walk!Wanted
    <3>4. (Spaced /\ LinesPaidFor)' BY <3>1 DEF Spaced, LinesPaidFor
    <3> QED BY <3>2, <3>3, <3>4
  <2>4. CASE Walk!Failed
    <3> USE <2>4 DEF Walk!Failed, Walk!session, Walk!signal
    <3>1. Walk!TypeOK' BY ScheduledLater DEF Walk!TypeOK
    <3>2. Spaced' BY ScheduledLater DEF Spaced
    <3>3. OnlyWhenWanted' BY DEF OnlyWhenWanted, Walk!Wanted
    <3>4. LinesPaidFor' BY DEF LinesPaidFor, Walk!TypeOK
    <3> QED BY <3>1, <3>2, <3>3, <3>4 DEF RunsAgree
  <2>5. CASE Walk!Tick
    <3> USE <2>5, FollowAssumption DEF Walk!Tick, Walk!session, Walk!signal
    <3>1. Walk!TypeOK' BY DEF Walk!TypeOK, Walk!Never
    <3>2. RunsAgree' BY DEF RunsAgree, Walk!TypeOK, Walk!Never
    <3> QED BY <3>1, <3>2 DEF Spaced, OnlyWhenWanted, Walk!Wanted, LinesPaidFor
  <2> QED
    BY <2>1, <2>2, <2>3, <2>4, <2>5, FixKeeps, RedrawnKeeps, AttemptKeeps DEF Walk!Next
<1> QED BY <1>1, WalkBegins, BothPartsStep, PTL DEF FollowSpec, FollowInit

-----------------------------------------------------------------------------
(* useReroute: the lock and the walk begin and end together, positions are *)
(* never sent faster than the cooldown, whatever ended the attempt before, *)
(* and no line is walked that was not asked for.                           *)
THEOREM FollowModeSpacesAttempts == FollowSpec => []AttemptsSpaced
<1> DEFINE Together == TypeOK /\ (active <=> line # 0)
<1>1. FollowInit => Together BY TypeInit DEF FollowInit, Init, Walk!Init
<1>2. Together /\ WalkInv /\ [FollowNext]_<<vars, walkVars>> => Together'
  <2> SUFFICES ASSUME Together, WalkInv, [FollowNext]_<<vars, walkVars>>
               PROVE  (active <=> line # 0)'
    BY BothPartsStep, TypeStep
  <2>1. CASE StartBoth BY <2>1 DEF StartBoth, Start, Walk!Start
  <2>2. CASE StopBoth BY <2>2 DEF StopBoth, Stop, Walk!Stop
  <2>3. CASE LockStep
    BY <2>3 DEF LockStep, Show, Hide, Granted, Refused, walkVars
  <2>4. CASE WalkStep
    <3>1. active' = active BY <2>4 DEF WalkStep, vars
    <3>2. line' # 0 <=> line # 0
      <4>1. ASSUME NEW here \in Walk!Readings, Walk!Redrawn(here) PROVE line # 0 /\ line' # 0
        BY <4>1, FollowAssumption
           DEF Walk!Redrawn, Walk!Locate, WalkInv, OnlyWhenWanted, Walk!Wanted, Walk!TypeOK
      <4>2. ASSUME NEW here \in Walk!Readings, Walk!Fix(here) PROVE line' = line
        BY <4>2 DEF Walk!Fix, Walk!Locate
      <4> QED
        BY <2>4, <4>1, <4>2
           DEF WalkStep, Walk!PoorFix, Walk!NoFix, Walk!Attempt, Walk!Failed, Walk!Tick,
               Walk!session
    <3> QED BY <3>1, <3>2
  <2>5. CASE UNCHANGED <<vars, walkVars>> BY <2>5 DEF vars, walkVars
  <2> QED BY <2>1, <2>2, <2>3, <2>4, <2>5 DEF FollowNext
<1>3. Together /\ WalkInv => AttemptsSpaced
  BY DEF WalkInv, Spaced, LinesPaidFor, AttemptsSpaced, Walk!AttemptsSpaced,
         Walk!Cardinality, Cardinality
<1> HIDE DEF Together
<1> QED BY <1>1, <1>2, <1>3, WalkInvariant, PTL DEF FollowSpec

(* followTracking: a walk that has arrived is not off its route, however   *)
(* far past the end the walker strays, and asks for no other.              *)
THEOREM FollowModeArrives == FollowSpec => []ArrivalWins
<1>1. WalkInv => ArrivalWins
  BY DEF WalkInv, RunsAgree, OnlyWhenWanted, Walk!Wanted, ArrivalWins, Walk!ArrivalWins
<1> QED BY <1>1, WalkInvariant, PTL

(* useReroute: a position leaves the phone only after every reading for    *)
(* Sustain has been off the line, by a walk that has neither arrived nor   *)
(* stopped.                                                                *)
THEOREM FollowModeSendsOnlyWhenLost == FollowSpec => SentOnlyWhenLost
<1> DEFINE Lost == line # 0 /\ ~arrived /\ lost # Walk!Never /\ now - lost >= Sustain
<1>1. WalkInv /\ [FollowNext]_<<vars, walkVars>> => [sent' # sent /\ sent' # {} => Lost]_(Walk!vars)
  <2> SUFFICES ASSUME WalkInv, Walk!Next, sent' # sent, sent' # {} PROVE Lost
    BY BothPartsStep DEF walkVars, Walk!vars
  <2>1. Walk!Attempt
    BY DEF Walk!Next, Walk!Start, Walk!Stop, Walk!Fix, Walk!Redrawn, Walk!PoorFix, Walk!NoFix,
           Walk!Failed, Walk!Tick
  <2>2. line # 0 /\ ~arrived /\ offRoute
    BY <2>1 DEF Walk!Attempt, WalkInv, OnlyWhenWanted, Walk!Wanted
  <2>3. since # Walk!Never /\ now - since >= Sustain /\ lost # Walk!Never /\ lost <= since
    BY <2>2 DEF WalkInv, RunsAgree
  <2>4. now \in Int /\ since \in Int /\ lost \in Int
    BY <2>3, FollowAssumption DEF WalkInv, Walk!TypeOK
  <2> QED BY <2>2, <2>3, <2>4, FollowAssumption
<1> QED
  BY <1>1, WalkInvariant, PTL DEF FollowSpec, SentOnlyWhenLost, Walk!SentOnlyWhenLost

==============================================================================
