-------------------------- MODULE SavedRoutesProofs --------------------------
(***************************************************************************)
(* Theorems about SavedRoutes, for any number of calls in any number of    *)
(* tabs, and any builds.                                                   *)
(*                                                                         *)
(* Nothing kept.  Without consent every saved set that can still be found  *)
(* is answered for by a call under way: one that is about to list the      *)
(* names, or has it on its list, or wrote it and is about to look at the   *)
(* consent again.  A boot answers for all of them, which is why it makes   *)
(* good what a closed tab left.                                            *)
(***************************************************************************)
EXTENDS SavedRoutes, FiniteSetTheorems, TLAPS

(* Which calls may stand at a place, and return to one.                    *)
Fits(t, place, return) ==
    /\ place \in {"naming", "opening"} => t \in Clients
    /\ (place \in {"putting", "confirming", "undoing"} \/ return = "opening") => t \in Savers
    /\ place \in {"matching", "rereading"} => t \in Readers
    /\ place = "refreshing" => t \in Agreers \cup Refusers \cup Boots
    /\ (place \in {"erasing", "reconfirming"} \/ return \in {"refreshing", "reconfirming"}) =>
          t \in Refusers
    /\ place = "activating" => t \in Versions
    /\ place \in {"listing", "dead"} => t \in Pages
    /\ place \notin {"listing", "deleting"} => return = "ended"

Kinds == \A t \in Tasks : Fits(t, at[t], back[t])

(* A call that will use a name, or a bucket, has one.                      *)
InHand ==
    \A t \in Clients :
        /\ back[t] = "opening" => target[t] # 0
        /\ at[t] \in {"putting", "confirming", "undoing"} => handle[t] # 0

(* A client makes at most one bucket.                                      *)
YetToOpen == {t \in Clients : at[t] \in {"idle", "naming", "opening"} \/ back[t] = "opening"}
OneBucketEach == made + Cardinality(YetToOpen) <= Cardinality(Clients)

(* The call that answers for the saved set of a version.                   *)
AnswersFor(t, v) ==
    \/ at[t] \in {"listing", "refreshing"}
    \/ at[t] = "deleting" /\ <<"results", v>> \in listed[t]
    \/ at[t] \in {"confirming", "undoing"} /\ handle[t] = linked[v]

Answered == flag # "yes" /\ ~unswept => \A v \in Saved : \E t \in Pages : AnswersFor(t, v)

(* A refusal that has read the flag, or erased it, has left no yes.        *)
PastReading(t) ==
    \/ at[t] \in {"ended", "reconfirming"}
    \/ at[t] \in {"listing", "deleting"} /\ back[t] \in {"ended", "reconfirming"}

Taken ==
    (\A t \in Agreers : at[t] = "idle") /\ ~stuck =>
        \A t \in Refusers : PastReading(t) => flag # "yes"

SavedInv == TypeOK /\ Kinds /\ InHand /\ OneBucketEach /\ Answered /\ Taken

-----------------------------------------------------------------------------
(* The oldest of some builds is one of them.                               *)
LEMMA OldestIsOne ==
    ASSUME NEW S \in SUBSET Versions, S # {}
    PROVE  Min(S) \in S /\ Min(S) # 0
<1>1. S \subseteq Nat \ {0} BY SavedAssumption
<1>2. PICK n \in S : \A m \in S : <<m, n>> \notin OpToRel(<, Nat)
  BY <1>1, NatLessThanWellFounded, WFMin
<1>3. \A m \in S : n <= m
  <2> TAKE m \in S
  <2>1. m \in Nat /\ n \in Nat BY <1>1
  <2>2. m < n => <<m, n>> \in OpToRel(<, Nat) BY <2>1, Zenon DEF OpToRel
  <2>3. ~(m < n) BY <1>2, <2>2, Zenon
  <2> QED BY <2>1, <2>3
<1>4. Min(S) \in S BY <1>3 DEF Min
<1> QED BY <1>1, <1>4

(* Each kind of call is no other.                                          *)
LEMMA Apart ==
    /\ Savers \cap Readers = {} /\ Savers \cap Refusers = {} /\ Readers \cap Refusers = {}
    /\ Clients \cap (Agreers \cup Boots \cup Refusers) = {}
    /\ Refusers \cap (Agreers \cup Boots) = {}
    /\ Pages \cap Versions = {} /\ Clients \subseteq Pages /\ Pages \subseteq Tasks
    /\ Savers \subseteq Clients /\ Readers \subseteq Clients
    /\ Refusers \subseteq Pages /\ Agreers \subseteq Pages /\ Boots \subseteq Pages
    /\ Versions \subseteq Tasks /\ 0 \notin Versions
BY SavedAssumption DEF Tasks, Pages, Clients

(* The sets the types are made of.                                         *)
Places == {"idle", "listing", "deleting", "naming", "opening", "putting", "confirming",
           "undoing", "matching", "rereading", "refreshing", "erasing", "reconfirming",
           "activating", "ended", "dead"}
Returns == {"opening", "refreshing", "reconfirming", "ended"}
Names == {"shell", "results"} \X Versions

(* One call moves, to where it may stand.                                  *)
Moved(t) ==
    \E place \in Places, return \in Returns :
        /\ at' = [at EXCEPT ![t] = place] /\ back' = [back EXCEPT ![t] = return]
        /\ Fits(t, place, return)

LEMMA StaysInKind ==
    ASSUME TypeOK, Kinds, NEW t \in Tasks, Moved(t)
    PROVE  at' \in [Tasks -> Places] /\ back' \in [Tasks -> Returns] /\ Kinds'
<1>0. at \in [Tasks -> Places] /\ back \in [Tasks -> Returns]
  BY DEF TypeOK, Places, Returns
<1>1. PICK place \in Places, return \in Returns :
        /\ at' = [at EXCEPT ![t] = place] /\ back' = [back EXCEPT ![t] = return]
        /\ Fits(t, place, return)
  BY DEF Moved
<1>2. \A u \in Tasks : Fits(u, at'[u], back'[u])
  <2> TAKE u \in Tasks
  <2>1. CASE u = t BY <1>0, <1>1, <2>1
  <2>2. CASE u # t BY <1>0, <1>1, <2>2 DEF Kinds
  <2> QED BY <2>1, <2>2
<1> QED BY <1>0, <1>1, <1>2 DEF Kinds

(* What a call takes on in its hand.                                       *)
LEMMA Dropped ==
    ASSUME TypeOK, NEW t \in Tasks, Drop(t)
    PROVE  /\ target' \in [Clients -> Versions \cup {0}] /\ handle' \in [Clients -> 0..made]
           /\ \A u \in Clients : u # t => target'[u] = target[u] /\ handle'[u] = handle[u]
BY DEF TypeOK, Drop


-----------------------------------------------------------------------------
(* A step is a call's, and the call stays within its kind.                 *)
Acts(t) ==
    \/ List(t) \/ Delete(t) \/ Return(t)
    \/ ReadFlag(t) \/ Name(t) \/ Open(t) \/ Put(t) \/ Confirm(t) \/ Undo(t)
    \/ Match(t) \/ Hand(t)
    \/ Choose(t) \/ Boot(t) \/ Refresh(t) \/ Erase(t) \/ Reconfirm(t)
    \/ CloseTab(t) \/ Install(t) \/ Activate(t)

LEMMA ActsInKind ==
    ASSUME TypeOK, Kinds, NEW t \in Tasks, Acts(t)
    PROVE  Moved(t)
<1>0. /\ at \in [Tasks -> Places] /\ back \in [Tasks -> Returns]
      /\ Fits(t, at[t], back[t]) /\ back = [back EXCEPT ![t] = back[t]]
      /\ at = [at EXCEPT ![t] = at[t]] /\ "ended" \in Returns
  BY DEF TypeOK, Places, Returns, Kinds
<1>1. ASSUME NEW place \in Places, Goto(t, place), back' = back, Fits(t, place, back[t])
      PROVE  Moved(t)
  BY <1>0, <1>1 DEF Moved, Goto
<1>2. ASSUME NEW place \in Places, NEW return \in Returns, Goto(t, place),
             back' = [back EXCEPT ![t] = return], Fits(t, place, return)
      PROVE  Moved(t)
  BY <1>2 DEF Moved, Goto
<1>3. CASE List(t) BY <1>0, <1>1, <1>3, Apart DEF List, Fits, Places
<1>4. CASE Delete(t) BY <1>0, <1>1, <1>4 DEF Delete, Goto
<1>5. CASE Return(t)
  <2>1. back[t] \in Places /\ Fits(t, back[t], "ended") BY <1>0, Apart DEF Fits, Returns, Places
  <2> QED BY <1>0, <1>2, <1>5, <2>1 DEF Return
<1>6. CASE ReadFlag(t) BY <1>0, <1>1, <1>6 DEF ReadFlag, Fits, Places
<1>7. CASE Name(t)
  <2>1. t \in Clients /\ at[t] = "naming" /\ back[t] = "ended" BY <1>0, <1>7 DEF Name, Fits
  <2>2. CASE Shell = 0 BY <1>0, <1>1, <1>7, <2>1, <2>2 DEF Name, Fits, Places
  <2>3. CASE t \in Savers /\ Shell # 0
    BY <1>0, <1>2, <1>7, <2>1, <2>3, Apart DEF Name, Call, Fits, Places, Returns
  <2>4. CASE t \in Readers /\ Shell # 0
    BY <1>0, <1>1, <1>7, <2>1, <2>4, Apart DEF Name, Fits, Places
  <2> QED BY <2>1, <2>2, <2>3, <2>4 DEF Clients
<1>8. CASE Open(t)
  <2>1. t \in Clients /\ back[t] = "ended" BY <1>0, <1>8 DEF Open, Fits
  <2> QED BY <1>0, <1>1, <1>8, <2>1 DEF Open, Fits, Places, Clients
<1>9. CASE Put(t) BY <1>0, <1>1, <1>9 DEF Put, Fits, Places
<1>10. CASE Confirm(t) BY <1>0, <1>1, <1>10 DEF Confirm, Fits, Places
<1>11. CASE Undo(t) BY <1>0, <1>2, <1>11, Apart DEF Undo, Call, Fits, Places
<1>12. CASE Match(t) BY <1>0, <1>1, <1>12 DEF Match, Fits, Places
<1>13. CASE Hand(t) BY <1>0, <1>1, <1>13 DEF Hand, Fits, Places
<1>14. CASE Choose(t)
  <2>1. CASE t \in Refusers
    BY <1>0, <1>2, <1>14, <2>1, Apart DEF Choose, Call, Fits, Places, Returns
  <2>2. CASE t \notin Refusers
    BY <1>0, <1>1, <1>14, <2>2, Apart DEF Choose, Fits, Places
  <2> QED BY <2>1, <2>2
<1>15. CASE Boot(t) BY <1>0, <1>1, <1>15 DEF Boot, Fits, Places
<1>16. CASE Refresh(t)
  <2>0. at[t] = "refreshing" /\ t \in Pages /\ back[t] = "ended"
    BY <1>0, <1>16, Apart DEF Refresh, Fits
  <2>1. CASE flag # "yes" BY <1>0, <1>2, <1>16, <2>0, <2>1 DEF Refresh, Call, Fits, Places
  <2>2. CASE flag = "yes" BY <1>0, <1>1, <1>16, <2>0, <2>2 DEF Refresh, Fits, Places
  <2> QED BY <2>1, <2>2
<1>17. CASE Erase(t)
  <2>1. t \in Refusers BY <1>0, <1>17 DEF Erase, Fits
  <2> QED BY <1>0, <1>2, <1>17, <2>1, Apart DEF Erase, Call, Fits, Places, Returns
<1>18. CASE Reconfirm(t)
  <2>1. t \in Refusers /\ back[t] = "ended" BY <1>0, <1>18 DEF Reconfirm, Fits
  <2>2. CASE flag = "yes" BY <1>0, <1>1, <1>18, <2>1, <2>2 DEF Reconfirm, Fits, Places
  <2>3. CASE flag # "yes"
    BY <1>0, <1>2, <1>18, <2>1, <2>3, Apart DEF Reconfirm, Call, Fits, Places
  <2> QED BY <2>2, <2>3
<1>19. CASE CloseTab(t) BY <1>0, <1>2, <1>19 DEF CloseTab, Fits, Places
<1>20. CASE Install(t)
  <2>1. t \in Versions /\ t \in Nat BY <1>20, SavedAssumption DEF Install
  <2>2. at[t] = "idle" BY <1>20, <2>1 DEF Install
  <2> QED BY <1>0, <1>1, <1>20, <2>1, <2>2 DEF Install, Fits, Places
<1>21. CASE Activate(t) BY <1>0, <1>1, <1>21 DEF Activate, Fits, Places
<1> QED
  BY <1>3, <1>4, <1>5, <1>6, <1>7, <1>8, <1>9, <1>10, <1>11, <1>12, <1>13, <1>14, <1>15,
     <1>16, <1>17, <1>18, <1>19, <1>20, <1>21 DEF Acts


(* One call moves at a time, and none goes back to where it began.         *)
LEMMA OthersStay ==
    ASSUME TypeOK, Kinds, NEW t \in Tasks, Acts(t)
    PROVE  /\ \A u \in Tasks : u # t => at'[u] = at[u] /\ back'[u] = back[u]
           /\ at'[t] # "idle"
<1>0. /\ at \in [Tasks -> Places] /\ back \in [Tasks -> Returns]
      /\ at[t] = "deleting" => back[t] # "idle"
  BY DEF TypeOK, Places, Returns
<1>1. PICK place \in Places, return \in Returns :
        at' = [at EXCEPT ![t] = place] /\ back' = [back EXCEPT ![t] = return]
  BY ActsInKind DEF Moved
<1>2. \A u \in Tasks : u # t => at'[u] = at[u] /\ back'[u] = back[u] BY <1>0, <1>1
<1>3. at'[t] # "idle"
  <2>1. CASE List(t) BY <1>0, <2>1 DEF List, Goto
  <2>2. CASE Delete(t) BY <1>0, <2>2 DEF Delete
  <2>3. CASE Return(t) BY <1>0, <2>3 DEF Return, Goto
  <2>4. CASE ReadFlag(t) \/ Open(t) \/ Boot(t)
    BY <1>0, <2>4 DEF ReadFlag, Open, Boot, Goto
  <2>5. CASE Name(t)
    BY <1>0, <2>5 DEF Name, Goto, Call, Clients
  <2>6. CASE Put(t) \/ Confirm(t) \/ Undo(t) \/ Match(t) \/ Hand(t)
    BY <1>0, <2>6 DEF Put, Confirm, Undo, Match, Hand, Goto, Call
  <2>7. CASE Choose(t) \/ Erase(t) \/ Reconfirm(t)
    BY <1>0, <2>7 DEF Choose, Erase, Reconfirm, Goto, Call
  <2>8. CASE Refresh(t)
    BY <1>0, <2>8 DEF Refresh, Goto, Call
  <2>9. CASE CloseTab(t) \/ Install(t) \/ Activate(t)
    BY <1>0, <2>9 DEF CloseTab, Install, Activate, Goto
  <2> QED BY <2>1, <2>2, <2>3, <2>4, <2>5, <2>6, <2>7, <2>8, <2>9 DEF Acts
<1> QED BY <1>2, <1>3

(* The buckets: only these four steps touch them.                          *)
LEMMA BucketsStay ==
    ASSUME NEW t \in Tasks, Acts(t), ~Delete(t), ~Open(t), ~Put(t), ~Undo(t)
    PROVE  linked' = linked /\ made' = made /\ holds' = holds
<1>1. CASE List(t) \/ Return(t) \/ ReadFlag(t) \/ Name(t) \/ Confirm(t)
  BY <1>1 DEF List, Return, ReadFlag, Name, Confirm, storage
<1>2. CASE Match(t) \/ Hand(t) \/ Choose(t) \/ Boot(t) \/ Refresh(t)
  BY <1>2 DEF Match, Hand, Choose, Boot, Refresh, storage
<1>3. CASE Erase(t) \/ Reconfirm(t) \/ CloseTab(t) \/ Install(t) \/ Activate(t)
  BY <1>3 DEF Erase, Reconfirm, CloseTab, Install, Activate, storage
<1> QED BY <1>1, <1>2, <1>3 DEF Acts

(* A client that opens a bucket has not opened one before.                 *)
LEMMA RoomForOne ==
    ASSUME TypeOK, OneBucketEach, NEW t \in Clients, at[t] = "opening"
    PROVE  made + 1 <= Cardinality(Clients)
<1>1. IsFiniteSet(Clients)
  BY SavedAssumption, FS_Subset DEF Tasks, Pages
<1>2. YetToOpen \subseteq Clients BY DEF YetToOpen
<1>3. IsFiniteSet(YetToOpen) /\ Cardinality(YetToOpen) \in Nat
  BY <1>1, <1>2, FS_Subset, FS_CardinalityType
<1>4. t \in YetToOpen BY DEF YetToOpen
<1>5. Cardinality(YetToOpen) # 0 BY <1>3, <1>4, FS_EmptySet
<1>6. Cardinality(Clients) \in Nat BY <1>1, FS_CardinalityType
<1> QED BY <1>3, <1>5, <1>6 DEF OneBucketEach, TypeOK

LEMMA BucketsTyped ==
    ASSUME TypeOK, Kinds, InHand, OneBucketEach, NEW t \in Tasks, Acts(t)
    PROVE  /\ made' \in 0..Cardinality(Clients) /\ made <= made' /\ made' <= made + 1
           /\ holds' \subseteq 1..made' /\ linked' \in [Versions -> 0..made']
<1>0. /\ made \in 0..Cardinality(Clients) /\ holds \subseteq 1..made
      /\ linked \in [Versions -> 0..made] /\ handle \in [Clients -> 0..made]
      /\ Cardinality(Clients) \in Nat
  <2>1. IsFiniteSet(Clients) BY SavedAssumption, FS_Subset DEF Tasks, Pages
  <2> QED BY <2>1, FS_CardinalityType DEF TypeOK
<1>1. CASE Delete(t) BY <1>0, <1>1 DEF Delete
<1>2. CASE Open(t)
  <2>1. t \in Clients /\ at[t] = "opening" BY <1>2 DEF Open
  <2>2. made + 1 <= Cardinality(Clients) BY <2>1, RoomForOne
  <2>3. target[t] \in Versions BY <2>1 DEF TypeOK
  <2>4. /\ made' \in {made, made + 1} /\ holds' = holds
        /\ made' = IF linked[target[t]] = 0 THEN made + 1 ELSE made
        /\ linked' = [linked EXCEPT ![target[t]] = IF @ = 0 THEN made + 1 ELSE @]
    BY <1>2 DEF Open
  <2> QED BY <1>0, <2>2, <2>3, <2>4
<1>3. CASE Put(t) \/ Undo(t)
  <2>1. t \in Clients /\ handle[t] # 0
    BY <1>3, Apart DEF Kinds, Fits, InHand, Put, Undo
  <2>2. handle[t] \in 1..made BY <1>0, <2>1
  <2>3. holds' \subseteq holds \cup {handle[t]} BY <1>3 DEF Put, Undo
  <2>4. made' = made /\ linked' = linked BY <1>3 DEF Put, Undo
  <2> QED BY <1>0, <2>2, <2>3, <2>4
<1>4. CASE ~Delete(t) /\ ~Open(t) /\ ~Put(t) /\ ~Undo(t)
  <2>1. linked' = linked /\ made' = made /\ holds' = holds BY <1>4, BucketsStay
  <2> QED BY <1>0, <2>1
<1> QED BY <1>1, <1>2, <1>3, <1>4

(* What the calls hold: names to delete, a version, a handle.              *)
LEMMA HandsTyped ==
    ASSUME TypeOK, Kinds, InHand, OneBucketEach, NEW t \in Tasks, Acts(t)
    PROVE  /\ listed' \in [Tasks -> SUBSET Names]
           /\ target' \in [Clients -> Versions \cup {0}] /\ handle' \in [Clients -> 0..made']
           /\ \A u \in Tasks : u # t => listed'[u] = listed[u]
           /\ \A u \in Clients : u # t => target'[u] = target[u] /\ handle'[u] = handle[u]
<1>0. /\ listed \in [Tasks -> SUBSET Names] /\ shells \subseteq Versions
      /\ target \in [Clients -> Versions \cup {0}] /\ handle \in [Clients -> 0..made]
      /\ made \in Nat /\ linked \in [Versions -> 0..made]
  <2>1. IsFiniteSet(Clients) BY SavedAssumption, FS_Subset DEF Tasks, Pages
  <2> QED BY <2>1, FS_CardinalityType DEF TypeOK, Names
<1>a. made <= made' /\ made' \in Nat /\ linked' \in [Versions -> 0..made']
  <2>1. /\ made' \in 0..Cardinality(Clients) /\ made <= made'
        /\ linked' \in [Versions -> 0..made']
    BY BucketsTyped
  <2> QED BY <2>1
<1>b. handle \in [Clients -> 0..made'] BY <1>0, <1>a
<1>1. CASE List(t) BY <1>0, <1>b, <1>1 DEF List, Results, Names
<1>2. CASE Delete(t) BY <1>0, <1>b, <1>2 DEF Delete
<1>3. CASE Return(t) \/ ReadFlag(t) \/ Hand(t) \/ Choose(t) \/ Boot(t) \/ Refresh(t)
  BY <1>0, <1>b, <1>3 DEF Return, ReadFlag, Hand, Choose, Boot, Refresh
<1>4. CASE Erase(t) \/ Reconfirm(t) \/ Install(t)
  BY <1>0, <1>b, <1>4 DEF Erase, Reconfirm, Install
<1>5. CASE Activate(t)
  <2>1. {name \in Shells \cup Results : name[2] # t} \subseteq Names
    BY <1>0 DEF Shells, Results, Names
  <2> QED BY <1>0, <1>b, <1>5, <2>1 DEF Activate
<1>6. CASE Name(t)
  <2>1. Shell \in Versions \cup {0} BY <1>0, OldestIsOne DEF Shell
  <2> QED BY <1>0, <1>b, <1>6, <2>1 DEF Name
<1>7. CASE Open(t)
  <2>1. t \in Clients /\ target[t] \in Versions BY <1>7 DEF Open, TypeOK
  <2>2. linked'[target[t]] \in 0..made' BY <1>a, <2>1
  <2> QED BY <1>0, <1>b, <1>7, <2>1, <2>2 DEF Open
<1>c. ASSUME \/ Drop(t)
             \/ target' = target /\ handle' = handle
      PROVE  /\ target' \in [Clients -> Versions \cup {0}] /\ handle' \in [Clients -> 0..made']
             /\ \A u \in Clients : u # t => target'[u] = target[u] /\ handle'[u] = handle[u]
  <2>1. 0 \in 0..made' BY <1>a
  <2>2. CASE Drop(t) BY <1>0, <1>b, <2>1, <2>2 DEF Drop
  <2>3. CASE target' = target /\ handle' = handle BY <1>0, <1>b, <2>3
  <2> QED BY <1>c, <2>2, <2>3
<1>8. CASE Put(t) BY <1>0, <1>c, <1>8 DEF Put
<1>9. CASE Confirm(t) BY <1>0, <1>c, <1>9 DEF Confirm
<1>10. CASE Undo(t) \/ Match(t) BY <1>0, <1>c, <1>10 DEF Undo, Match
<1>11. CASE CloseTab(t) BY <1>0, <1>c, <1>11 DEF CloseTab
<1> QED
  BY <1>1, <1>2, <1>3, <1>4, <1>5, <1>6, <1>7, <1>8, <1>9, <1>10, <1>11 DEF Acts


(* Whoever is about to use a name or a bucket has one.                     *)
LEMMA NamedStays ==
    ASSUME TypeOK, Kinds, InHand, OneBucketEach, NEW t \in Tasks, Acts(t)
    PROVE  /\ \A u \in Clients :
                 at'[u] \in {"opening", "putting", "confirming", "undoing", "matching"}
                     => target'[u] # 0
           /\ InHand'
<1> DEFINE Using == {"opening", "putting", "confirming", "undoing", "matching"}
           Armed(u) == /\ at'[u] \in Using => target'[u] # 0
                       /\ back'[u] = "opening" => target'[u] # 0
                       /\ at'[u] \in {"putting", "confirming", "undoing"} => handle'[u] # 0
<1>1. \A u \in Clients : u # t => Armed(u)
  <2> SUFFICES ASSUME NEW u \in Clients, u # t PROVE Armed(u) OBVIOUS
  <2>1. /\ at'[u] = at[u] /\ back'[u] = back[u] /\ target'[u] = target[u]
        /\ handle'[u] = handle[u]
    BY OthersStay, HandsTyped, Apart
  <2>2. /\ at[u] \in Using => target[u] # 0
        /\ back[u] = "opening" => target[u] # 0
        /\ at[u] \in {"putting", "confirming", "undoing"} => handle[u] # 0
    BY DEF TypeOK, InHand
  <2> QED BY <2>1, <2>2
<1>2. ASSUME t \in Clients PROVE Armed(t)
  <2>0. /\ at \in [Tasks -> Places] /\ back \in [Tasks -> Returns]
        /\ target \in [Clients -> Versions \cup {0}] /\ handle \in [Clients -> 0..made]
        /\ at[t] \in Using => target[t] # 0
        /\ back[t] = "opening" => target[t] # 0
        /\ at[t] \in {"putting", "confirming", "undoing"} => handle[t] # 0
        /\ at[t] \notin {"listing", "deleting"} => back[t] = "ended"
        /\ t \notin Agreers \cup Refusers \cup Boots /\ t \notin Versions /\ t \in Tasks
    BY <1>2, Apart DEF TypeOK, Places, Returns, InHand, Kinds, Fits
  <2>1. CASE List(t) BY <1>2, <2>0, <2>1 DEF List, Goto
  <2>2. CASE Delete(t) BY <1>2, <2>0, <2>2 DEF Delete
  <2>3. CASE Return(t) \/ ReadFlag(t) \/ Hand(t)
    BY <1>2, <2>0, <2>3 DEF Return, ReadFlag, Hand, Goto, Returns
  <2>4. CASE Name(t)
    <3>1. target'[t] = Shell BY <1>2, <2>0, <2>4 DEF Name
    <3>2. at[t] = "naming" /\ back[t] = "ended" BY <2>0, <2>4 DEF Name
    <3>3. CASE Shell = 0 BY <2>0, <2>4, <3>2, <3>3, Apart DEF Name, Goto
    <3>4. CASE Shell # 0 BY <1>2, <2>0, <2>4, <3>1, <3>2, <3>4 DEF Name, Goto, Call, Clients
    <3> QED BY <3>3, <3>4
  <2>5. CASE Open(t)
    <3>1. target[t] \in Versions /\ target' = target /\ back' = back
      BY <1>2, <2>0, <2>5 DEF Open
    <3>2. made \in Nat /\ linked \in [Versions -> 0..made]
      <4>1. IsFiniteSet(Clients) BY SavedAssumption, FS_Subset DEF Tasks, Pages
      <4> QED BY <4>1, FS_CardinalityType DEF TypeOK
    <3>3. linked'[target[t]] # 0 BY <2>5, <3>1, <3>2 DEF Open
    <3>4. handle'[t] = linked'[target[t]] BY <1>2, <2>0, <2>5 DEF Open
    <3> QED BY <2>0, <2>5, <3>1, <3>3, <3>4 DEF Open
  <2>6. CASE Put(t) BY <1>2, <2>0, <2>6 DEF Put, Goto, Drop
  <2>7. CASE Confirm(t) BY <1>2, <2>0, <2>7 DEF Confirm, Goto, Drop
  <2>8. CASE Undo(t) BY <1>2, <2>0, <2>8 DEF Undo, Goto, Call, Drop
  <2>9. CASE Match(t) BY <1>2, <2>0, <2>9 DEF Match, Goto, Drop
  <2>10. CASE Choose(t) \/ Boot(t) \/ Install(t)
    BY <2>0, <2>10 DEF Choose, Boot, Install
  <2>11. CASE Refresh(t) \/ Erase(t) \/ Reconfirm(t) \/ Activate(t)
    BY <1>2, <2>0, <2>11, Apart DEF Refresh, Erase, Reconfirm, Activate, Kinds, Fits
  <2>12. CASE CloseTab(t) BY <1>2, <2>0, <2>12 DEF CloseTab, Goto
  <2> QED
    BY <2>1, <2>2, <2>3, <2>4, <2>5, <2>6, <2>7, <2>8, <2>9, <2>10, <2>11, <2>12 DEF Acts
<1>3. \A u \in Clients : Armed(u) BY <1>1, <1>2
<1> QED BY <1>3 DEF InHand

(* The rest of the type: the flag, the shells and the history.             *)
LEMMA FlagTyped ==
    ASSUME TypeOK, NEW t \in Tasks, Kinds, Acts(t)
    PROVE  /\ flag' \in {"yes", "no", "absent"} /\ shells' \subseteq Versions
           /\ handed' \subseteq Readers /\ stuck' \in BOOLEAN /\ unswept' \in BOOLEAN
<1>0. /\ flag \in {"yes", "no", "absent"} /\ shells \subseteq Versions
      /\ handed \subseteq Readers /\ stuck \in BOOLEAN /\ unswept \in BOOLEAN
  BY DEF TypeOK
<1>1. CASE List(t) \/ Return(t) \/ ReadFlag(t) \/ Name(t) \/ Confirm(t) \/ Match(t)
  BY <1>0, <1>1 DEF List, Return, ReadFlag, Name, Confirm, Match, storage, history
<1>2. CASE Delete(t) \/ Open(t) \/ Put(t) \/ Undo(t)
  BY <1>0, <1>2 DEF Delete, Open, Put, Undo, history
<1>3. CASE Hand(t)
  <2>1. t \in Readers BY <1>3 DEF Hand, Kinds, Fits
  <2> QED BY <1>0, <1>3, <2>1 DEF Hand, storage
<1>4. CASE Choose(t) BY <1>0, <1>4 DEF Choose, Answer, history
<1>5. CASE Boot(t) \/ Refresh(t) \/ Reconfirm(t) \/ Activate(t) \/ CloseTab(t)
  BY <1>0, <1>5 DEF Boot, Refresh, Reconfirm, Activate, CloseTab, storage, history
<1>6. CASE Erase(t) BY <1>0, <1>6 DEF Erase
<1>7. CASE Install(t) BY <1>0, <1>7 DEF Install, history
<1> QED BY <1>1, <1>2, <1>3, <1>4, <1>5, <1>6, <1>7 DEF Acts

LEMMA TypeStays ==
    ASSUME TypeOK, Kinds, InHand, OneBucketEach, NEW t \in Tasks, Acts(t)
    PROVE  TypeOK' /\ Kinds' /\ InHand'
<1>1. at' \in [Tasks -> Places] /\ back' \in [Tasks -> Returns] /\ Kinds'
  BY ActsInKind, StaysInKind
<1>2. /\ made' \in 0..Cardinality(Clients) /\ holds' \subseteq 1..made'
      /\ linked' \in [Versions -> 0..made']
  BY BucketsTyped
<1>3. /\ listed' \in [Tasks -> SUBSET Names]
      /\ target' \in [Clients -> Versions \cup {0}] /\ handle' \in [Clients -> 0..made']
  BY HandsTyped
<1>4. /\ \A u \in Clients :
            at'[u] \in {"opening", "putting", "confirming", "undoing", "matching"}
                => target'[u] # 0
      /\ InHand'
  BY NamedStays
<1>5. /\ flag' \in {"yes", "no", "absent"} /\ shells' \subseteq Versions
      /\ handed' \subseteq Readers /\ stuck' \in BOOLEAN /\ unswept' \in BOOLEAN
  BY FlagTyped
<1>6. TypeOK'
  BY <1>1, <1>2, <1>3, <1>4, <1>5, Zenon DEF TypeOK, Places, Returns, Names
<1> QED BY <1>1, <1>4, <1>6


(* A client is through with opening once it has opened.                    *)
LEMMA OneBucketStays ==
    ASSUME TypeOK, Kinds, OneBucketEach, NEW t \in Tasks, Acts(t)
    PROVE  OneBucketEach'
<1>0. /\ at \in [Tasks -> Places] /\ back \in [Tasks -> Returns]
      /\ at[t] \notin {"listing", "deleting"} => back[t] = "ended"
      /\ t \in Clients => t \notin Agreers \cup Refusers \cup Boots \cup Versions
  BY Apart DEF TypeOK, Places, Returns, Kinds, Fits
<1>1. IsFiniteSet(Clients) /\ IsFiniteSet(YetToOpen)
  BY SavedAssumption, FS_Subset DEF Tasks, Pages, YetToOpen
<1>2. \A u \in YetToOpen' : u # t => u \in YetToOpen
  BY OthersStay, Apart DEF YetToOpen
<1>3. CASE Open(t)
  <2>1. t \in YetToOpen BY <1>3 DEF Open, YetToOpen
  <2>2. t \notin YetToOpen' BY <1>0, <1>3, <2>1 DEF Open, YetToOpen, Goto
  <2>3. YetToOpen' \subseteq YetToOpen \ {t} BY <1>2, <2>2
  <2>4. /\ IsFiniteSet(YetToOpen \ {t})
        /\ Cardinality(YetToOpen \ {t}) = Cardinality(YetToOpen) - 1
    BY <1>1, <2>1, FS_RemoveElement
  <2>5. Cardinality(YetToOpen') <= Cardinality(YetToOpen \ {t}) /\ IsFiniteSet(YetToOpen')
    BY <2>3, <2>4, FS_Subset
  <2>6. /\ Cardinality(YetToOpen) \in Nat /\ Cardinality(YetToOpen') \in Nat
        /\ Cardinality(Clients) \in Nat
    BY <1>1, <2>5, FS_CardinalityType
  <2>7. made' <= made + 1 /\ made \in Nat /\ made' \in Nat
    BY <1>3, <2>6 DEF Open, TypeOK
  <2> QED BY <2>4, <2>5, <2>6, <2>7 DEF OneBucketEach
<1>4. CASE ~Open(t)
  <2>1. made' = made
    <3>1. CASE Delete(t) \/ Put(t) \/ Undo(t) BY <3>1 DEF Delete, Put, Undo
    <3>2. CASE ~(Delete(t) \/ Put(t) \/ Undo(t)) BY <1>4, <3>2, BucketsStay
    <3> QED BY <3>1, <3>2
  <2>2. t \in YetToOpen' => t \in YetToOpen
    <3>1. CASE List(t) BY <1>0, <3>1 DEF List, Goto, YetToOpen
    <3>2. CASE Delete(t) BY <3>2 DEF Delete, YetToOpen
    <3>3. CASE Return(t) BY <1>0, <3>3 DEF Return, Goto, YetToOpen, Returns
    <3>4. CASE ReadFlag(t) \/ Name(t) BY <3>4 DEF ReadFlag, Name, YetToOpen
    <3>5. CASE Put(t) \/ Confirm(t) \/ Match(t) \/ Hand(t)
      BY <1>0, <3>5 DEF Put, Confirm, Match, Hand, Goto, YetToOpen
    <3>6. CASE Undo(t) BY <1>0, <3>6 DEF Undo, Goto, Call, YetToOpen
    <3>7. CASE Choose(t) \/ Boot(t) \/ Install(t)
      BY <1>0, <3>7 DEF Choose, Boot, Install, YetToOpen
    <3>8. CASE Refresh(t) \/ Erase(t) \/ Reconfirm(t) \/ Activate(t)
      <4>1. t \in Clients => at[t] \notin {"refreshing", "erasing", "reconfirming", "activating"}
        BY Apart DEF Kinds, Fits
      <4> QED BY <3>8, <4>1 DEF Refresh, Erase, Reconfirm, Activate, YetToOpen
    <3>9. CASE CloseTab(t) BY <1>0, <3>9 DEF CloseTab, Goto, YetToOpen
    <3> QED
      BY <1>4, <3>1, <3>2, <3>3, <3>4, <3>5, <3>6, <3>7, <3>8, <3>9 DEF Acts
  <2>3. YetToOpen' \subseteq YetToOpen BY <1>2, <2>2
  <2>4. Cardinality(YetToOpen') <= Cardinality(YetToOpen) /\ IsFiniteSet(YetToOpen')
    BY <1>1, <2>3, FS_Subset
  <2>5. /\ Cardinality(YetToOpen) \in Nat /\ Cardinality(YetToOpen') \in Nat
        /\ Cardinality(Clients) \in Nat
    BY <1>1, <2>4, FS_CardinalityType
  <2>6. made \in Nat BY <2>5 DEF TypeOK
  <2> QED BY <2>1, <2>4, <2>5, <2>6 DEF OneBucketEach
<1> QED BY <1>3, <1>4

-----------------------------------------------------------------------------
(* A call that answers for a saved set goes on answering for it while      *)
(* other calls move, as long as the name stays with the bucket.            *)
LEMMA GoesOnAnswering ==
    ASSUME TypeOK, Kinds, InHand, OneBucketEach, NEW t \in Tasks, Acts(t),
           NEW u \in Pages, u # t, NEW v \in Versions, linked'[v] = linked[v], AnswersFor(u, v)
    PROVE  \E w \in Pages : AnswersFor(w, v)'
<1>1. u \in Tasks /\ at'[u] = at[u] /\ listed'[u] = listed[u]
  BY Apart, OthersStay, HandsTyped
<1>2. at[u] \in {"confirming", "undoing"} => handle'[u] = handle[u]
  BY <1>1, Apart, HandsTyped DEF Kinds, Fits
<1>3. AnswersFor(u, v)' BY <1>1, <1>2 DEF AnswersFor
<1> QED BY <1>3

LEMMA AnsweredStays ==
    ASSUME TypeOK, Kinds, InHand, OneBucketEach, Answered, NEW t \in Tasks, Acts(t)
    PROVE  Answered'
<1> SUFFICES ASSUME flag' # "yes", ~unswept', NEW v \in Saved'
             PROVE  \E u \in Pages : AnswersFor(u, v)'
  BY DEF Answered
<1>0. /\ at \in [Tasks -> Places] /\ listed \in [Tasks -> SUBSET Names]
      /\ holds \subseteq 1..made /\ linked \in [Versions -> 0..made]
      /\ v \in Versions /\ linked'[v] # 0 /\ linked'[v] \in holds'
  BY DEF TypeOK, Places, Names, Saved
<1>1. ASSUME flag # "yes", ~unswept, linked'[v] = linked[v], linked[v] \in holds
      PROVE  \E u \in Pages : AnswersFor(u, v)
  <2>1. v \in Saved BY <1>0, <1>1 DEF Saved
  <2> QED BY <1>1, <2>1 DEF Answered
<1>2. ASSUME t \in Pages, AnswersFor(t, v)' PROVE \E u \in Pages : AnswersFor(u, v)'
  BY <1>2
<1>3. ASSUME linked'[v] = linked[v], NEW u \in Pages, u # t, AnswersFor(u, v)
      PROVE  \E w \in Pages : AnswersFor(w, v)'
  BY <1>0, <1>3, GoesOnAnswering
<1>4. CASE List(t)
  <2>1. PICK u \in Pages : AnswersFor(u, v) BY <1>0, <1>1, <1>4 DEF List, storage, history
  <2>2. linked' = linked BY <1>4 DEF List, storage
  <2>3. CASE u = t
    <3>1. <<"results", v>> \in Results BY <1>0, <2>2 DEF Results
    <3>2. AnswersFor(t, v)' BY <1>0, <1>4, <3>1 DEF List, Goto, AnswersFor
    <3> QED BY <1>2, <2>3, <3>2
  <2> QED BY <1>3, <2>1, <2>2, <2>3
<1>5. CASE Delete(t)
  <2>1. PICK name \in listed[t] :
          /\ listed' = [listed EXCEPT ![t] = @ \ {name}]
          /\ linked' = [w \in Versions |-> IF name = <<"results", w>> THEN 0 ELSE linked[w]]
    BY <1>5 DEF Delete
  <2>2. name # <<"results", v>> /\ linked'[v] = linked[v] BY <1>0, <2>1
  <2>3. PICK u \in Pages : AnswersFor(u, v) BY <1>0, <1>1, <1>5, <2>2 DEF Delete, history
  <2>4. CASE u = t
    <3>1. AnswersFor(t, v)' BY <1>0, <1>5, <2>1, <2>2, <2>3, <2>4 DEF Delete, AnswersFor
    <3> QED BY <1>2, <2>4, <3>1
  <2> QED BY <1>3, <2>2, <2>3, <2>4
<1>6. CASE Return(t) \/ ReadFlag(t) \/ Name(t) \/ Match(t) \/ Hand(t) \/ Install(t) \/ Activate(t)
  <2>1. /\ linked' = linked /\ holds' = holds /\ flag' = flag /\ unswept' = unswept
    BY <1>6 DEF Return, ReadFlag, Name, Match, Hand, Install, Activate, storage, history
  <2>2. PICK u \in Pages : AnswersFor(u, v) BY <1>0, <1>1, <2>1
  <2>3. CASE u = t
    <3>1. t \notin Versions BY <2>3, Apart
    <3>2. ~Install(t) /\ ~Activate(t) BY <3>1 DEF Install, Activate, Kinds, Fits
    <3> QED
      BY <1>6, <2>2, <2>3, <3>2 DEF Return, ReadFlag, Name, Match, Hand, AnswersFor
  <2> QED BY <1>3, <2>1, <2>2, <2>3
<1>7. CASE Open(t)
  <2>1. t \in Clients /\ target[t] \in Versions /\ at[t] = "opening"
    BY <1>7 DEF Open, TypeOK
  <2>2. IsFiniteSet(Clients) BY SavedAssumption, FS_Subset DEF Tasks, Pages
  <2>3. made \in Nat BY <2>2, FS_CardinalityType DEF TypeOK
  <2>4. holds' = holds /\ flag' = flag /\ unswept' = unswept BY <1>7 DEF Open, history
  <2>5. linked'[v] = linked[v] BY <1>0, <1>7, <2>1, <2>3, <2>4 DEF Open
  <2>6. PICK u \in Pages : AnswersFor(u, v) BY <1>0, <1>1, <2>4, <2>5
  <2>7. u # t BY <2>1, <2>6 DEF AnswersFor
  <2> QED BY <1>3, <2>5, <2>6, <2>7
<1>8. CASE Put(t)
  <2>1. linked' = linked /\ flag' = flag /\ unswept' = unswept /\ at[t] = "putting"
    BY <1>8 DEF Put, history
  <2>2. CASE linked[v] \in holds
    <3>1. PICK u \in Pages : AnswersFor(u, v) BY <1>0, <1>1, <2>1, <2>2
    <3>2. u # t BY <2>1, <3>1 DEF AnswersFor
    <3> QED BY <1>3, <2>1, <3>1, <3>2
  <2>3. CASE linked[v] \notin holds
    <3>1. linked[v] = handle[t] /\ at'[t] = "confirming" /\ handle' = handle
      BY <1>0, <1>8, <2>1, <2>3 DEF Put, Goto
    <3>2. t \in Pages BY <2>1, Apart DEF Kinds, Fits
    <3>3. AnswersFor(t, v)' BY <2>1, <3>1 DEF AnswersFor
    <3> QED BY <1>2, <3>2, <3>3
  <2> QED BY <2>2, <2>3
<1>9. CASE Confirm(t)
  <2>1. /\ linked' = linked /\ holds' = holds /\ flag' = flag /\ unswept' = unswept
        /\ at[t] = "confirming"
    BY <1>9 DEF Confirm, storage, history
  <2>2. PICK u \in Pages : AnswersFor(u, v) BY <1>0, <1>1, <2>1
  <2>3. CASE u = t
    <3>1. at'[t] = "undoing" /\ handle' = handle BY <1>0, <1>9, <2>1 DEF Confirm, Goto
    <3>2. AnswersFor(t, v)' BY <2>1, <2>2, <2>3, <3>1 DEF AnswersFor
    <3> QED BY <1>2, <2>3, <3>2
  <2> QED BY <1>3, <2>1, <2>2, <2>3
<1>10. CASE Undo(t)
  <2>1. t \in Pages BY <1>10, Apart DEF Undo, Kinds, Fits
  <2>2. at'[t] = "listing" BY <1>0, <1>10 DEF Undo, Call, Goto
  <2>3. AnswersFor(t, v)' BY <2>2 DEF AnswersFor
  <2> QED BY <1>2, <2>1, <2>3
<1>11. CASE Choose(t) \/ Boot(t)
  <2>1. t \in Pages BY <1>11, Apart DEF Choose, Boot
  <2>2. at'[t] \in {"listing", "refreshing"} BY <1>0, <1>11 DEF Choose, Boot, Call, Goto
  <2>3. AnswersFor(t, v)' BY <2>2 DEF AnswersFor
  <2> QED BY <1>2, <2>1, <2>3
<1>12. CASE Refresh(t) \/ Reconfirm(t) \/ Erase(t)
  <2>1. t \in Pages BY <1>12, Apart DEF Refresh, Reconfirm, Erase, Kinds, Fits
  <2>2. at'[t] = "listing"
    <3>1. CASE Refresh(t) BY <1>0, <3>1 DEF Refresh, Call, Goto, storage
    <3>2. CASE Reconfirm(t) BY <1>0, <3>2 DEF Reconfirm, Call, Goto, storage
    <3>3. CASE Erase(t) BY <1>0, <3>3 DEF Erase, Call, Goto
    <3> QED BY <1>12, <3>1, <3>2, <3>3
  <2>3. AnswersFor(t, v)' BY <2>2 DEF AnswersFor
  <2> QED BY <1>2, <2>1, <2>3
<1>13. CASE CloseTab(t) BY <1>13 DEF CloseTab
<1> QED
  BY <1>4, <1>5, <1>6, <1>7, <1>8, <1>9, <1>10, <1>11, <1>12, <1>13 DEF Acts


-----------------------------------------------------------------------------
(* The flag becomes yes by an agreement only, and an agreement that began  *)
(* does not go back to where it was; a refusal that reads yes erases it,   *)
(* or is stuck.                                                            *)
LEMMA TakenStays ==
    ASSUME TypeOK, Kinds, Taken, NEW t \in Tasks, Acts(t)
    PROVE  Taken'
<1> SUFFICES ASSUME \A u \in Agreers : at'[u] = "idle", ~stuck',
                    NEW r \in Refusers, PastReading(r)'
             PROVE  flag' # "yes"
  BY DEF Taken
<1>0. /\ at \in [Tasks -> Places] /\ back \in [Tasks -> Returns] /\ r \in Tasks
      /\ Agreers \subseteq Tasks
  BY Apart DEF TypeOK, Places, Returns
<1>1. t \notin Agreers BY OthersStay
<1>2. \A u \in Agreers : at[u] = "idle" BY <1>0, <1>1, OthersStay
<1>3. ~stuck /\ (flag' = "yes" => flag = "yes")
  <2>1. CASE Choose(t) BY <1>1, <2>1 DEF Choose, Answer, history
  <2>2. CASE Erase(t) BY <2>2 DEF Erase
  <2>3. ASSUME ~Choose(t), ~Erase(t) PROVE flag' = flag /\ stuck' = stuck
    <3>1. CASE List(t) \/ Return(t) \/ ReadFlag(t) \/ Name(t) \/ Confirm(t) \/ Match(t)
      BY <3>1 DEF List, Return, ReadFlag, Name, Confirm, Match, storage, history
    <3>2. CASE Delete(t) \/ Open(t) \/ Put(t) \/ Undo(t) \/ Install(t)
      BY <3>2 DEF Delete, Open, Put, Undo, Install, history
    <3>3. CASE Hand(t) \/ Boot(t) \/ CloseTab(t) BY <3>3 DEF Hand, Boot, CloseTab, storage
    <3>4. CASE Refresh(t) BY <3>4 DEF Refresh, storage, history
    <3>5. CASE Reconfirm(t) \/ Activate(t) BY <3>5 DEF Reconfirm, Activate, storage, history
    <3> QED BY <2>3, <3>1, <3>2, <3>3, <3>4, <3>5 DEF Acts
  <2>4. ASSUME ~Choose(t), ~Erase(t) PROVE ~stuck /\ (flag' = "yes" => flag = "yes")
    <3>1. stuck \in BOOLEAN BY DEF TypeOK
    <3> QED BY <2>3, <2>4, <3>1
  <2> QED BY <2>1, <2>2, <2>4
<1>4. SUFFICES ASSUME flag = "yes", flag' = "yes" PROVE FALSE BY <1>3
<1>5. \A u \in Refusers : ~PastReading(u) BY <1>2, <1>3, <1>4 DEF Taken
<1>6. r = t
  <2>1. r # t => at'[r] = at[r] /\ back'[r] = back[r] BY <1>0, OthersStay
  <2> QED BY <1>5, <2>1 DEF PastReading
<1>7. /\ t \in Refusers /\ ~PastReading(t) /\ PastReading(t)'
      /\ t \notin Clients \cup Boots \cup Versions
  BY <1>5, <1>6, Apart
<1>8. CASE List(t) BY <1>0, <1>7, <1>8 DEF List, Goto, PastReading, Kinds, Fits
<1>9. CASE Delete(t) BY <1>7, <1>9 DEF Delete, PastReading
<1>10. CASE Return(t)
  <2>1. back[t] \in {"opening", "refreshing"} BY <1>0, <1>7, <1>10 DEF Return, PastReading, Returns
  <2>2. at'[t] = back[t] BY <1>0, <1>10 DEF Return, Goto
  <2> QED BY <1>7, <2>1, <2>2 DEF PastReading
<1>11. CASE Choose(t)
  <2>1. at'[t] = "listing" /\ back'[t] = "refreshing"
    BY <1>0, <1>7, <1>11 DEF Choose, Call, Goto
  <2> QED BY <1>7, <2>1 DEF PastReading
<1>12. CASE Refresh(t)
  <2>1. at'[t] = "erasing" BY <1>0, <1>4, <1>7, <1>12 DEF Refresh, Goto
  <2> QED BY <1>7, <2>1 DEF PastReading
<1>13. CASE Erase(t) BY <1>3, <1>4, <1>13 DEF Erase
<1>14. CASE Reconfirm(t) BY <1>7, <1>14 DEF Reconfirm, PastReading
<1>15. CASE CloseTab(t)
  <2>1. at'[t] = "dead" BY <1>0, <1>15 DEF CloseTab, Goto
  <2> QED BY <1>7, <2>1 DEF PastReading
<1>16. CASE ReadFlag(t) \/ Name(t) \/ Open(t) \/ Boot(t) \/ Install(t)
  BY <1>7, <1>16 DEF ReadFlag, Name, Open, Boot, Install
<1>17. CASE Put(t) \/ Confirm(t) \/ Undo(t) \/ Match(t) \/ Hand(t) \/ Activate(t)
  <2>1. at[t] \notin {"putting", "confirming", "undoing", "matching", "rereading", "activating"}
    BY <1>7, Apart DEF Kinds, Fits
  <2> QED BY <1>17, <2>1 DEF Put, Confirm, Undo, Match, Hand, Activate
<1> QED
  BY <1>8, <1>9, <1>10, <1>11, <1>12, <1>13, <1>14, <1>15, <1>16, <1>17 DEF Acts

-----------------------------------------------------------------------------
LEMMA SavedInvInitially == Init => SavedInv
<1> SUFFICES ASSUME Init PROVE SavedInv OBVIOUS
<1>0. IsFiniteSet(Clients) /\ Cardinality(Clients) \in Nat
  BY SavedAssumption, FS_Subset, FS_CardinalityType DEF Tasks, Pages
<1>1. Min(Versions) \in Versions BY SavedAssumption, OldestIsOne
<1>2. shells \subseteq Versions BY <1>1 DEF Init
<1>3. /\ \A t \in Tasks : at[t] \in {"idle", "ended"} /\ back[t] = "ended"
      /\ \A t \in Pages : at[t] = "idle"
  BY <1>2, Apart DEF Init
<1>4. TypeOK
  <2>1. at \in [Tasks -> {"idle", "ended"}] BY DEF Init
  <2>2. \A t \in Clients : at[t] = "idle" BY <1>3, Apart
  <2>3. /\ flag \in {"yes", "no", "absent"} /\ handed \subseteq Readers
        /\ stuck \in BOOLEAN /\ unswept \in BOOLEAN
    BY DEF Init
  <2>4. made \in 0..Cardinality(Clients) /\ holds \subseteq 1..made
    BY <1>0 DEF Init
  <2>5. /\ linked \in [Versions -> 0..made] /\ back \in [Tasks -> {"ended"}]
        /\ listed \in [Tasks -> SUBSET ({"shell", "results"} \X Versions)]
        /\ target \in [Clients -> Versions \cup {0}] /\ handle \in [Clients -> 0..made]
    BY DEF Init
  <2> QED BY <1>2, <2>1, <2>2, <2>3, <2>4, <2>5 DEF TypeOK
<1>5. Kinds BY <1>3 DEF Kinds, Fits
<1>6. InHand BY <1>3, Apart DEF InHand
<1>7. OneBucketEach
  <2>1. YetToOpen \subseteq Clients BY DEF YetToOpen
  <2>2. Cardinality(YetToOpen) <= Cardinality(Clients) BY <1>0, <2>1, FS_Subset
  <2>3. IsFiniteSet(YetToOpen) BY <1>0, <2>1, FS_Subset
  <2>4. Cardinality(YetToOpen) \in Nat BY <2>3, FS_CardinalityType
  <2> QED BY <1>0, <2>2, <2>4 DEF OneBucketEach, Init
<1>8. Answered BY DEF Answered, Saved, Init
<1>9. Taken BY <1>3, Apart DEF Taken, PastReading
<1> QED BY <1>4, <1>5, <1>6, <1>7, <1>8, <1>9 DEF SavedInv

LEMMA SavedInvStays == SavedInv /\ [Next]_vars => SavedInv'
<1> SUFFICES ASSUME SavedInv, [Next]_vars PROVE SavedInv' OBVIOUS
<1>1. CASE Next
  <2>1. PICK t \in Tasks : Acts(t) BY <1>1 DEF Next, Acts
  <2> QED
    BY <2>1, TypeStays, OneBucketStays, AnsweredStays, TakenStays DEF SavedInv
<1>2. CASE UNCHANGED vars
  <2> USE <1>2 DEF vars
  <2>1. TypeOK' BY DEF SavedInv, TypeOK
  <2>2. Kinds' BY DEF SavedInv, Kinds, Fits
  <2>3. InHand' /\ OneBucketEach' BY DEF SavedInv, InHand, OneBucketEach, YetToOpen
  <2>4. Answered' BY DEF SavedInv, Answered, Saved, AnswersFor
  <2>5. Taken' BY DEF SavedInv, Taken, PastReading
  <2> QED BY <2>1, <2>2, <2>3, <2>4, <2>5 DEF SavedInv
<1> QED BY <1>1, <1>2

LEMMA SavedInvHolds == Spec => []SavedInv
BY SavedInvInitially, SavedInvStays, PTL DEF Spec

(* Once nothing is running, no saved route can be found without consent:   *)
(* the call that answered for it would still be under way (forgetResults,  *)
(* saveRoutes, refreshOfflineSetting).                                     *)
THEOREM SavedNothingKept == Spec => []NothingKeptAfterNo
<1>1. SavedInv => NothingKeptAfterNo
  <2> SUFFICES ASSUME SavedInv, Quiet, flag # "yes", ~unswept, NEW v \in Saved PROVE FALSE
    BY DEF SavedInv, NothingKeptAfterNo
  <2>1. PICK t \in Pages : AnswersFor(t, v) BY DEF SavedInv, Answered
  <2> QED BY <2>1 DEF Quiet, AnswersFor
<1> QED BY <1>1, SavedInvHolds, PTL

(* A refusal that ran to its end with no agreement beside it has taken,    *)
(* even if the "no" could not be written (setSaveResults).                 *)
THEOREM SavedRefusalTakes == Spec => []RefusalTakes
<1>1. SavedInv => RefusalTakes
  <2> SUFFICES ASSUME SavedInv, NEW t \in Refusers, at[t] = "ended",
                      \A u \in Agreers : at[u] = "idle", ~stuck
               PROVE  flag # "yes"
    BY DEF RefusalTakes
  <2>1. PastReading(t) BY DEF PastReading
  <2> QED BY <2>1 DEF SavedInv, Taken
<1> QED BY <1>1, SavedInvHolds, PTL

(* readRoutes hands routes back only while the flag says yes, whatever the *)
(* other tabs did between its two readings.                                *)
THEOREM SavedReplayed == Spec => ReplayedUnderConsent
<1> DEFINE Replay == \A t \in Readers : t \in handed' \ handed => flag = "yes"
<1>1. [Next]_vars => [Replay]_vars
  <2> SUFFICES ASSUME Next, NEW u \in Readers, u \in handed', u \notin handed PROVE flag = "yes"
    BY DEF vars
  <2>1. PICK t \in Tasks : Acts(t) BY DEF Next, Acts
  <2>2. CASE Hand(t) BY <2>2 DEF Hand
  <2>3. CASE List(t) \/ Return(t) \/ ReadFlag(t) \/ Name(t) \/ Confirm(t) \/ Match(t)
    BY <2>3 DEF List, Return, ReadFlag, Name, Confirm, Match, storage, history
  <2>4. CASE Delete(t) \/ Open(t) \/ Put(t) \/ Undo(t) \/ Install(t) \/ Choose(t)
    BY <2>4 DEF Delete, Open, Put, Undo, Install, Choose, history
  <2>5. CASE Erase(t) \/ Boot(t) \/ Refresh(t) \/ Reconfirm(t) \/ CloseTab(t) \/ Activate(t)
    BY <2>5 DEF Erase, Boot, Refresh, Reconfirm, CloseTab, Activate, storage, history
  <2> QED BY <2>1, <2>2, <2>3, <2>4, <2>5 DEF Acts
<1> QED BY <1>1, PTL DEF Spec, ReplayedUnderConsent

==============================================================================
