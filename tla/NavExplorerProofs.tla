------------------------- MODULE NavExplorerProofs -------------------------
(***************************************************************************)
(* Theorems about the explorer of dhruva-nav, for any finite set of        *)
(* frontiers and any limits: its types and counters, what it works on and  *)
(* where it leaves the robot, and that it implements the mission its       *)
(* thread relies on.                                                       *)
(***************************************************************************)
EXTENDS NavExplorer, FiniteSetTheorems, FunctionTheorems, TLAPS

Working == {"Planning", "Navigating", "Replanning", "Recovering"}

\* Another recovery may be tried as long as a frontier is worked on, and only what has
\* a path is ever finished.
LimitInv ==
  /\ state \in Working => recoveries < MaxRecoveries
  /\ path = "none" => ~finished

\* A count that is full has been settled: the frontier is given up for good, or the
\* escape is under way that forgives all.  What is given up is not blacklisted again.
CountInv ==
  /\ blacklist \cap permanent = {}
  /\ \A f \in Frontiers : exhaustion[f] = MaxExhaustions =>
       f \in permanent \/ state = "EscapingToRetry"

Inv == TypeOK /\ LimitInv /\ CountInv /\ WorkIsSound

-----------------------------------------------------------------------------
(***************************************************************************)
(* Lists of frontiers.                                                     *)
(***************************************************************************)
LEMMA LimitsAre ==
  /\ MaxFailures \in Nat \ {0} /\ MaxReplans \in Nat \ {0}
  /\ MaxRecoveries \in Nat \ {0} /\ MaxExhaustions \in Nat \ {0}
  /\ Cardinality(Frontiers) \in Nat /\ ReturnToStart \in BOOLEAN
BY LimitsAssumption, FrontiersAssumption, ReturnAssumption, FS_CardinalityType

\* A list holds each frontier once at most.
LEMMA DetectionsAre ==
  ASSUME NEW s \in Detections
  PROVE  /\ s \in Seq(Frontiers) /\ Len(s) \in 0 .. Cardinality(Frontiers)
         /\ DOMAIN s = 1 .. Len(s) /\ Len(s) \in Nat
         /\ \A i \in DOMAIN s : s[i] \in Frontiers
         /\ \A i, j \in DOMAIN s : s[i] = s[j] => i = j
         /\ s # <<>> => 1 \in DOMAIN s /\ Head(s) = s[1] /\ s[1] \in Frontiers /\ Len(s) >= 1
<1>1. PICK n \in 0 .. Cardinality(Frontiers) : s \in [1 .. n -> Frontiers]
  BY DEF Detections
<1>2. n \in Nat /\ s \in Seq(Frontiers) /\ Len(s) = n /\ DOMAIN s = 1 .. n
  BY <1>1, LimitsAre
<1>3. \A i, j \in DOMAIN s : s[i] = s[j] => i = j
  BY DEF Detections
<1>4. s # <<>> => n >= 1 /\ Head(s) = s[1]
  BY <1>2
<1>5. QED
  BY <1>1, <1>2, <1>3, <1>4

LEMMA ListIsDetection ==
  ASSUME NEW n \in 0 .. Cardinality(Frontiers), NEW s \in [1 .. n -> Frontiers],
         \A i, j \in 1 .. n : s[i] = s[j] => i = j
  PROVE  s \in Detections
BY DEF Detections

\* The places of a list are ranked without a gap: counting up to an element of a finite
\* set of numbers is one to one, so every rank is somebody's.
LEMMA RanksAre ==
  ASSUME NEW n \in Nat, NEW K \in SUBSET (1 .. n)
  PROVE  /\ IsFiniteSet(K) /\ Cardinality(K) \in 0 .. n
         /\ \A k \in 1 .. Cardinality(K) : \E i \in K : Cardinality({j \in K : j <= i}) = k
<1> DEFINE below(i) == {j \in K : j <= i}
           rank == [i \in K |-> Cardinality(below(i))]
<1>1. IsFiniteSet(1 .. n) /\ Cardinality(1 .. n) = n
  BY FS_Interval
<1>2. IsFiniteSet(K) /\ Cardinality(K) \in Nat /\ Cardinality(K) <= n
  BY <1>1, FS_Subset, FS_CardinalityType
<1>3. ASSUME NEW i \in K
      PROVE  /\ IsFiniteSet(below(i)) /\ i \in below(i)
             /\ Cardinality(below(i)) \in 1 .. Cardinality(K)
  <2>1. below(i) \in SUBSET K /\ i \in below(i)
    OBVIOUS
  <2>2. IsFiniteSet(below(i)) /\ Cardinality(below(i)) \in Nat
        /\ Cardinality(below(i)) <= Cardinality(K)
    BY <1>2, <2>1, FS_Subset, FS_CardinalityType
  <2>3. Cardinality(below(i)) # 0
    <3> DEFINE b == below(i)
    <3>1. b # {} /\ IsFiniteSet(b)
      BY <2>1, <2>2
    <3> HIDE DEF b
    <3>2. Cardinality(b) # 0
      BY <3>1, FS_EmptySet
    <3>3. QED
      BY <3>2 DEF b
  <2>4. QED
    BY <1>2, <2>1, <2>2, <2>3
<1>4. ASSUME NEW i \in K, NEW j \in K, Cardinality(below(i)) = Cardinality(below(j)), i < j
      PROVE  FALSE
  <2>1. below(i) \in SUBSET below(j)
    <3>1. \A k \in K : k <= i => k <= j
      BY <1>4
    <3>2. QED
      BY <3>1
  <2>2. below(i) = below(j)
    BY <1>3, <1>4, <2>1, FS_Subset
  <2>3. j \in below(i)
    BY <1>3, <2>2
  <2>4. QED
    BY <1>4, <2>3
<1>5. rank \in Injection(K, 1 .. Cardinality(K))
  <2>1. rank \in [K -> 1 .. Cardinality(K)]
    BY <1>3
  <2>2. ASSUME NEW i \in K, NEW j \in K, rank[i] = rank[j] PROVE i = j
    <3>1. i \in Nat /\ j \in Nat /\ Cardinality(below(i)) = Cardinality(below(j))
      BY <2>2
    <3>2. ~(i < j) /\ ~(j < i)
      BY <1>4, <3>1
    <3>3. QED
      BY <3>1, <3>2
  <2> HIDE DEF rank
  <2>3. QED
    BY <2>1, <2>2 DEF Injection, IsInjective
<1>6. IsFiniteSet(1 .. Cardinality(K)) /\ Cardinality(1 .. Cardinality(K)) = Cardinality(K)
  BY <1>2, FS_Interval
<1>7. rank \in Surjection(K, 1 .. Cardinality(K))
  BY <1>5, <1>6, FS_Injection
<1>8. \A k \in 1 .. Cardinality(K) : \E i \in K : rank[i] = k
  <2> HIDE DEF rank
  <2>1. QED
    BY <1>7 DEF Surjection
<1>9. QED
  BY <1>2, <1>8

\* What is left of a list without some of its frontiers is a list, and has none of them.
LEMMA WithoutIs ==
  ASSUME NEW s \in Detections, NEW S
  PROVE  /\ Without(s, S) \in Detections
         /\ \A k \in DOMAIN Without(s, S) : Without(s, S)[k] \notin S
<1> DEFINE kept == {i \in DOMAIN s : s[i] \notin S}
           rank(i) == Cardinality({j \in kept : j <= i})
           at(k) == CHOOSE i \in kept : rank(i) = k
           m == Cardinality(kept)
           t == [k \in 1 .. m |-> s[at(k)]]
<1>1. Without(s, S) = t
  BY DEF Without
<1>2. /\ Len(s) \in 0 .. Cardinality(Frontiers) /\ DOMAIN s = 1 .. Len(s) /\ Len(s) \in Nat
      /\ \A i \in DOMAIN s : s[i] \in Frontiers
      /\ \A i, j \in DOMAIN s : s[i] = s[j] => i = j
  BY DetectionsAre
<1>3. m \in 0 .. Len(s) /\ \A k \in 1 .. m : \E i \in kept : rank(i) = k
  <2>1. kept \in SUBSET (1 .. Len(s))
    BY <1>2
  <2> HIDE DEF kept
  <2>2. QED
    BY <1>2, <2>1, RanksAre
<1>4. \A k \in 1 .. m : at(k) \in kept /\ rank(at(k)) = k
  BY <1>3
<1>5. m \in 0 .. Cardinality(Frontiers)
  BY <1>2, <1>3, LimitsAre
<1>6. \A k \in 1 .. m : s[at(k)] \in Frontiers /\ s[at(k)] \notin S
  BY <1>2, <1>4
<1>7. t \in [1 .. m -> Frontiers]
  BY <1>6
<1>8. ASSUME NEW k \in 1 .. m, NEW l \in 1 .. m, t[k] = t[l] PROVE k = l
  <2>1. at(k) \in DOMAIN s /\ at(l) \in DOMAIN s
    BY <1>4
  <2>2. s[at(k)] = s[at(l)]
    BY <1>8
  <2>3. at(k) = at(l)
    BY <1>2, <2>1, <2>2
  <2>4. QED
    BY <1>4, <2>3
<1>9. t \in Detections
  BY <1>5, <1>7, <1>8, ListIsDetection
<1>10. QED
  BY <1>1, <1>6, <1>9


-----------------------------------------------------------------------------
(***************************************************************************)
(* The invariant is inductive.                                             *)
(***************************************************************************)

\* What is known of a state in which the invariant holds.
LEMMA InvGives ==
  ASSUME Inv
  PROVE  /\ frontiers \in Detections /\ Len(frontiers) \in 0 .. Cardinality(Frontiers)
         /\ DOMAIN frontiers = 1 .. Len(frontiers)
         /\ \A i \in DOMAIN frontiers : frontiers[i] \in Frontiers
         /\ exhaustion \in [Frontiers -> 0 .. MaxExhaustions]
         /\ Cardinality(Frontiers) \in Nat
         /\ state \in Working => current \in Frontiers /\ current \notin permanent
<1>1. frontiers \in Detections /\ exhaustion \in [Frontiers -> 0 .. MaxExhaustions]
  BY DEF Inv, TypeOK
<1>2. ASSUME state \in Working PROVE current \in Frontiers /\ current \notin permanent
  <2>1. frontiers # <<>> /\ current = frontiers[1]
    BY <1>2 DEF Inv, WorkIsSound, UnderWayHasTarget, Working
  <2>2. 1 \in DOMAIN frontiers /\ frontiers[1] \in Frontiers
    BY <1>1, <2>1, DetectionsAre
  <2>3. QED
    BY <2>1, <2>2 DEF Inv, WorkIsSound, GivenUpStaysGone
<1>3. QED
  BY <1>1, <1>2, DetectionsAre, LimitsAre

\* A call of update() that leaves the list and the blacklists alone.
LEMMA QuietStep ==
  ASSUME Inv, UNCHANGED <<listVars, blackVars>>,
         \/ Start \/ Arrive \/ Stuck \/ TooClose \/ MapExplored \/ Manoeuvre \/ BackedUp
         \/ EscapeDrive \/ AtHome \/ HomePathDone \/ HomeDrive \/ HomePlan \/ Rest
         \/ UNCHANGED vars
  PROVE  Inv'
<1> USE DEF Stand, Follow, SetPath, ClearPath, StartRecovery, InPhase, NothingLeft, Working
<1> USE DEF Start, Arrive, Stuck, TooClose, MapExplored, Manoeuvre, BackedUp, EscapeDrive,
     AtHome, HomePathDone, HomeDrive, HomePlan, Rest, vars, pathVars
<1>0. /\ state \in States /\ phase \in {"BackingUp", "Rotating", "Done"}
      /\ path \in {"none", "frontier", "home"} /\ finished \in BOOLEAN
      /\ moving \in BOOLEAN /\ athome \in BOOLEAN /\ ReturnToStart \in BOOLEAN
  BY ReturnAssumption DEF Inv, TypeOK
<1>1. /\ UNCHANGED <<frontiers, idx, current, failures, replans, recoveries>>
      /\ UNCHANGED <<blacklist, permanent, exhaustion, triedEscape>>
  BY DEF listVars, blackVars
<1>2. state' \in States /\ phase' \in {"BackingUp", "Rotating", "Done"}
  BY <1>0 DEF States, Over
<1>3. /\ path' \in {"none", "frontier", "home"} /\ finished' \in BOOLEAN
      /\ moving' \in BOOLEAN /\ athome' \in BOOLEAN
  BY <1>0
<1>4. TypeOK'
  BY <1>1, <1>2, <1>3 DEF Inv, TypeOK
<1>5. LimitInv'
  <2>1. state' \in Working => state \in Working
    BY DEF Over
  <2>2. path' = "none" => ~finished'
    BY DEF Inv, LimitInv
  <2>3. QED
    BY <1>1, <2>1, <2>2 DEF Inv, LimitInv
<1>6. CountInv'
  <2>1. state = "EscapingToRetry" => state' = "EscapingToRetry"
    BY DEF Over
  <2>2. QED
    BY <1>1, <2>1 DEF Inv, CountInv
<1>7. GivenUpStaysGone'
  BY <1>1 DEF Inv, WorkIsSound, GivenUpStaysGone
<1>8. UnderWayHasTarget'
  <2>1. state' = "Navigating" => state = "Navigating" /\ UNCHANGED path
    BY DEF Over
  <2>2. state' = "Recovering" => phase' # "Done"
    BY DEF Inv, WorkIsSound, UnderWayHasTarget, Over
  <2>3. state' \in Working => state \in Working
    BY DEF Over
  <2>4. QED
    BY <1>1, <2>1, <2>2, <2>3 DEF Inv, WorkIsSound, UnderWayHasTarget
<1>9. EndsAtHome'
  <2>1. path = "none" => ~finished
    BY DEF Inv, LimitInv
  <2>2. ReturnToStart /\ state = "Complete" => athome \/ path = "frontier"
    BY DEF Inv, WorkIsSound, EndsAtHome
  <2>3. QED
    BY <1>0, <2>1, <2>2 DEF EndsAtHome, Over
<1>10. QED
  BY <1>4, <1>5, <1>6, <1>7, <1>8, <1>9 DEF Inv, WorkIsSound


\* Planning: the list stays, its place moves on, and a path is set with its frontier.
LEMMA PlanStep ==
  ASSUME Inv, Plan \/ Replan
  PROVE  Inv'
<1> USE DEF Plan, Replan, PlanPath, Stand, SetPath, ClearPath, pathVars, Working
<1>0. /\ idx \in 1 .. Cardinality(Frontiers) + 1 /\ failures \in 0 .. MaxFailures - 1
      /\ Len(frontiers) \in 0 .. Cardinality(Frontiers) /\ Cardinality(Frontiers) \in Nat
      /\ MaxFailures \in Nat \ {0} /\ Len(frontiers) \in Nat
      /\ path \in {"none", "frontier", "home"} /\ finished \in BOOLEAN
  BY InvGives, LimitsAre DEF Inv, TypeOK
<1>1. /\ state \in {"Planning", "Replanning"} /\ moving' = FALSE
      /\ UNCHANGED <<frontiers, current, replans, recoveries, phase, athome>>
      /\ UNCHANGED <<blacklist, permanent, exhaustion, triedEscape>>
  BY DEF blackVars
<1>2. PICK i \in idx .. Len(frontiers) + 1 :
        \/ i > Len(frontiers) /\ idx' = i /\ state' = "Failed" /\ UNCHANGED failures
           /\ (UNCHANGED pathVars \/ ClearPath)
        \/ i <= Len(frontiers) /\ idx' = i /\ state' = "Navigating" /\ failures' = 0
           /\ SetPath("frontier")
        \/ i <= Len(frontiers) /\ state' = "Planning" /\ (UNCHANGED pathVars \/ ClearPath)
           /\ IF failures + 1 >= MaxFailures
              THEN idx' = i + 1 /\ failures' = 0
              ELSE idx' = i /\ failures' = failures + 1
  <2>1. CASE Plan
    BY <2>1
  <2>2. CASE Replan
    BY <2>2
  <2>3. QED
    BY <2>1, <2>2
<1>3. i \in 1 .. Cardinality(Frontiers) + 1 /\ (i <= Len(frontiers) => i + 1 <= Cardinality(Frontiers) + 1)
  BY <1>0
<1>4. /\ state' \in {"Failed", "Navigating", "Planning"}
      /\ idx' \in 1 .. Cardinality(Frontiers) + 1 /\ failures' \in 0 .. MaxFailures - 1
  BY <1>0, <1>2, <1>3
<1>5. /\ path' \in {"none", "frontier", "home"} /\ finished' \in BOOLEAN
      /\ path' = "none" => ~finished'
      /\ state' = "Navigating" => path' = "frontier" /\ idx' <= Len(frontiers)
  <2>1. path = "none" => ~finished
    BY DEF Inv, LimitInv
  <2>2. UNCHANGED <<path, finished>> \/ ClearPath \/ (idx' = i /\ SetPath("frontier"))
    BY <1>2
  <2>3. state' = "Navigating" => i <= Len(frontiers) /\ idx' = i /\ SetPath("frontier")
    BY <1>2
  <2>4. path' \in {"none", "frontier", "home"} /\ finished' \in BOOLEAN
    BY <1>0, <2>2
  <2>5. path' = "none" => ~finished'
    BY <1>0, <2>1, <2>2
  <2>6. state' = "Navigating" => path' = "frontier" /\ idx' <= Len(frontiers)
    BY <2>3
  <2>7. QED
    BY <2>4, <2>5, <2>6
<1>6. TypeOK'
  BY <1>1, <1>4, <1>5 DEF Inv, TypeOK, States, Over
<1>7. LimitInv' /\ CountInv'
  BY <1>1, <1>4, <1>5 DEF Inv, LimitInv, CountInv
<1>8. WorkIsSound'
  BY <1>1, <1>4, <1>5 DEF Inv, WorkIsSound, GivenUpStaysGone, UnderWayHasTarget, EndsAtHome
<1>9. QED
  BY <1>6, <1>7, <1>8 DEF Inv

\* What gives a frontier up for now, and what forgives all.
LEMMA BlacklistStep ==
  ASSUME Inv, TimedOut \/ Rotated \/ Escaped \/ EscapePlan
  PROVE  Inv'
<1> USE DEF TimedOut, Rotated, Escaped, EscapePlan, Forgive, Stand, SetPath, ClearPath, InPhase,
     Working
<1>0. /\ blacklist \subseteq Frontiers /\ current \in Frontiers \cup {NoFrontier}
      /\ recoveries \in 0 .. MaxRecoveries /\ MaxRecoveries \in Nat \ {0}
      /\ exhaustion \in [Frontiers -> 0 .. MaxExhaustions] /\ MaxExhaustions \in Nat \ {0}
      /\ path \in {"none", "frontier", "home"} /\ finished \in BOOLEAN
      /\ state \in Working => current \in Frontiers /\ current \notin permanent
      /\ state \in Working => recoveries < MaxRecoveries
  BY InvGives, LimitsAre DEF Inv, TypeOK, LimitInv
<1>1. UNCHANGED <<frontiers, idx, current, failures, replans, permanent, triedEscape, athome>>
  BY DEF listVars, blackVars
<1>2. /\ state' \in {"SelectingFrontier", "Replanning", "EscapingToRetry"}
      /\ phase' \in {"BackingUp", "Rotating", "Done"} /\ moving' = FALSE
      /\ state' = "EscapingToRetry" => state = "EscapingToRetry"
      /\ state' = "Replanning" => state \in Working
      /\ state = "EscapingToRetry" => state' = "EscapingToRetry" \/ exhaustion' = [f \in Frontiers |-> 0]
  BY DEF Inv, TypeOK
<1>3. /\ recoveries' \in 0 .. MaxRecoveries
      /\ state' = "Replanning" => recoveries' < MaxRecoveries
  BY <1>0 DEF listVars
<1>4. /\ path' \in {"none", "frontier", "home"} /\ finished' \in BOOLEAN
      /\ path' = "none" => ~finished'
  <2>1. path = "none" => ~finished
    BY DEF Inv, LimitInv
  <2>2. UNCHANGED <<path, finished>> \/ ClearPath \/ SetPath("home")
    BY DEF pathVars
  <2>3. path' \in {"none", "frontier", "home"} /\ finished' \in BOOLEAN
    BY <1>0, <2>2
  <2>4. path' = "none" => ~finished'
    BY <1>0, <2>1, <2>2
  <2>5. QED
    BY <2>3, <2>4
<1>5. blacklist' \subseteq Frontiers /\ blacklist' \cap permanent = {}
  <2>1. \/ blacklist' = blacklist \/ blacklist' = {}
        \/ state \in Working /\ blacklist' = blacklist \cup ({current} \ {NoFrontier})
    BY DEF blackVars
  <2>2. QED
    BY <1>0, <2>1 DEF Inv, CountInv
<1>6. exhaustion' = exhaustion \/ exhaustion' = [f \in Frontiers |-> 0]
  BY DEF blackVars
<1>7. exhaustion' \in [Frontiers -> 0 .. MaxExhaustions]
  BY <1>0, <1>6
<1>8. TypeOK'
  BY <1>1, <1>2, <1>3, <1>4, <1>5, <1>7 DEF Inv, TypeOK, States
<1>9. LimitInv'
  BY <1>2, <1>3, <1>4 DEF LimitInv
<1>10. CountInv'
  <2>1. CASE exhaustion' = [f \in Frontiers |-> 0]
    BY <1>0, <1>1, <1>5, <2>1 DEF CountInv
  <2>2. CASE exhaustion' = exhaustion /\ exhaustion' # [f \in Frontiers |-> 0]
    BY <1>1, <1>2, <1>5, <2>2 DEF Inv, CountInv
  <2>3. QED
    BY <1>6, <2>1, <2>2
<1>11. WorkIsSound'
  BY <1>1, <1>2 DEF Inv, WorkIsSound, GivenUpStaysGone, UnderWayHasTarget, EndsAtHome
<1>12. QED
  BY <1>8, <1>9, <1>10, <1>11 DEF Inv

\* Driving: the list is there, so a refresh of it changes nothing.
LEMMA DriveStep ==
  ASSUME Inv, Blocked \/ Drive
  PROVE  Inv'
<1> USE DEF Blocked, Drive, Follow, Stand, ClearPath, StartRecovery, Working
<1>0. /\ replans \in 0 .. MaxReplans /\ MaxReplans \in Nat \ {0}
      /\ path \in {"none", "frontier", "home"} /\ finished \in BOOLEAN
      /\ phase \in {"BackingUp", "Rotating", "Done"}
      /\ state = "Navigating" /\ path = "frontier"
  BY LimitsAre DEF Inv, TypeOK, WorkIsSound, UnderWayHasTarget
<1>1. frontiers # <<>>
  BY <1>0 DEF Inv, WorkIsSound, UnderWayHasTarget
<1>2. /\ UNCHANGED <<frontiers, idx, current, failures, recoveries, athome>>
      /\ UNCHANGED <<blacklist, permanent, exhaustion, triedEscape>>
  BY <1>1 DEF blackVars
<1>3. replans' \in 0 .. MaxReplans
  BY <1>0
<1>4. /\ state' \in {"Navigating", "Recovering", "Replanning"}
      /\ phase' \in {"BackingUp", "Rotating", "Done"} /\ moving' \in BOOLEAN
      /\ path' \in {"none", "frontier", "home"} /\ finished' \in BOOLEAN
      /\ path' = "none" => ~finished'
      /\ state' = "Navigating" => path' = "frontier"
      /\ state' = "Recovering" => phase' # "Done"
  BY <1>0
<1>5. TypeOK'
  BY <1>2, <1>3, <1>4 DEF Inv, TypeOK, States
<1>6. LimitInv' /\ CountInv'
  BY <1>0, <1>2, <1>4 DEF Inv, LimitInv, CountInv
<1>7. WorkIsSound'
  BY <1>0, <1>2, <1>4 DEF Inv, WorkIsSound, GivenUpStaysGone, UnderWayHasTarget, EndsAtHome
<1>8. QED
  BY <1>5, <1>6, <1>7 DEF Inv


\* A list to work on is begun with its first frontier; with none left it is over.
LEMMA Pursued ==
  ASSUME Inv, NEW list \in Detections, Pursue(list)
  PROVE  /\ frontiers' = list /\ UNCHANGED <<path, finished>>
         /\ idx' \in 1 .. Cardinality(Frontiers) + 1 /\ current' \in Frontiers \cup {NoFrontier}
         /\ failures' \in 0 .. MaxFailures - 1 /\ replans' \in 0 .. MaxReplans
         /\ recoveries' \in 0 .. MaxRecoveries
         /\ state' \in {"Planning", "ReturningHome", "Complete"}
         /\ state' = "Planning" => list # <<>> /\ current' = list[1] /\ recoveries' = 0
         /\ state' = "Complete" => ~ReturnToStart
<1>1. /\ frontiers' = list /\ UNCHANGED <<path, finished>>
      /\ \/ /\ list = <<>> /\ state' = NothingLeft
            /\ UNCHANGED <<idx, current, failures, replans, recoveries>>
         \/ /\ list # <<>> /\ state' = "Planning"
            /\ idx' = 1 /\ current' = Head(list) /\ failures' = 0 /\ replans' = 0 /\ recoveries' = 0
  BY DEF Pursue, pathVars
<1>2. list # <<>> => Head(list) = list[1] /\ list[1] \in Frontiers
  BY DetectionsAre
<1>3. /\ 1 \in 1 .. Cardinality(Frontiers) + 1 /\ 0 \in 0 .. MaxFailures - 1
      /\ 0 \in 0 .. MaxReplans /\ 0 \in 0 .. MaxRecoveries
  BY LimitsAre
<1>4. /\ idx \in 1 .. Cardinality(Frontiers) + 1 /\ current \in Frontiers \cup {NoFrontier}
      /\ failures \in 0 .. MaxFailures - 1 /\ replans \in 0 .. MaxReplans
      /\ recoveries \in 0 .. MaxRecoveries
  BY DEF Inv, TypeOK
<1>5. NothingLeft \in {"ReturningHome", "Complete"} /\ (NothingLeft = "Complete" => ~ReturnToStart)
  BY LimitsAre DEF NothingLeft
<1>6. CASE list = <<>>
  <2>1. state' = NothingLeft /\ UNCHANGED <<idx, current, failures, replans, recoveries>>
    BY <1>1, <1>6
  <2>2. QED
    BY <1>1, <1>4, <1>5, <2>1
<1>7. CASE list # <<>>
  <2>1. /\ state' = "Planning" /\ idx' = 1 /\ current' = list[1] /\ current' \in Frontiers
        /\ failures' = 0 /\ replans' = 0 /\ recoveries' = 0
    BY <1>1, <1>2, <1>7
  <2>2. QED
    BY <1>1, <1>3, <1>7, <2>1
<1>8. QED
  BY <1>6, <1>7

\* Another round of exhaustion counts what is blacklisted, which is not full yet.
LEMMA CountsAre ==
  ASSUME Inv, state = "SelectingFrontier", NEW black \in SUBSET blacklist,
         NEW counts, counts = [f \in Frontiers |-> exhaustion[f] + IF f \in black THEN 1 ELSE 0]
  PROVE  /\ counts \in [Frontiers -> 0 .. MaxExhaustions]
         /\ \A f \in Frontiers : counts[f] = MaxExhaustions =>
              f \in permanent \/ (f \in black /\ counts[f] >= MaxExhaustions)
<1>1. /\ blacklist \subseteq Frontiers /\ blacklist \cap permanent = {}
      /\ \A f \in Frontiers : exhaustion[f] \in 0 .. MaxExhaustions
      /\ \A f \in Frontiers : exhaustion[f] = MaxExhaustions => f \in permanent
      /\ MaxExhaustions \in Nat \ {0}
  BY LimitsAre DEF Inv, TypeOK, CountInv
<1>2. ASSUME NEW f \in Frontiers
      PROVE  /\ counts[f] \in 0 .. MaxExhaustions
             /\ counts[f] = MaxExhaustions =>
                  f \in permanent \/ (f \in black /\ counts[f] >= MaxExhaustions)
  <2>1. CASE f \in black
    <3>1. counts[f] = exhaustion[f] + 1 /\ f \notin permanent /\ exhaustion[f] # MaxExhaustions
      BY <1>1, <2>1
    <3>2. QED
      BY <1>1, <2>1, <3>1
  <2>2. CASE f \notin black
    <3>1. counts[f] = exhaustion[f]
      BY <1>1, <2>2
    <3>2. QED
      BY <1>1, <3>1
  <2>3. QED
    BY <2>1, <2>2
<1>3. QED
  BY <1>2

\* Selection: what is given up for good is out of the list, and stays out of it.
LEMMA SelectStep ==
  ASSUME Inv, NEW expired \in SUBSET blacklist, Select(expired)
  PROVE  Inv'
<1> DEFINE black == blacklist \ expired
           counts == [f \in Frontiers |-> exhaustion[f] + IF f \in black THEN 1 ELSE 0]
           spent == {f \in black : counts[f] >= MaxExhaustions}
<1>1. PICK seen \in Detections :
        LET available == Without(seen, black \cup permanent)
        IN  \/ /\ available = <<>> /\ black # {}
               /\ Exhausted(seen, black)
            \/ /\ available # <<>> \/ black = {}
               /\ blacklist' = black
               /\ Pursue(available)
               /\ UNCHANGED <<permanent, exhaustion, triedEscape>>
  BY DEF Select
<1>2. state = "SelectingFrontier" /\ moving' = FALSE /\ UNCHANGED <<phase, athome>>
  BY DEF Select, Stand
<1>3. /\ black \in SUBSET blacklist /\ blacklist \subseteq Frontiers /\ permanent \subseteq Frontiers
      /\ exhaustion \in [Frontiers -> 0 .. MaxExhaustions]
      /\ triedEscape \in BOOLEAN
  BY DEF Inv, TypeOK
<1>4. /\ phase \in {"BackingUp", "Rotating", "Done"} /\ athome \in BOOLEAN
      /\ path \in {"none", "frontier", "home"} /\ finished \in BOOLEAN
      /\ MaxRecoveries \in Nat \ {0}
  BY LimitsAre DEF Inv, TypeOK
<1>5. path = "none" => ~finished
  BY DEF Inv, LimitInv
\* What follows when a list is pursued, given what becomes of the blacklists.
<1>6. ASSUME NEW list \in Detections, Pursue(list), CountInv',
             blacklist' \subseteq Frontiers, permanent' \subseteq Frontiers,
             exhaustion' \in [Frontiers -> 0 .. MaxExhaustions], triedEscape' \in BOOLEAN,
             permanent' # {} => triedEscape',
             \A k \in DOMAIN list : list[k] \notin permanent'
      PROVE  Inv'
  <2>1. /\ frontiers' = list /\ UNCHANGED <<path, finished>>
        /\ idx' \in 1 .. Cardinality(Frontiers) + 1 /\ current' \in Frontiers \cup {NoFrontier}
        /\ failures' \in 0 .. MaxFailures - 1 /\ replans' \in 0 .. MaxReplans
        /\ recoveries' \in 0 .. MaxRecoveries
        /\ state' \in {"Planning", "ReturningHome", "Complete"}
        /\ state' = "Planning" => list # <<>> /\ current' = list[1] /\ recoveries' = 0
        /\ state' = "Complete" => ~ReturnToStart
    BY <1>6, Pursued
  <2>2. TypeOK'
    BY <1>2, <1>4, <1>6, <2>1 DEF TypeOK, States, Over
  <2>3. LimitInv'
    <3>1. path' = "none" => ~finished'
      BY <1>4, <1>5, <2>1
    <3>2. state' \in Working => recoveries' < MaxRecoveries
      BY <1>4, <2>1 DEF Working
    <3>3. QED
      BY <3>1, <3>2 DEF LimitInv
  <2>4. GivenUpStaysGone'
    BY <1>6, <2>1 DEF GivenUpStaysGone
  <2>5. UnderWayHasTarget' /\ EndsAtHome'
    BY <1>2, <2>1 DEF UnderWayHasTarget, EndsAtHome
  <2>6. QED
    BY <1>6, <2>2, <2>3, <2>4, <2>5 DEF Inv, WorkIsSound
<1>7. CASE \E list \in Detections :
             /\ list = Without(seen, black \cup permanent)
             /\ blacklist' = black /\ Pursue(list) /\ UNCHANGED <<permanent, exhaustion, triedEscape>>
  <2>1. PICK list \in Detections :
             /\ list = Without(seen, black \cup permanent)
             /\ blacklist' = black /\ Pursue(list) /\ UNCHANGED <<permanent, exhaustion, triedEscape>>
    BY <1>7
  <2>2. \A k \in DOMAIN list : list[k] \notin permanent'
    BY <2>1, WithoutIs
  <2>3. CountInv'
    BY <1>2, <2>1 DEF Inv, CountInv
  <2>4. permanent' # {} => triedEscape'
    BY <2>1 DEF Inv, WorkIsSound, GivenUpStaysGone
  <2>5. QED
    BY <1>3, <1>6, <2>1, <2>2, <2>3, <2>4
<1>8. CASE Exhausted(seen, black)
  <2>1. /\ exhaustion' = counts /\ blacklist' = {}
        /\ \/ /\ spent # {} /\ ~triedEscape
              /\ triedEscape' = TRUE
              /\ state' = "EscapingToRetry"
              /\ ClearPath
              /\ UNCHANGED <<listVars, permanent>>
           \/ /\ spent = {} \/ triedEscape
              /\ permanent' = permanent \cup spent
              /\ Pursue(Without(seen, permanent'))
              /\ UNCHANGED triedEscape
    BY <1>8 DEF Exhausted
  <2>2. /\ counts \in [Frontiers -> 0 .. MaxExhaustions]
        /\ \A f \in Frontiers : counts[f] = MaxExhaustions => f \in permanent \/ f \in spent
    <3> HIDE DEF black
    <3>1. QED
      BY <1>2, <1>3, CountsAre
  <2> HIDE DEF counts, spent
  <2>3. CASE triedEscape' = TRUE /\ state' = "EscapingToRetry" /\ ClearPath
             /\ UNCHANGED <<listVars, permanent>>
    <3>1. UNCHANGED <<frontiers, idx, current, failures, replans, recoveries, permanent>>
      BY <2>3 DEF listVars
    <3>2. path' = "none" /\ finished' = FALSE
      BY <2>3 DEF ClearPath
    <3>3. TypeOK'
      BY <1>2, <2>1, <2>2, <2>3, <3>1, <3>2 DEF Inv, TypeOK, States
    <3>4. LimitInv' /\ CountInv'
      BY <2>1, <2>3, <3>2 DEF LimitInv, CountInv, Working
    <3>5. WorkIsSound'
      BY <2>3, <3>1 DEF Inv, WorkIsSound, GivenUpStaysGone, UnderWayHasTarget, EndsAtHome
    <3>6. QED
      BY <3>3, <3>4, <3>5 DEF Inv
  <2>4. CASE /\ spent = {} \/ triedEscape
             /\ permanent' = permanent \cup spent
             /\ Pursue(Without(seen, permanent'))
             /\ UNCHANGED triedEscape
    <3> DEFINE list == Without(seen, permanent')
    <3>1. list \in Detections /\ \A k \in DOMAIN list : list[k] \notin permanent'
      BY WithoutIs
    <3>2. spent \subseteq Frontiers
      BY <1>3 DEF spent
    <3>3. permanent' \subseteq Frontiers /\ blacklist' \subseteq Frontiers
      BY <1>3, <2>1, <2>4, <3>2
    <3>4. CountInv'
      BY <2>1, <2>2, <2>4 DEF CountInv
    <3>5. permanent' # {} => triedEscape'
      BY <2>4 DEF Inv, WorkIsSound, GivenUpStaysGone
    <3>6. exhaustion' \in [Frontiers -> 0 .. MaxExhaustions] /\ triedEscape' \in BOOLEAN
      BY <1>3, <2>1, <2>2, <2>4
    <3>7. Pursue(list)
      BY <2>4
    <3> HIDE DEF list
    <3>8. QED
      BY <1>6, <3>1, <3>3, <3>4, <3>5, <3>6, <3>7
  <2>5. QED
    BY <2>1, <2>3, <2>4
<1>9. QED
  <2>1. Without(seen, black \cup permanent) \in Detections
    BY WithoutIs
  <2>2. QED
    BY <1>1, <1>7, <1>8, <2>1

LEMMA InvInit == Init => Inv
<1> SUFFICES ASSUME Init PROVE Inv
  OBVIOUS
<1>1. /\ MaxFailures \in Nat \ {0} /\ MaxReplans \in Nat \ {0} /\ MaxRecoveries \in Nat \ {0}
      /\ MaxExhaustions \in Nat \ {0} /\ Cardinality(Frontiers) \in Nat
  BY LimitsAre
<1>2. <<>> \in Detections
  <2>1. <<>> \in [1 .. 0 -> Frontiers] /\ \A i, j \in DOMAIN <<>> : <<>>[i] = <<>>[j] => i = j
    OBVIOUS
  <2>2. 0 \in 0 .. Cardinality(Frontiers)
    BY <1>1
  <2>3. QED
    BY <2>1, <2>2 DEF Detections
<1>3. /\ frontiers \in Detections /\ idx \in 1 .. Cardinality(Frontiers) + 1
      /\ failures \in 0 .. MaxFailures - 1 /\ replans \in 0 .. MaxReplans
      /\ recoveries \in 0 .. MaxRecoveries /\ exhaustion \in [Frontiers -> 0 .. MaxExhaustions]
  BY <1>1, <1>2 DEF Init
<1>4. TypeOK
  BY <1>3 DEF Init, TypeOK, States
<1>5. LimitInv /\ CountInv
  BY <1>1 DEF Init, LimitInv, CountInv, Working
<1>6. WorkIsSound
  BY DEF Init, WorkIsSound, GivenUpStaysGone, UnderWayHasTarget, EndsAtHome
<1>7. QED
  BY <1>4, <1>5, <1>6 DEF Inv

LEMMA InvStep == Inv /\ [Next]_vars => Inv'
<1> SUFFICES ASSUME Inv, [Next]_vars PROVE Inv'
  OBVIOUS
<1>1. CASE \/ Start \/ Arrive \/ Stuck \/ TooClose \/ MapExplored \/ Manoeuvre \/ BackedUp
           \/ EscapeDrive \/ AtHome \/ HomePathDone \/ HomeDrive \/ HomePlan \/ Rest
           \/ UNCHANGED vars
  <2>1. UNCHANGED <<listVars, blackVars>>
    BY <1>1 DEF Start, Arrive, Stuck, TooClose, MapExplored, Manoeuvre, BackedUp, EscapeDrive,
       AtHome, HomePathDone, HomeDrive, HomePlan, Rest, vars
  <2>2. QED
    BY <1>1, <2>1, QuietStep
<1>2. CASE SelectFresh \/ SelectExpired
  <2>1. PICK expired \in SUBSET blacklist : Select(expired)
    BY <1>2 DEF SelectFresh, SelectExpired
  <2>2. QED
    BY <2>1, SelectStep
<1>3. CASE Plan \/ Replan
  BY <1>3, PlanStep
<1>4. CASE TimedOut \/ Rotated \/ Escaped \/ EscapePlan
  BY <1>4, BlacklistStep
<1>5. CASE Blocked \/ Drive
  BY <1>5, DriveStep
<1>6. QED
  BY <1>1, <1>2, <1>3, <1>4, <1>5 DEF Next, Update

LEMMA Invariant == Spec => []Inv
BY InvInit, InvStep, PTL DEF Spec

-----------------------------------------------------------------------------
(***************************************************************************)
(* What follows.                                                           *)
(***************************************************************************)

\* Whatever the detector, the planner, the timers and the robot do, no counter passes its
\* limit, no index the list, and no frontier is in the list twice (explorer.rs).
THEOREM TypeCorrect == Spec => []TypeOK
BY Invariant, PTL DEF Inv

\* What is given up for good is not worked on again, and not before the one escape; under
\* way there is a path, a frontier to blame and a recovery that goes on; and a mission that
\* is to end at its start does, but for a path that is still in the follower
\* (explorer.rs:384-424, 595-605, 775, 830-840, 1170).
THEOREM WorkSound == Spec => []WorkIsSound
BY Invariant, PTL DEF Inv

\* Every call of the explorer is one the mission allows.
LEMMA MissionStep ==
  ASSUME Inv, Inv', [Next]_vars
  PROVE  [Mission!MissionNext]_(Mission!mission_vars)
<1> DEFINE phaseOf == IF state = "Idle" THEN "idle" ELSE IF state \in Over THEN "over" ELSE "busy"
<1>0. /\ state \in States /\ state' \in States /\ moving \in BOOLEAN /\ moving' \in BOOLEAN
  BY DEF Inv, TypeOK
<1>1. CASE Start
  <2>1. state = "Idle" /\ state' = "SelectingFrontier" /\ UNCHANGED moving
    BY <1>1 DEF Start
  <2>2. QED
    BY <2>1 DEF Mission!MissionNext, Mission!Begin, Over
<1>2. CASE Update
  <2>1. state \notin {"Idle"} \cup Over
    BY <1>2 DEF Update, Over, SelectFresh, SelectExpired, Select, Plan, Replan, Arrive, Stuck,
       TimedOut, TooClose, Blocked, Drive, MapExplored, Manoeuvre, BackedUp, Rotated, InPhase,
       Escaped, EscapeDrive, EscapePlan, AtHome, HomePathDone, HomeDrive, HomePlan
  <2>2. state' # "Idle"
    <3>1. CASE SelectFresh \/ SelectExpired
      <4>1. PICK expired \in SUBSET blacklist : Select(expired)
        BY <3>1 DEF SelectFresh, SelectExpired
      <4>2. QED
        BY <4>1 DEF Select, Exhausted, Pursue, NothingLeft
    <3>2. CASE Plan \/ Replan
      BY <3>2 DEF Plan, Replan, PlanPath
    <3>3. CASE ~(SelectFresh \/ SelectExpired \/ Plan \/ Replan)
      BY <1>2, <2>1, <3>3 DEF Update, Arrive, Stuck, TimedOut, TooClose, Blocked, Drive,
         MapExplored, NothingLeft, StartRecovery, Manoeuvre, BackedUp, Rotated, InPhase, Escaped,
         Forgive, EscapeDrive, EscapePlan, AtHome, HomePathDone, HomeDrive, HomePlan
    <3>4. QED
      BY <3>1, <3>2, <3>3
  <2>3. Mission!Advance
    BY <1>0, <2>1, <2>2 DEF Mission!Advance
  <2>4. QED
    BY <2>3 DEF Mission!MissionNext
<1>3. CASE Rest
  <2>1. state \in {"Idle"} \cup Over /\ UNCHANGED state /\ moving' = FALSE
    BY <1>3 DEF Rest, Stand
  <2>2. QED
    BY <2>1 DEF Mission!MissionNext, Mission!Rest, Over
<1>4. CASE UNCHANGED vars
  BY <1>4 DEF vars, Mission!mission_vars
<1>5. QED
  BY <1>1, <1>2, <1>3, <1>4 DEF Next

\* The explorer implements the mission: started once, it moves the robot only while it is
\* busy, and an update after the end keeps still (explorer.rs:243-282, 302-307).
THEOREM MissionImplemented == Spec => ImplementsMission
<1>1. Init => Mission!MissionInit
  BY DEF Init, Mission!MissionInit
<1>2. Inv /\ Inv' /\ [Next]_vars => [Mission!MissionNext]_(Mission!mission_vars)
  BY MissionStep
<1>3. QED
  BY <1>1, <1>2, Invariant, PTL DEF Spec, ImplementsMission, Mission!MissionSpec
=============================================================================
