----------------------------- MODULE Gd32Proofs -----------------------------
(***************************************************************************)
(* Theorems about the GD32 driver of the CRL-200S, for any speed-based     *)
(* components, any range of speeds, any commands of the kinds it handles   *)
(* and any devices whose frames may be lost.                               *)
(***************************************************************************)
EXTENDS Gd32, SequenceTheorems, TLAPS

\* What the heartbeat repeats, and what a cycle reads.
Kept  == Cleaners \cup Wheels \cup {"lidar"}
Reading == {r \in [reg : Registers \ {"mode"}, keep : BOOLEAN] : r.keep => r.reg \in Kept}

\* A frame sets the levels of some devices, and no two of the frames that are
\* written together are about the same device.
Frame == UNION {[D -> Levels] : D \in SUBSET Devices}
FrameSets ==
  {F \in SUBSET Frame : \A f, g \in F : DOMAIN f \cap DOMAIN g # {} => f = g}

StoreItem == [do : {"store"}, reg : Registers, val : Levels]
TellItem  == [do : {"write", "tank", "stop"}, frames : FrameSets]
Item == StoreItem \cup TellItem

\* An item of a script that tells a device d the level v, and the heartbeat knows it.
Tells(item, d, v) ==
  item.do \in {"write", "stop"} /\ \E f \in item.frames : d \in DOMAIN f /\ f[d] = v

\* Whatever is stored is told before anything else is, and before it is stored anew.
ToldAsStored(s) ==
  \A i \in DOMAIN s : s[i].do = "store" /\ s[i].reg \in Kept =>
    \E j \in DOMAIN s :
      /\ i < j /\ Tells(s[j], s[i].reg, s[i].val)
      /\ \A k \in i .. j - 1 :
           s[k].do = "store" /\ (s[k].reg = s[i].reg => s[k].val = s[i].val)

\* What is told of what is kept has been stored before, and as nothing else.
ToldIsStored(s) ==
  \A j \in DOMAIN s, d \in Kept, v \in Levels : Tells(s[j], d, v) =>
    /\ \E i \in 1 .. j - 1 : s[i].do = "store" /\ s[i].reg = d
    /\ \A i \in 1 .. j - 1 : s[i].do = "store" /\ s[i].reg = d => s[i].val = v

\* Only the wheels are driven behind the heartbeat's back.
TanksWheels(s) ==
  \A i \in DOMAIN s : s[i].do = "tank" => \A f \in s[i].frames : DOMAIN f \subseteq Wheels

\* Nothing a script stores or tells sets something in motion.
Zero(s) ==
  \A i \in DOMAIN s :
    /\ s[i].do = "store" => s[i].val = 0
    /\ s[i].do # "store" => \A f \in s[i].frames : \A d \in DOMAIN f : f[d] = 0

\* An emergency stop is about every device and comes behind stores alone, of zeros.
StopsAll(s) ==
  \A j \in DOMAIN s : s[j].do = "stop" =>
    /\ Zero(s)
    /\ \A i \in 1 .. j - 1 : s[i].do = "store"
    /\ \A d \in Devices : \E f \in s[j].frames : d \in DOMAIN f

GoodScript(s) == ToldAsStored(s) /\ TanksWheels(s) /\ StopsAll(s)

-----------------------------------------------------------------------------
\* The next write of the handler that runs tells d what will then be stored for it.
Owed(d) ==
  \E j \in DOMAIN todo, v \in Levels :
    /\ Tells(todo[j], d, v)
    /\ \A i \in 1 .. j - 1 : todo[i].do = "store" /\ (todo[i].reg = d => todo[i].val = v)
    /\ v = reg[d] \/ \E i \in 1 .. j - 1 : todo[i].reg = d

\* The handler tells nothing of what is kept but what is stored, or will be by then.
TellInv ==
  \A j \in DOMAIN todo, d \in Kept, v \in Levels : Tells(todo[j], d, v) =>
    /\ v = reg[d] \/ \E i \in 1 .. j - 1 : todo[i].do = "store" /\ todo[i].reg = d
    /\ \A i \in 1 .. j - 1 : todo[i].do = "store" /\ todo[i].reg = d => todo[i].val = v

\* Where the threads are: shutdown has no handler running, and leaves no heartbeat.
StageInv ==
  /\ stage = "join" => todo = <<>>
  /\ stage = "over" => hb = "done"

\* A cycle holds what is stored, or what the handler that waits for the port is
\* about to correct, of all it has read; it starts from nothing.
CycleInv ==
  /\ hb \in {"sleep", "lock", "done"} => ~active /\ \A d \in Kept : seen[d] = 0
  /\ hb = "read" => \A i, j \in DOMAIN left : i < j /\ left[j].keep => left[i].keep
  /\ hb \in {"read", "switch", "send"} =>
       \A d \in Kept : \/ seen[d] = reg[d] \/ Owed(d)
                       \/ hb = "read" /\ \E i \in DOMAIN left : left[i].keep /\ left[i].reg = d

\* So do the devices.
FollowInv ==
  \A d \in Kept \ apart :
    out[d] = reg[d] \/ Owed(d) \/ (d \in Wheels /\ stage # "run" /\ out[d] = 0)

\* Before its stop an emergency stop has stored zeros, or is about to.
ClearInv ==
  \A j \in DOMAIN todo : todo[j].do = "stop" =>
    \A r \in Registers \ {"mode"} : reg[r] = 0 \/ \E i \in 1 .. j - 1 : todo[i].reg = r

\* After it nothing is stored, read or told that is not zero, and no cycle is left
\* that believes it should switch to navigation mode.
CalmInv ==
  /\ calm # "no" => Zero(todo)
  /\ calm = "reset" =>
       /\ \A r \in Registers \ {"mode"} : reg[r] = 0
       /\ ~active /\ \A d \in Kept : seen[d] = 0
       /\ hb = "send" => reg["mode"] = 0
       /\ \A d \in Devices \ apart : out[d] = 0

\* The type invariant, with the types of what the two threads have still to do.
TypeInv ==
  /\ TypeOK
  /\ todo \in Seq(Item) /\ GoodScript(todo)
  /\ left \in Seq(Reading) /\ (hb = "read" => left # <<>>)

Inv == TellInv /\ StageInv /\ CycleInv /\ FollowInv /\ ClearInv /\ CalmInv

-----------------------------------------------------------------------------
(***************************************************************************)
(* Frames and scripts.                                                     *)
(***************************************************************************)

\* Zero and one are levels, and no component has the name of another device.
LEMMA Constants ==
  /\ 0 \in Levels /\ 1 \in Levels /\ Levels \subseteq Nat
  /\ Wheels \subseteq Kept /\ "lidar" \in Kept /\ Cleaners \subseteq Kept
  /\ Kept \subseteq Devices /\ Kept \subseteq Registers \ {"mode"}
  /\ "mode" \in Devices \ Kept /\ "power" \in Devices \ Kept
  /\ "mode" \in Registers /\ "wheels" \in (Registers \ {"mode"}) \ Kept
  /\ Speeds \in Seq(Cleaners)
BY Gd32Assumption DEF Levels, Kept, Devices, Registers, Wheels

\* A frame about one device ...
LEMMA TellIs ==
  ASSUME NEW d \in Devices, NEW v \in Levels
  PROVE  /\ Tell(d, v) \in Frame /\ {Tell(d, v)} \in FrameSets
         /\ DOMAIN Tell(d, v) = {d} /\ Tell(d, v)[d] = v
<1>1. Tell(d, v) \in [{d} -> Levels] /\ DOMAIN Tell(d, v) = {d} /\ Tell(d, v)[d] = v
  BY DEF Tell
<1>2. Tell(d, v) \in Frame
  BY <1>1 DEF Frame
<1>3. QED
  BY <1>1, <1>2 DEF FrameSets

\* ... and one about both wheels.
LEMMA DriveIs ==
  ASSUME NEW l \in Levels, NEW a \in Levels
  PROVE  /\ Drive(l, a) \in Frame /\ {Drive(l, a)} \in FrameSets
         /\ DOMAIN Drive(l, a) = Wheels
         /\ Drive(l, a)["linear"] = l /\ Drive(l, a)["angular"] = a
<1>1. /\ Drive(l, a) \in [Wheels -> Levels] /\ DOMAIN Drive(l, a) = Wheels
      /\ Drive(l, a)["linear"] = l /\ Drive(l, a)["angular"] = a
  BY DEF Drive, Wheels
<1>2. Drive(l, a) \in Frame
  BY <1>1, Constants DEF Frame
<1>3. QED
  BY <1>1, <1>2 DEF FrameSets

\* The frames of an emergency stop are about every device, once, and all zero.
LEMMA StopIs ==
  /\ Stop \in TellItem /\ Stop.do = "stop"
  /\ \A d \in Devices : \E f \in Stop.frames : d \in DOMAIN f
  /\ \A f \in Stop.frames : \A d \in DOMAIN f : f[d] = 0
<1> DEFINE F == {Drive(0, 0)} \cup {Tell(d, 0) : d \in Devices \ Wheels}
<1>0. 0 \in Levels
  BY Constants
<1>a. /\ Drive(0, 0) \in Frame /\ DOMAIN Drive(0, 0) = Wheels
      /\ Drive(0, 0)["linear"] = 0 /\ Drive(0, 0)["angular"] = 0
  BY <1>0, DriveIs
<1>b. \A d \in Devices :
        Tell(d, 0) \in Frame /\ DOMAIN Tell(d, 0) = {d} /\ Tell(d, 0)[d] = 0
  BY <1>0, TellIs
<1> HIDE DEF Drive, Tell
<1>c. \A f \in F : f = Drive(0, 0) \/ \E d \in Devices \ Wheels : f = Tell(d, 0)
  OBVIOUS
<1>1. ASSUME NEW f \in F PROVE f \in Frame /\ \A d \in DOMAIN f : f[d] = 0
  <2>1. CASE f = Drive(0, 0)
    BY <1>a, <2>1 DEF Wheels
  <2>2. CASE \E d \in Devices \ Wheels : f = Tell(d, 0)
    BY <1>b, <2>2
  <2>3. QED
    BY <1>c, <2>1, <2>2
<1>d. ASSUME NEW f \in F, NEW d \in DOMAIN f
      PROVE  f = IF d \in Wheels THEN Drive(0, 0) ELSE Tell(d, 0)
  <2>1. CASE f = Drive(0, 0)
    BY <1>a, <2>1
  <2>2. CASE \E e \in Devices \ Wheels : f = Tell(e, 0)
    BY <1>b, <2>2
  <2>3. QED
    BY <1>c, <2>1, <2>2
<1>2. \A f, g \in F : DOMAIN f \cap DOMAIN g # {} => f = g
  BY <1>d
<1>3. \A d \in Devices : \E f \in F : d \in DOMAIN f
  BY <1>a, <1>b
<1>4. F \in FrameSets
  BY <1>1, <1>2 DEF FrameSets
<1>5. Stop = [do |-> "stop", frames |-> F]
  BY DEF Stop
<1> HIDE DEF F
<1>6. QED
  BY <1>1, <1>3, <1>4, <1>5 DEF TellItem

\* What the GD32 does after some frames is what it has heard last.
LEMMA HeardIs ==
  ASSUME out \in [Devices -> Levels], NEW F \in FrameSets, NEW heard \in SUBSET F
  PROVE  /\ Heard(heard) \in [Devices -> Levels]
         /\ \A d \in Devices :
              /\ (\A f \in heard : d \notin DOMAIN f) => Heard(heard)[d] = out[d]
              /\ \A f \in heard : d \in DOMAIN f => Heard(heard)[d] = f[d]
<1>1. ASSUME NEW d \in Devices, NEW f \in heard, d \in DOMAIN f
      PROVE  Heard(heard)[d] = f[d] /\ f[d] \in Levels
  <2>1. PICK g \in heard : g = (CHOOSE h \in heard : d \in DOMAIN h) /\ d \in DOMAIN g
    BY <1>1
  <2>2. g = f
    BY <1>1, <2>1 DEF FrameSets
  <2>3. PICK D \in SUBSET Devices : f \in [D -> Levels]
    BY DEF FrameSets, Frame
  <2>4. QED
    BY <1>1, <2>1, <2>2, <2>3 DEF Heard
<1>2. ASSUME NEW d \in Devices, \A f \in heard : d \notin DOMAIN f
      PROVE  Heard(heard)[d] = out[d]
  BY <1>2 DEF Heard
<1>3. ASSUME NEW d \in Devices PROVE Heard(heard)[d] \in Levels
  BY <1>1, <1>2
<1>4. Heard(heard) \in [Devices -> Levels]
  <2>1. Heard(heard) = [d \in Devices |-> Heard(heard)[d]]
    BY DEF Heard
  <2>2. QED
    BY <1>3, <2>1
<1>5. QED
  BY <1>1, <1>2, <1>4

\* Stores and writes are items of scripts.
LEMMA ItemsAre ==
  /\ \A r \in Registers, v \in Levels :
       Store(r, v) \in Item /\ Store(r, v).do = "store"
       /\ Store(r, v).reg = r /\ Store(r, v).val = v
  /\ \A d \in Devices, v \in Levels :
       Write({Tell(d, v)}) \in Item /\ Write({Tell(d, v)}).do = "write"
       /\ Write({Tell(d, v)}).frames = {Tell(d, v)}
  /\ \A l, a \in Levels :
       Write({Drive(l, a)}) \in Item /\ Write({Drive(l, a)}).do = "write"
       /\ Write({Drive(l, a)}).frames = {Drive(l, a)}
<1>1. \A r \in Registers, v \in Levels : Store(r, v) \in StoreItem
  BY DEF Store, StoreItem
<1>2. ASSUME NEW d \in Devices, NEW v \in Levels PROVE Write({Tell(d, v)}) \in TellItem
  <2>1. {Tell(d, v)} \in FrameSets
    BY TellIs
  <2>2. QED
    BY <2>1 DEF Write, TellItem
<1>3. ASSUME NEW l \in Levels, NEW a \in Levels PROVE Write({Drive(l, a)}) \in TellItem
  <2>1. {Drive(l, a)} \in FrameSets
    BY DriveIs
  <2>2. QED
    BY <2>1 DEF Write, TellItem
<1>4. QED
  BY <1>1, <1>2, <1>3 DEF Item, Store, Write

\* A script that stores, and then tells all that it stored, tells it as stored.
LEMMA StoresThenTells ==
  ASSUME NEW s \in Seq(Item), NEW n \in DOMAIN s,
         s[n].frames \in FrameSets,
         \A i \in 1 .. n - 1 :
           s[i].do = "store" /\ (s[i].reg \in Kept => Tells(s[n], s[i].reg, s[i].val)),
         \A i \in n .. Len(s) : s[i].do # "store"
  PROVE  ToldAsStored(s)
<1> SUFFICES ASSUME NEW i \in DOMAIN s, s[i].do = "store", s[i].reg \in Kept
             PROVE  /\ i < n /\ Tells(s[n], s[i].reg, s[i].val)
                    /\ \A k \in i .. n - 1 : /\ s[k].do = "store"
                                             /\ s[k].reg = s[i].reg => s[k].val = s[i].val
  BY DEF ToldAsStored
<1>1. DOMAIN s = 1 .. Len(s) /\ Len(s) \in Nat
  BY LenProperties
<1>2. i < n /\ Tells(s[n], s[i].reg, s[i].val)
  BY <1>1
<1>3. ASSUME NEW k \in i .. n - 1 PROVE s[k].do = "store"
  BY <1>1
<1>4. ASSUME NEW k \in i .. n - 1, s[k].reg = s[i].reg PROVE s[k].val = s[i].val
  <2>1. Tells(s[n], s[i].reg, s[k].val)
    BY <1>1, <1>4
  <2>2. QED
    BY <1>2, <2>1 DEF Tells, FrameSets
<1>5. QED
  BY <1>2, <1>3, <1>4

\* The scripts of the handlers are good ones, one handler at a time.
LEMMA CommandsAre ==
  ASSUME NEW c \in AllCommands
  PROVE  /\ c.level \in Levels
         /\ c.op \in {"speed", "velocity", "tank", "enable", "disable", "reset",
                      "lidar_on", "lidar_off"}
         /\ c.op = "speed" => c.dev \in Cleaners
BY Constants DEF AllCommands

LEMMA SpeedScriptIsGood ==
  ASSUME NEW c \in AllCommands, c.op = "speed"
  PROVE  /\ SpeedScript(c) \in Seq(Item) /\ GoodScript(SpeedScript(c))
         /\ ToldIsStored(SpeedScript(c))
         /\ c.level = 0 => Zero(SpeedScript(c))
<1> DEFINE a == Store(c.dev, c.level)
           f == Tell(c.dev, c.level)
           b == Write({f})
           s == <<a, b>>
<1>1. c.dev \in Kept /\ c.dev \in Registers /\ c.dev \in Devices /\ c.level \in Levels
  BY Constants, CommandsAre
<1>2. a \in Item /\ a.do = "store" /\ a.reg = c.dev /\ a.val = c.level
  BY <1>1, ItemsAre
<1>3. b \in Item /\ b.do = "write" /\ b.frames = {f}
  BY <1>1, ItemsAre
<1>4. DOMAIN f = {c.dev} /\ f[c.dev] = c.level /\ {f} \in FrameSets
  BY <1>1, TellIs
<1>5. SpeedScript(c) = s
  BY DEF SpeedScript
<1> HIDE DEF a, f, b
<1>6. s \in Seq(Item) /\ DOMAIN s = 1 .. 2 /\ Len(s) = 2 /\ s[1] = a /\ s[2] = b
  BY <1>2, <1>3
<1> HIDE DEF s
<1>7. ToldAsStored(s)
  <2>1. Tells(s[2], c.dev, c.level)
    BY <1>3, <1>4, <1>6 DEF Tells
  <2>2. \A i \in 1 .. 2 - 1 : i = 1
    OBVIOUS
  <2>3. \A i \in 2 .. Len(s) : i = 2
    BY <1>6
  <2>4. s[2].frames \in FrameSets
    BY <1>3, <1>4, <1>6
  <2>5. 2 \in DOMAIN s
    BY <1>6
  <2>6. s[2].do # "store"
    BY <1>3, <1>6
  <2>7. s[1].do = "store" /\ s[1].reg = c.dev /\ s[1].val = c.level
    BY <1>2, <1>6
  <2>8. QED
    BY <1>6, <2>1, <2>2, <2>3, <2>4, <2>5, <2>6, <2>7, StoresThenTells
<1>t. ToldIsStored(s)
  <2>1. \A j \in DOMAIN s, d \in Kept, x \in Levels : Tells(s[j], d, x) =>
          j = 2 /\ d = c.dev /\ x = c.level
    BY <1>2, <1>3, <1>4, <1>6 DEF Tells
  <2>2. /\ s[1].do = "store" /\ s[1].reg = c.dev /\ s[1].val = c.level
        /\ 1 \in 1 .. 2 - 1 /\ \A i \in 1 .. 2 - 1 : i = 1
    BY <1>2, <1>6
  <2>3. QED
    BY <1>6, <2>1, <2>2 DEF ToldIsStored
<1>8. TanksWheels(s) /\ StopsAll(s)
  BY <1>2, <1>3, <1>6 DEF TanksWheels, StopsAll
<1>9. c.level = 0 => Zero(s)
  BY <1>2, <1>3, <1>4, <1>6 DEF Zero
<1>10. QED
  BY <1>5, <1>6, <1>7, <1>8, <1>9, <1>t DEF GoodScript

LEMMA EnableScriptIsGood ==
  EnableScript \in Seq(Item) /\ GoodScript(EnableScript) /\ ToldIsStored(EnableScript)
<1> DEFINE a == Store("wheels", 1)
           f == Tell("mode", 1)
           b == Write({f})
           s == <<a, b>>
<1>1. a \in Item /\ a.do = "store" /\ a.reg \notin Kept
  BY Constants, ItemsAre
<1>2. /\ b \in Item /\ b.do = "write" /\ b.frames = {f}
      /\ DOMAIN f = {"mode"}
  <2>1. "mode" \in Devices /\ 1 \in Levels
    BY Constants
  <2>2. QED
    BY <2>1, ItemsAre, TellIs
<1>3. EnableScript = s
  BY DEF EnableScript
<1> HIDE DEF a, b, f
<1>4. s \in Seq(Item) /\ DOMAIN s = 1 .. 2 /\ s[1] = a /\ s[2] = b
  BY <1>1, <1>2
<1> HIDE DEF s
<1>5. ToldIsStored(s)
  BY <1>1, <1>2, <1>4, Constants DEF ToldIsStored, Tells
<1>6. QED
  BY <1>1, <1>2, <1>3, <1>4, <1>5 DEF GoodScript, ToldAsStored, TanksWheels, StopsAll

LEMMA VelocityScriptIsGood ==
  ASSUME NEW c \in AllCommands
  PROVE  /\ VelocityScript(c) \in Seq(Item) /\ GoodScript(VelocityScript(c))
         /\ ToldIsStored(VelocityScript(c))
         /\ c.level = 0 => Zero(VelocityScript(c))
<1> DEFINE v == c.level
           a == Store("linear", v)
           b == Store("angular", v)
           f == Drive(v, v)
           w == Write({f})
           s == <<a, b, w>>
<1>1. v \in Levels /\ "linear" \in Registers /\ "angular" \in Registers
  BY CommandsAre DEF Registers, Wheels
<1>2. /\ a \in Item /\ a.do = "store" /\ a.reg = "linear" /\ a.val = v
      /\ b \in Item /\ b.do = "store" /\ b.reg = "angular" /\ b.val = v
  BY <1>1, ItemsAre
<1>3. w \in Item /\ w.do = "write" /\ w.frames = {f}
  BY <1>1, ItemsAre
<1>4. DOMAIN f = Wheels /\ f["linear"] = v /\ f["angular"] = v /\ {f} \in FrameSets
  BY <1>1, DriveIs
<1>5. VelocityScript(c) = s
  BY DEF VelocityScript
<1> HIDE DEF a, b, f, w
<1>6. /\ s \in Seq(Item) /\ DOMAIN s = 1 .. 3 /\ Len(s) = 3
      /\ s[1] = a /\ s[2] = b /\ s[3] = w
  BY <1>2, <1>3
<1> HIDE DEF s
<1>7. ToldAsStored(s)
  <2>1. Tells(s[3], "linear", v) /\ Tells(s[3], "angular", v)
    BY <1>3, <1>4, <1>6 DEF Tells, Wheels
  <2>2. \A i \in 1 .. 3 - 1 : i = 1 \/ i = 2
    OBVIOUS
  <2>3. \A i \in 3 .. Len(s) : i = 3
    BY <1>6
  <2>4. s[3].frames \in FrameSets
    BY <1>3, <1>4, <1>6
  <2>5. 3 \in DOMAIN s
    BY <1>6
  <2>6. s[3].do # "store"
    BY <1>3, <1>6
  <2>7. \A i \in 1 .. 3 - 1 : s[i].do = "store" /\ Tells(s[3], s[i].reg, s[i].val)
    BY <1>2, <1>6, <2>1, <2>2
  <2>8. QED
    BY <1>6, <2>3, <2>4, <2>5, <2>6, <2>7, StoresThenTells
<1>t. ToldIsStored(s)
  <2>1. \A j \in DOMAIN s, d \in Kept, x \in Levels : Tells(s[j], d, x) =>
          j = 3 /\ d \in Wheels /\ x = v
    BY <1>2, <1>3, <1>4, <1>6 DEF Tells, Wheels
  <2>2. \A i \in 1 .. 3 - 1 : s[i].do = "store" /\ s[i].val = v
    BY <1>2, <1>6
  <2>3. \A d \in Wheels : \E i \in 1 .. 3 - 1 : s[i].do = "store" /\ s[i].reg = d
    <3>1. 1 \in 1 .. 3 - 1 /\ 2 \in 1 .. 3 - 1
      OBVIOUS
    <3>2. QED
      BY <1>2, <1>6, <3>1 DEF Wheels
  <2>4. QED
    BY <1>6, <2>1, <2>2, <2>3 DEF ToldIsStored
<1>8. TanksWheels(s) /\ StopsAll(s)
  BY <1>2, <1>3, <1>6 DEF TanksWheels, StopsAll
<1>9. v = 0 => Zero(s)
  BY <1>2, <1>3, <1>4, <1>6 DEF Zero, Wheels
<1>10. QED
  BY <1>5, <1>6, <1>7, <1>8, <1>9, <1>t DEF GoodScript

LEMMA TankScriptIsGood ==
  ASSUME NEW c \in AllCommands
  PROVE  /\ TankScript(c) \in Seq(Item) /\ GoodScript(TankScript(c))
         /\ ToldIsStored(TankScript(c))
         /\ c.level = 0 => Zero(TankScript(c))
<1> DEFINE v == c.level
           f == Drive(v, v)
           a == [do |-> "tank", frames |-> {f}]
           s == <<a>>
<1>1. v \in Levels
  BY CommandsAre
<1>2. DOMAIN f = Wheels /\ f["linear"] = v /\ f["angular"] = v /\ {f} \in FrameSets
  BY <1>1, DriveIs
<1>3. TankScript(c) = s
  BY DEF TankScript
<1> HIDE DEF f
<1>4. a \in Item /\ a.do = "tank" /\ a.frames = {f}
  BY <1>2 DEF Item, TellItem
<1> HIDE DEF a
<1>5. s \in Seq(Item) /\ DOMAIN s = 1 .. 1 /\ s[1] = a
  BY <1>4
<1> HIDE DEF s
<1>6. QED
  BY <1>2, <1>3, <1>4, <1>5 DEF GoodScript, ToldAsStored, TanksWheels, StopsAll, Zero, Wheels,
     ToldIsStored, Tells

LEMMA DisableScriptIsGood ==
  /\ DisableScript \in Seq(Item) /\ GoodScript(DisableScript)
  /\ ToldIsStored(DisableScript) /\ Zero(DisableScript)
<1> DEFINE a == Store("wheels", 0)
           b == Store("linear", 0)
           c == Store("angular", 0)
           f == Drive(0, 0)
           w == Write({f})
           g == Tell("mode", 0)
           m == Write({g})
           s == <<a, b, c, w, m>>
<1>1. /\ 0 \in Levels /\ "linear" \in Registers /\ "angular" \in Registers
      /\ "wheels" \in Registers \ Kept /\ "mode" \in Devices
  BY Constants DEF Registers, Wheels
<1>2. /\ a \in Item /\ a.do = "store" /\ a.reg = "wheels" /\ a.val = 0
      /\ b \in Item /\ b.do = "store" /\ b.reg = "linear" /\ b.val = 0
      /\ c \in Item /\ c.do = "store" /\ c.reg = "angular" /\ c.val = 0
  BY <1>1, ItemsAre
<1>3. /\ w \in Item /\ w.do = "write" /\ w.frames = {f}
      /\ m \in Item /\ m.do = "write" /\ m.frames = {g}
  BY <1>1, ItemsAre
<1>4. /\ DOMAIN f = Wheels /\ f["linear"] = 0 /\ f["angular"] = 0 /\ {f} \in FrameSets
      /\ DOMAIN g = {"mode"} /\ g["mode"] = 0
  BY <1>1, DriveIs, TellIs
<1>5. DisableScript = s
  BY DEF DisableScript
<1> HIDE DEF a, b, c, f, w, g, m
<1>6. /\ s \in Seq(Item) /\ DOMAIN s = 1 .. 5 /\ Len(s) = 5
      /\ s[1] = a /\ s[2] = b /\ s[3] = c /\ s[4] = w /\ s[5] = m
  BY <1>2, <1>3
<1> HIDE DEF s
<1>7. ToldAsStored(s)
  <2>1. Tells(s[4], "linear", 0) /\ Tells(s[4], "angular", 0)
    BY <1>3, <1>4, <1>6 DEF Tells, Wheels
  <2>2. \A i \in 1 .. 4 - 1 : i = 1 \/ i = 2 \/ i = 3
    OBVIOUS
  <2>3. \A i \in 4 .. Len(s) : i = 4 \/ i = 5
    BY <1>6
  <2>4. s[4].frames \in FrameSets
    BY <1>3, <1>4, <1>6
  <2>5. 4 \in DOMAIN s
    BY <1>6
  <2>6. s[4].do # "store" /\ s[5].do # "store"
    BY <1>3, <1>6
  <2>7. \A i \in 1 .. 4 - 1 :
          s[i].do = "store" /\ (s[i].reg \in Kept => Tells(s[4], s[i].reg, s[i].val))
    BY <1>1, <1>2, <1>6, <2>1, <2>2
  <2>8. QED
    BY <1>6, <2>3, <2>4, <2>5, <2>6, <2>7, StoresThenTells
<1>t. ToldIsStored(s)
  <2>1. \A j \in DOMAIN s, d \in Kept, x \in Levels : Tells(s[j], d, x) =>
          j = 4 /\ d \in Wheels /\ x = 0
    BY <1>2, <1>3, <1>4, <1>6, Constants DEF Tells, Wheels
  <2>2. \A i \in 1 .. 4 - 1 : s[i].do = "store" /\ s[i].val = 0
    BY <1>2, <1>6
  <2>3. \A d \in Wheels : \E i \in 1 .. 4 - 1 : s[i].do = "store" /\ s[i].reg = d
    <3>1. 2 \in 1 .. 4 - 1 /\ 3 \in 1 .. 4 - 1
      OBVIOUS
    <3>2. QED
      BY <1>2, <1>6, <3>1 DEF Wheels
  <2>4. QED
    BY <1>6, <2>1, <2>2, <2>3 DEF ToldIsStored
<1>8. TanksWheels(s) /\ StopsAll(s)
  BY <1>2, <1>3, <1>6 DEF TanksWheels, StopsAll
<1>9. Zero(s)
  BY <1>2, <1>3, <1>4, <1>6 DEF Zero, Wheels
<1>10. QED
  BY <1>5, <1>6, <1>7, <1>8, <1>9, <1>t DEF GoodScript

LEMMA LidarOnScriptIsGood ==
  LidarOnScript \in Seq(Item) /\ GoodScript(LidarOnScript) /\ ToldIsStored(LidarOnScript)
<1> DEFINE g == Tell("power", 1)
           p == Write({g})
           a == Store("lidar", 1)
           f == Tell("lidar", 1)
           w == Write({f})
           s == <<p, a, w>>
<1>1. 1 \in Levels /\ "lidar" \in Registers /\ "lidar" \in Devices /\ "power" \in Devices
  BY Constants
<1>2. a \in Item /\ a.do = "store" /\ a.reg = "lidar" /\ a.val = 1
  BY <1>1, ItemsAre
<1>3. /\ p \in Item /\ p.do = "write" /\ p.frames = {g}
      /\ w \in Item /\ w.do = "write" /\ w.frames = {f}
  BY <1>1, ItemsAre
<1>4. DOMAIN f = {"lidar"} /\ f["lidar"] = 1 /\ DOMAIN g = {"power"}
  BY <1>1, TellIs
<1>5. LidarOnScript = s
  BY DEF LidarOnScript
<1> HIDE DEF a, f, g, w, p
<1>6. s \in Seq(Item) /\ DOMAIN s = 1 .. 3 /\ s[1] = p /\ s[2] = a /\ s[3] = w
  BY <1>2, <1>3
<1> HIDE DEF s
<1>7. ToldAsStored(s)
  <2>1. Tells(s[3], "lidar", 1)
    BY <1>3, <1>4, <1>6 DEF Tells
  <2>2. \A i \in 1 .. 3 : s[i].do = "store" => i = 2
    BY <1>3, <1>6
  <2>3. \A k \in 2 .. 3 - 1 : k = 2
    OBVIOUS
  <2>4. QED
    BY <1>2, <1>6, <2>1, <2>2, <2>3 DEF ToldAsStored
<1>t. ToldIsStored(s)
  <2>1. \A j \in DOMAIN s, d \in Kept, x \in Levels : Tells(s[j], d, x) =>
          j = 3 /\ d = "lidar" /\ x = 1
    BY <1>2, <1>3, <1>4, <1>6, Constants DEF Tells
  <2>2. /\ s[1].do # "store" /\ s[2].do = "store" /\ s[2].reg = "lidar" /\ s[2].val = 1
        /\ 2 \in 1 .. 3 - 1 /\ \A i \in 1 .. 3 - 1 : i = 1 \/ i = 2
    BY <1>2, <1>3, <1>6
  <2>3. QED
    BY <1>6, <2>1, <2>2 DEF ToldIsStored
<1>8. TanksWheels(s) /\ StopsAll(s)
  BY <1>2, <1>3, <1>6 DEF TanksWheels, StopsAll
<1>9. QED
  BY <1>5, <1>6, <1>7, <1>8, <1>t DEF GoodScript

LEMMA LidarOffScriptIsGood ==
  /\ LidarOffScript \in Seq(Item) /\ GoodScript(LidarOffScript)
  /\ ToldIsStored(LidarOffScript) /\ Zero(LidarOffScript)
<1> DEFINE a == Store("lidar", 0)
           f == Tell("lidar", 0)
           w == Write({f})
           g == Tell("power", 0)
           p == Write({g})
           s == <<a, w, p>>
<1>1. 0 \in Levels /\ "lidar" \in Registers /\ "lidar" \in Devices /\ "power" \in Devices
  BY Constants
<1>2. a \in Item /\ a.do = "store" /\ a.reg = "lidar" /\ a.val = 0
  BY <1>1, ItemsAre
<1>3. /\ w \in Item /\ w.do = "write" /\ w.frames = {f}
      /\ p \in Item /\ p.do = "write" /\ p.frames = {g}
  BY <1>1, ItemsAre
<1>4. /\ DOMAIN f = {"lidar"} /\ f["lidar"] = 0
      /\ DOMAIN g = {"power"} /\ g["power"] = 0
  BY <1>1, TellIs
<1>5. LidarOffScript = s
  BY DEF LidarOffScript
<1> HIDE DEF a, f, w, g, p
<1>6. s \in Seq(Item) /\ DOMAIN s = 1 .. 3 /\ s[1] = a /\ s[2] = w /\ s[3] = p
  BY <1>2, <1>3
<1> HIDE DEF s
<1>7. ToldAsStored(s)
  <2>1. Tells(s[2], "lidar", 0)
    BY <1>3, <1>4, <1>6 DEF Tells
  <2>2. \A i \in 1 .. 3 : s[i].do = "store" => i = 1
    BY <1>3, <1>6
  <2>3. \A k \in 1 .. 2 - 1 : k = 1
    OBVIOUS
  <2>4. QED
    BY <1>2, <1>6, <2>1, <2>2, <2>3 DEF ToldAsStored
<1>t. ToldIsStored(s)
  <2>1. \A j \in DOMAIN s, d \in Kept, x \in Levels : Tells(s[j], d, x) =>
          j = 2 /\ d = "lidar" /\ x = 0
    BY <1>2, <1>3, <1>4, <1>6, Constants DEF Tells
  <2>2. /\ s[1].do = "store" /\ s[1].reg = "lidar" /\ s[1].val = 0
        /\ 1 \in 1 .. 2 - 1 /\ \A i \in 1 .. 2 - 1 : i = 1
    BY <1>2, <1>6
  <2>3. QED
    BY <1>6, <2>1, <2>2 DEF ToldIsStored
<1>8. TanksWheels(s) /\ StopsAll(s)
  BY <1>2, <1>3, <1>6 DEF TanksWheels, StopsAll
<1>9. Zero(s)
  BY <1>2, <1>3, <1>4, <1>6 DEF Zero
<1>10. QED
  BY <1>5, <1>6, <1>7, <1>8, <1>9, <1>t DEF GoodScript

\* clear_all stores a zero in every register but the mode's own ...
LEMMA ClearedIs ==
  /\ Cleared \in Seq(Item)
  /\ \A i \in DOMAIN Cleared : Cleared[i].do = "store" /\ Cleared[i].val = 0
  /\ \A r \in Registers \ {"mode"} : \E i \in DOMAIN Cleared : Cleared[i].reg = r
<1> DEFINE n == Len(Speeds)
           X == [i \in DOMAIN Speeds |-> Store(Speeds[i], 0)]
           l == Store("lidar", 0)
           u == Store("linear", 0)
           v == Store("angular", 0)
           w == Store("wheels", 0)
           m == Store("mode", 0)
           Y == <<l, u, v, w, m>>
<1>1. /\ n \in Nat /\ DOMAIN Speeds = 1 .. n /\ \A i \in 1 .. n : Speeds[i] \in Cleaners
      /\ \A k \in Cleaners : \E i \in 1 .. n : Speeds[i] = k
  BY Constants, LenProperties DEF Cleaners, ToSet
<1>2. \A r \in Registers : /\ Store(r, 0) \in Item /\ Store(r, 0).do = "store"
                           /\ Store(r, 0).reg = r /\ Store(r, 0).val = 0
  BY Constants, ItemsAre
<1>3. Cleaners \subseteq Registers /\ {"lidar", "linear", "angular", "wheels", "mode"} \subseteq Registers
  BY DEF Registers, Wheels
<1>4. /\ \A i \in 1 .. n : /\ X[i] \in Item /\ X[i].do = "store"
                           /\ X[i].reg = Speeds[i] /\ X[i].val = 0
      /\ DOMAIN X = 1 .. n
  BY <1>1, <1>2, <1>3
<1>5. X \in Seq(Item) /\ Len(X) = n
  BY <1>1, <1>4
<1>6. \A e \in {l, u, v, w, m} : e \in Item /\ e.do = "store" /\ e.val = 0
  BY <1>2, <1>3
<1>7. /\ l.reg = "lidar" /\ u.reg = "linear" /\ v.reg = "angular"
      /\ w.reg = "wheels" /\ m.reg = "mode"
  BY <1>2, <1>3
<1>8. Cleared = X \o Y
  BY DEF Cleared
<1> HIDE DEF X, l, u, v, w, m, n
<1>9. /\ Y \in Seq(Item) /\ Len(Y) = 5
      /\ Y[1] = l /\ Y[2] = u /\ Y[3] = v /\ Y[4] = w /\ Y[5] = m
  BY <1>6
<1> HIDE DEF Y
<1>10. /\ X \o Y \in Seq(Item) /\ DOMAIN (X \o Y) = 1 .. n + 5
       /\ \A i \in 1 .. n : (X \o Y)[i] = X[i]
       /\ \A i \in 1 .. 5 : (X \o Y)[n + i] = Y[i]
  <2>1. /\ X \o Y \in Seq(Item) /\ Len(X \o Y) = n + 5
        /\ \A i \in 1 .. n + 5 : (X \o Y)[i] = IF i <= n THEN X[i] ELSE Y[i - n]
    <3>1. /\ X \o Y \in Seq(Item) /\ Len(X \o Y) = Len(X) + Len(Y)
          /\ \A i \in 1 .. Len(X) + Len(Y) :
               (X \o Y)[i] = IF i <= Len(X) THEN X[i] ELSE Y[i - Len(X)]
      BY <1>5, <1>9, ConcatProperties
    <3>2. QED
      BY <1>5, <1>9, <3>1
  <2>2. \A i \in 1 .. 5 : n + i \in 1 .. n + 5 /\ ~(n + i <= n) /\ (n + i) - n = i
    BY <1>1
  <2>3. \A i \in 1 .. n : i \in 1 .. n + 5 /\ i <= n
    BY <1>1
  <2>4. DOMAIN (X \o Y) = 1 .. n + 5
    BY <2>1, LenProperties
  <2>5. QED
    BY <2>1, <2>2, <2>3, <2>4
<1>11. \A i \in 1 .. n + 5 : i \in 1 .. n \/ \E j \in 1 .. 5 : i = n + j
  <2>1. \A i \in 1 .. n + 5 : i \in 1 .. n \/ (i - n \in 1 .. 5 /\ i = n + (i - n))
    BY <1>1
  <2>2. QED
    BY <2>1
<1>12. \A j \in 1 .. 5 : Y[j] \in {l, u, v, w, m}
  BY <1>9
<1>13. \A i \in 1 .. n + 5 : (X \o Y)[i].do = "store" /\ (X \o Y)[i].val = 0
  BY <1>4, <1>6, <1>10, <1>11, <1>12
<1>14. ASSUME NEW r \in Registers \ {"mode"} PROVE \E i \in 1 .. n + 5 : (X \o Y)[i].reg = r
  <2>1. CASE r \in Cleaners
    <3>1. PICK i \in 1 .. n : Speeds[i] = r
      BY <1>1, <2>1
    <3>2. i \in 1 .. n + 5
      BY <1>1
    <3>3. QED
      BY <1>4, <1>10, <3>1, <3>2
  <2>2. CASE r \in {"lidar", "linear", "angular", "wheels"}
    <3>1. \E j \in 1 .. 5 : Y[j].reg = r
      BY <1>7, <1>9, <2>2
    <3>2. \A j \in 1 .. 5 : n + j \in 1 .. n + 5
      BY <1>1
    <3>3. QED
      BY <1>10, <3>1, <3>2
  <2>3. QED
    BY <2>1, <2>2 DEF Registers, Wheels
<1>15. QED
  BY <1>8, <1>10, <1>13, <1>14

\* ... and the emergency stop comes behind it.
LEMMA ResetScriptIs ==
  /\ ResetScript \in Seq(Item) /\ GoodScript(ResetScript)
  /\ ToldIsStored(ResetScript) /\ Zero(ResetScript)
  /\ \A j \in DOMAIN ResetScript : ResetScript[j].do = "stop" =>
       \A r \in Registers \ {"mode"} : \E i \in 1 .. j - 1 : ResetScript[i].reg = r
<1> DEFINE n == Len(Cleared) + 1
           s == ResetScript
<1>1. /\ Cleared \in Seq(Item) /\ DOMAIN Cleared = 1 .. n - 1 /\ n \in Nat /\ n >= 1
      /\ n - 1 = Len(Cleared)
  BY ClearedIs, LenProperties
<1>2. <<Stop>> \in Seq(Item) /\ Len(<<Stop>>) = 1 /\ <<Stop>>[1] = Stop
  BY StopIs DEF Item
<1>3. /\ s \in Seq(Item) /\ Len(s) = n /\ DOMAIN s = 1 .. n /\ s[n] = Stop
      /\ \A i \in 1 .. n - 1 : s[i] = Cleared[i]
  <2>1. /\ s \in Seq(Item) /\ Len(s) = Len(Cleared) + Len(<<Stop>>)
        /\ \A i \in 1 .. Len(Cleared) + Len(<<Stop>>) :
             s[i] = IF i <= Len(Cleared) THEN Cleared[i] ELSE <<Stop>>[i - Len(Cleared)]
    BY <1>1, <1>2, ConcatProperties DEF ResetScript
  <2>2. QED
    BY <1>1, <1>2, <2>1, LenProperties
<1> HIDE DEF n, s
<1>4. \A i \in 1 .. n - 1 : s[i].do = "store" /\ s[i].val = 0 /\ s[i] \in Item
  BY <1>1, <1>3, ClearedIs, ElementOfSeq
<1>5. \A i \in 1 .. n - 1 : s[i] \in StoreItem
  BY <1>4 DEF Item, TellItem
<1>6. ToldAsStored(s)
  <2>1. \A r \in Kept : Tells(s[n], r, 0)
    BY <1>3, StopIs, Constants DEF Tells
  <2>2. \A i \in 1 .. n - 1 :
          s[i].do = "store" /\ (s[i].reg \in Kept => Tells(s[n], s[i].reg, s[i].val))
    BY <1>4, <2>1
  <2>3. s[n].frames \in FrameSets /\ n \in DOMAIN s
    BY <1>1, <1>3, StopIs DEF TellItem
  <2>4. \A i \in n .. Len(s) : s[i].do # "store"
    BY <1>1, <1>3, StopIs
  <2>5. QED
    BY <1>3, <2>2, <2>3, <2>4, StoresThenTells
<1>7. \A j \in DOMAIN s : s[j].do # "store" => j = n
  BY <1>1, <1>3, <1>4
<1>8. Zero(s)
  BY <1>1, <1>3, <1>4, <1>7, StopIs DEF Zero
<1>9. TanksWheels(s) /\ StopsAll(s)
  BY <1>3, <1>4, <1>7, <1>8, StopIs DEF TanksWheels, StopsAll
<1>10. \A r \in Registers \ {"mode"} : \E i \in 1 .. n - 1 : s[i].reg = r
  BY <1>1, <1>3, ClearedIs
<1>t. ToldIsStored(s)
  <2>1. \A d \in Devices, x \in Levels : Tells(Stop, d, x) => x = 0
    BY StopIs DEF Tells
  <2>2. \A j \in DOMAIN s, d \in Kept, x \in Levels : Tells(s[j], d, x) => j = n /\ x = 0
    BY <1>3, <1>7, <2>1, Constants DEF Tells
  <2>3. \A d \in Kept : \E i \in 1 .. n - 1 : s[i].do = "store" /\ s[i].reg = d
    BY <1>4, <1>10, Constants
  <2>4. QED
    BY <1>4, <2>2, <2>3 DEF ToldIsStored
<1>11. QED
  BY <1>3, <1>6, <1>7, <1>8, <1>9, <1>10, <1>t DEF GoodScript, s

\* Every handler runs a good script, and only what asks for something is not zero.
LEMMA ScriptsAre ==
  ASSUME NEW c \in Commands
  PROVE  /\ Script(c) \in Seq(Item) /\ GoodScript(Script(c)) /\ ToldIsStored(Script(c))
         /\ ~Asks(c) => Zero(Script(c))
<1>1. c \in AllCommands
  BY Gd32Assumption
<1>2. CASE c.op = "speed"
  BY <1>1, <1>2, SpeedScriptIsGood DEF Script, Asks
<1>3. CASE c.op = "velocity"
  BY <1>1, <1>3, VelocityScriptIsGood DEF Script, Asks
<1>4. CASE c.op = "tank"
  BY <1>1, <1>4, TankScriptIsGood DEF Script, Asks
<1>5. CASE c.op = "enable"
  BY <1>5, EnableScriptIsGood DEF Script, Asks
<1>6. CASE c.op = "disable"
  BY <1>6, DisableScriptIsGood DEF Script
<1>7. CASE c.op = "lidar_on"
  BY <1>7, LidarOnScriptIsGood DEF Script, Asks
<1>8. CASE c.op = "lidar_off"
  BY <1>8, LidarOffScriptIsGood DEF Script
<1>9. CASE c.op = "reset"
  BY <1>9, ResetScriptIs DEF Script
<1>10. QED
  BY <1>1, <1>2, <1>3, <1>4, <1>5, <1>6, <1>7, <1>8, <1>9, CommandsAre

\* Only the emergency stop's script has a stop, behind a store of every register.
LEMMA ScriptsStop ==
  ASSUME NEW c \in Commands, NEW j \in DOMAIN Script(c), Script(c)[j].do = "stop"
  PROVE  \A r \in Registers \ {"mode"} : \E i \in 1 .. j - 1 : Script(c)[i].reg = r
<1>1. c \in AllCommands
  BY Gd32Assumption
<1>2. CASE c.op = "reset"
  BY <1>2, ResetScriptIs DEF Script
<1>3. c.op = "reset"
  <2>1. \A r, v : Store(r, v).do # "stop"
    BY DEF Store
  <2>2. \A F : Write(F).do # "stop"
    BY DEF Write
  <2>3. QED
    BY <1>1, <2>1, <2>2, CommandsAre DEF Script, SpeedScript, VelocityScript, TankScript,
       EnableScript, DisableScript, LidarOnScript, LidarOffScript
<1>4. QED
  BY <1>2, <1>3

\* What is left of a good script is one.
LEMMA TailIsGood ==
  ASSUME NEW s \in Seq(Item), s # <<>>
  PROVE  /\ Tail(s) \in Seq(Item)
         /\ GoodScript(s) => GoodScript(Tail(s))
         /\ Zero(s) => Zero(Tail(s))
<1> DEFINE t == Tail(s)
<1>1. /\ t \in Seq(Item) /\ DOMAIN s = 1 .. Len(s) /\ DOMAIN t = 1 .. Len(s) - 1
      /\ Len(s) \in Nat /\ \A i \in 1 .. Len(s) - 1 : t[i] = s[i + 1] /\ i + 1 \in DOMAIN s
  BY HeadTailProperties, LenProperties
<1> HIDE DEF t
<1>2. Zero(s) => Zero(t)
  BY <1>1 DEF Zero
<1>3. ASSUME ToldAsStored(s) PROVE ToldAsStored(t)
  <2> SUFFICES ASSUME NEW i \in DOMAIN t, t[i].do = "store", t[i].reg \in Kept
               PROVE  \E j \in DOMAIN t :
                        /\ i < j /\ Tells(t[j], t[i].reg, t[i].val)
                        /\ \A k \in i .. j - 1 :
                             t[k].do = "store" /\ (t[k].reg = t[i].reg => t[k].val = t[i].val)
    BY DEF ToldAsStored
  <2>0. i + 1 \in DOMAIN s /\ s[i + 1] = t[i]
    BY <1>1
  <2>1. PICK j \in DOMAIN s :
             /\ i + 1 < j /\ Tells(s[j], t[i].reg, t[i].val)
             /\ \A k \in i + 1 .. j - 1 :
                  s[k].do = "store" /\ (s[k].reg = t[i].reg => s[k].val = t[i].val)
    BY <1>3, <2>0 DEF ToldAsStored
  <2>2. j - 1 \in DOMAIN t /\ i < j - 1 /\ t[j - 1] = s[j]
    BY <1>1, <2>1
  <2>3. \A k \in i .. (j - 1) - 1 : t[k] = s[k + 1] /\ k + 1 \in i + 1 .. j - 1
    BY <1>1, <2>1, <2>2
  <2>4. QED
    BY <2>1, <2>2, <2>3
<1>4. TanksWheels(s) => TanksWheels(t)
  BY <1>1 DEF TanksWheels
<1>5. ASSUME StopsAll(s) PROVE StopsAll(t)
  <2> SUFFICES ASSUME NEW j \in DOMAIN t, t[j].do = "stop"
               PROVE  /\ Zero(t)
                      /\ \A i \in 1 .. j - 1 : t[i].do = "store"
                      /\ \A d \in Devices : \E f \in t[j].frames : d \in DOMAIN f
    BY DEF StopsAll
  <2>1. s[j + 1] = t[j] /\ j + 1 \in DOMAIN s
    BY <1>1
  <2>2. \A i \in 1 .. j - 1 : t[i] = s[i + 1] /\ i + 1 \in 1 .. (j + 1) - 1
    BY <1>1
  <2>3. QED
    BY <1>2, <1>5, <2>1, <2>2 DEF StopsAll
<1>6. QED
  BY <1>1, <1>2, <1>3, <1>4, <1>5 DEF GoodScript, t

LEMMA NothingIsGood == <<>> \in Seq(Item) /\ GoodScript(<<>>) /\ Zero(<<>>)
BY DEF GoodScript, ToldAsStored, TanksWheels, StopsAll, Zero

\* A cycle reads what it keeps before what any_active is about, and keeps all that
\* the heartbeat repeats.
LEMMA ReadsAre ==
  /\ Reads \in Seq(Reading) /\ Reads # <<>>
  /\ \A i, j \in DOMAIN Reads : i < j /\ Reads[j].keep => Reads[i].keep
  /\ \A d \in Kept : \E i \in DOMAIN Reads : Reads[i].keep /\ Reads[i].reg = d
<1> DEFINE n == Len(Speeds)
           N == <<"lidar", "linear", "angular">>
           W == [i \in 1 .. 3 |-> [reg |-> N[i], keep |-> TRUE]]
           V == <<[reg |-> "lidar", keep |-> FALSE], [reg |-> "wheels", keep |-> FALSE]>>
<1>1. /\ n \in Nat /\ DOMAIN Speeds = 1 .. n /\ \A i \in 1 .. n : Speeds[i] \in Cleaners
      /\ \A k \in Cleaners : \E i \in 1 .. n : Speeds[i] = k
  BY Constants, LenProperties DEF Cleaners, ToSet
<1>2. /\ DOMAIN SpeedReads = 1 .. n
      /\ \A i \in 1 .. n : SpeedReads[i] = [reg |-> Speeds[i], keep |-> TRUE]
  BY <1>1 DEF SpeedReads
<1>3. \A r \in Kept : /\ [reg |-> r, keep |-> TRUE] \in Reading
                     /\ [reg |-> r, keep |-> TRUE].keep
  BY Constants DEF Reading
<1>4. \A r \in Registers \ {"mode"} : /\ [reg |-> r, keep |-> FALSE] \in Reading
                                     /\ ~[reg |-> r, keep |-> FALSE].keep
  BY DEF Reading
<1>5. /\ SpeedReads \in Seq(Reading) /\ Len(SpeedReads) = n
      /\ \A i \in 1 .. n : SpeedReads[i].keep /\ SpeedReads[i].reg = Speeds[i]
  <2>1. \A i \in 1 .. n : Speeds[i] \in Kept
    BY <1>1, Constants
  <2>2. \A i \in 1 .. n : SpeedReads[i] \in Reading /\ SpeedReads[i].keep
    BY <1>2, <1>3, <2>1
  <2>3. SpeedReads \in Seq(Reading) /\ Len(SpeedReads) = n
    BY <1>1, <1>2, <2>2 DEF SpeedReads
  <2>4. QED
    BY <1>2, <2>2, <2>3
<1>6. /\ W \in Seq(Reading) /\ Len(W) = 3 /\ \A i \in 1 .. 3 : W[i].keep
      /\ W[1].reg = "lidar" /\ W[2].reg = "linear" /\ W[3].reg = "angular"
  <2>1. N[1] = "lidar" /\ N[2] = "linear" /\ N[3] = "angular"
    OBVIOUS
  <2> HIDE DEF N
  <2>2. N[1] \in Kept /\ N[2] \in Kept /\ N[3] \in Kept
    BY <2>1, Constants DEF Wheels
  <2>3. /\ DOMAIN W = 1 .. 3
        /\ \A i \in 1 .. 3 : W[i] = [reg |-> N[i], keep |-> TRUE]
    OBVIOUS
  <2>4. \A i \in 1 .. 3 : N[i] \in Kept
    BY <2>2
  <2>5. \A i \in 1 .. 3 : W[i] \in Reading /\ W[i].keep
    BY <1>3, <2>3, <2>4
  <2>6. W \in Seq(Reading) /\ Len(W) = 3
    BY <2>3, <2>5
  <2>7. \A i \in 1 .. 3 : W[i].reg = N[i]
    BY <2>3
  <2>8. QED
    BY <2>1, <2>5, <2>6, <2>7
<1>7. /\ ActiveReads \in Seq(Reading)
      /\ \A i \in DOMAIN ActiveReads : ~ActiveReads[i].keep
  <2> DEFINE U == [i \in DOMAIN Speeds |-> [reg |-> Speeds[i], keep |-> FALSE]]
  <2>1. /\ DOMAIN U = 1 .. n
        /\ \A i \in 1 .. n : U[i] = [reg |-> Speeds[i], keep |-> FALSE]
    BY <1>1
  <2>2. \A i \in 1 .. n : Speeds[i] \in Registers \ {"mode"}
    BY <1>1, Constants
  <2>3. \A i \in 1 .. n : U[i] \in Reading /\ ~U[i].keep
    BY <1>4, <2>1, <2>2
  <2>4. U \in Seq(Reading) /\ Len(U) = n
    BY <1>1, <2>1, <2>3
  <2>5. "lidar" \in Registers \ {"mode"} /\ "wheels" \in Registers \ {"mode"}
    BY Constants
  <2>6. V \in Seq(Reading) /\ Len(V) = 2 /\ ~V[1].keep /\ ~V[2].keep
    BY <1>4, <2>5
  <2>7. ActiveReads = U \o V
    BY DEF ActiveReads
  <2> HIDE DEF U, V
  <2>8. /\ U \o V \in Seq(Reading) /\ Len(U \o V) = Len(U) + Len(V)
        /\ \A i \in 1 .. Len(U) + Len(V) :
             (U \o V)[i] = IF i <= Len(U) THEN U[i] ELSE V[i - Len(U)]
    <3>1. U \in Seq(Reading) /\ V \in Seq(Reading)
      BY <2>4, <2>6
    <3>2. QED
      BY <3>1, ConcatProperties
  <2>9. DOMAIN (U \o V) = 1 .. n + 2
    BY <2>4, <2>6, <2>8, LenProperties
  <2>10. \A i \in 1 .. n + 2 : i \in 1 .. n \/ i - n = 1 \/ i - n = 2
    BY <1>1
  <2>11. ASSUME NEW i \in 1 .. n + 2 PROVE ~(U \o V)[i].keep
    BY <1>1, <2>3, <2>4, <2>6, <2>8, <2>10
  <2>12. QED
    BY <2>7, <2>8, <2>9, <2>11
<1> HIDE DEF W
<1>8. FirstReads = SpeedReads \o W
  BY DEF FirstReads, W
<1>9. /\ FirstReads \in Seq(Reading) /\ Len(FirstReads) = n + 3
      /\ \A i \in 1 .. n + 3 :
           FirstReads[i] = IF i <= n THEN SpeedReads[i] ELSE W[i - n]
  <2>1. /\ SpeedReads \o W \in Seq(Reading)
        /\ Len(SpeedReads \o W) = Len(SpeedReads) + Len(W)
        /\ \A i \in 1 .. Len(SpeedReads) + Len(W) : (SpeedReads \o W)[i] =
              IF i <= Len(SpeedReads) THEN SpeedReads[i] ELSE W[i - Len(SpeedReads)]
    <3>1. SpeedReads \in Seq(Reading) /\ W \in Seq(Reading)
      BY <1>5, <1>6
    <3>2. QED
      BY <3>1, ConcatProperties
  <2>2. QED
    BY <1>5, <1>6, <1>8, <2>1
<1>10. \A i \in 1 .. n + 3 : FirstReads[i].keep
  <2>1. \A i \in 1 .. n + 3 : i \in 1 .. n \/ (~(i <= n) /\ i - n \in 1 .. 3)
    BY <1>1
  <2>2. \A i \in 1 .. n : i <= n
    BY <1>1
  <2>3. QED
    BY <1>5, <1>6, <1>9, <2>1, <2>2
<1>11. \A d \in Kept : \E i \in 1 .. n + 3 : FirstReads[i].reg = d
  <2>1. \A i \in 1 .. 3 : n + i \in 1 .. n + 3 /\ ~(n + i <= n) /\ (n + i) - n = i
    BY <1>1
  <2>2. \A i \in 1 .. 3 : FirstReads[n + i] = W[i]
    BY <1>9, <2>1
  <2>3. \A i \in 1 .. n : i \in 1 .. n + 3 /\ FirstReads[i] = SpeedReads[i]
    BY <1>1, <1>9
  <2>4. \A d \in Cleaners : \E i \in 1 .. n + 3 : FirstReads[i].reg = d
    BY <1>1, <1>5, <2>3
  <2>5. \A d \in Wheels \cup {"lidar"} : \E i \in 1 .. 3 : W[i].reg = d
    BY <1>6 DEF Wheels
  <2>6. \A d \in Wheels \cup {"lidar"} : \E i \in 1 .. n + 3 : FirstReads[i].reg = d
    BY <2>1, <2>2, <2>5
  <2>7. QED
    BY <2>4, <2>6 DEF Kept
<1>12. Reads = FirstReads \o ActiveReads
  BY DEF Reads
<1>13. /\ Reads \in Seq(Reading) /\ Len(Reads) = n + 3 + Len(ActiveReads)
       /\ \A i \in 1 .. n + 3 + Len(ActiveReads) :
            Reads[i] = IF i <= n + 3 THEN FirstReads[i] ELSE ActiveReads[i - (n + 3)]
  <2>1. /\ FirstReads \o ActiveReads \in Seq(Reading)
        /\ Len(FirstReads \o ActiveReads) = Len(FirstReads) + Len(ActiveReads)
        /\ \A i \in 1 .. Len(FirstReads) + Len(ActiveReads) :
              (FirstReads \o ActiveReads)[i] =
                IF i <= Len(FirstReads) THEN FirstReads[i] ELSE ActiveReads[i - Len(FirstReads)]
    BY <1>7, <1>9, ConcatProperties
  <2>2. QED
    BY <1>9, <1>12, <2>1
<1>14. Len(ActiveReads) \in Nat /\ DOMAIN ActiveReads = 1 .. Len(ActiveReads)
  BY <1>7, LenProperties
<1>15. DOMAIN Reads = 1 .. n + 3 + Len(ActiveReads)
  BY <1>13, LenProperties
<1>16. \A i \in DOMAIN Reads : Reads[i].keep => i \in 1 .. n + 3
  <2> SUFFICES ASSUME NEW i \in DOMAIN Reads, i \notin 1 .. n + 3 PROVE ~Reads[i].keep
    OBVIOUS
  <2>1. ~(i <= n + 3) /\ i - (n + 3) \in DOMAIN ActiveReads
    BY <1>1, <1>14, <1>15
  <2>2. QED
    BY <1>7, <1>13, <1>15, <2>1
<1>17. \A i \in 1 .. n + 3 : i \in DOMAIN Reads /\ Reads[i] = FirstReads[i]
  BY <1>1, <1>13, <1>14, <1>15
<1>18. \A i, j \in DOMAIN Reads : i < j /\ Reads[j].keep => Reads[i].keep
  <2>1. \A i, j \in DOMAIN Reads : i < j /\ j \in 1 .. n + 3 => i \in 1 .. n + 3
    BY <1>1, <1>14, <1>15
  <2>2. QED
    BY <1>10, <1>16, <1>17, <2>1
<1>19. Reads # <<>>
  BY <1>1, <1>13, <1>14
<1>20. QED
  BY <1>10, <1>11, <1>13, <1>17, <1>18, <1>19

-----------------------------------------------------------------------------
(***************************************************************************)
(* Every step keeps the types.                                             *)
(***************************************************************************)

\* What is heard, or need not be: a device that is not apart does what it has been
\* told, if it has been told something, and what it did before if not.
LEMMA HearsIs ==
  ASSUME out \in [Devices -> Levels], NEW F \in FrameSets, NEW heard \in Received(F),
         Hears(F, heard)
  PROVE  /\ out' \in [Devices -> Levels] /\ apart' \subseteq Devices
         /\ \A d \in Devices \ apart' :
              /\ \A f \in F : d \in DOMAIN f => out'[d] = f[d]
              /\ (\A f \in F : d \notin DOMAIN f) => d \notin apart /\ out'[d] = out[d]
<1>1. heard \in SUBSET F /\ out' = Heard(heard)
  BY DEF Received, Hears
<1>2. apart' = {d \in Devices :
                  /\ \A f \in heard : d \notin DOMAIN f
                  /\ d \in apart \/ \E f \in F : d \in DOMAIN f /\ f[d] # out[d]}
  BY DEF Hears
<1>3. /\ out' \in [Devices -> Levels]
      /\ \A d \in Devices :
           /\ (\A f \in heard : d \notin DOMAIN f) => out'[d] = out[d]
           /\ \A f \in heard : d \in DOMAIN f => out'[d] = f[d]
  BY <1>1, HeardIs
<1>4. ASSUME NEW d \in Devices \ apart', NEW f \in F, d \in DOMAIN f
      PROVE  out'[d] = f[d]
  <2>1. CASE \E g \in heard : d \in DOMAIN g
    <3>1. PICK g \in heard : d \in DOMAIN g
      BY <2>1
    <3>2. g = f
      BY <1>1, <1>4, <3>1 DEF FrameSets
    <3>3. QED
      BY <1>3, <3>1, <3>2
  <2>2. CASE \A g \in heard : d \notin DOMAIN g
    BY <1>2, <1>3, <1>4, <2>2
  <2>3. QED
    BY <2>1, <2>2
<1>5. ASSUME NEW d \in Devices \ apart', \A f \in F : d \notin DOMAIN f
      PROVE  d \notin apart /\ out'[d] = out[d]
  BY <1>1, <1>2, <1>3, <1>5
<1>6. QED
  BY <1>2, <1>3, <1>4, <1>5

\* A cycle tells what it has read of what is kept, and navigation mode while that is
\* what the flag says.
LEMMA FramesAre ==
  ASSUME TypeOK
  PROVE  /\ Frames \in FrameSets
         /\ \A f \in Frames : \A d \in DOMAIN f :
              (d = "mode" /\ reg["mode"] = 1) \/ (d \in Kept /\ f[d] = seen[d])
<1> DEFINE S == {d \in Cleaners \cup {"lidar"} : seen[d] # 0}
           D == Drive(seen["linear"], seen["angular"])
           F == {Tell("mode", 1), D} \cup {Tell(d, seen[d]) : d \in S}
           At(d) == IF d = "mode" THEN Tell("mode", 1)
                    ELSE IF d \in Wheels THEN D ELSE Tell(d, seen[d])
<1>1. seen \in [Kept -> Levels]
  BY DEF TypeOK, Nothing, Kept
<1>2. /\ D \in Frame /\ DOMAIN D = Wheels
      /\ D["linear"] = seen["linear"] /\ D["angular"] = seen["angular"]
  <2>1. seen["linear"] \in Levels /\ seen["angular"] \in Levels
    BY <1>1, Constants DEF Wheels
  <2>2. QED
    BY <2>1, DriveIs
<1>3. /\ Tell("mode", 1) \in Frame /\ DOMAIN Tell("mode", 1) = {"mode"}
      /\ "mode" \notin Wheels
  BY Constants, TellIs
<1>4. \A d \in S : /\ d \in Kept /\ d # "mode" /\ d \notin Wheels
                   /\ Tell(d, seen[d]) \in Frame /\ DOMAIN Tell(d, seen[d]) = {d}
                   /\ Tell(d, seen[d])[d] = seen[d]
  <2>1. \A d \in S : d \in Kept /\ d # "mode" /\ d \notin Wheels
    BY Constants, Gd32Assumption DEF Wheels
  <2>2. \A d \in S : d \in Devices /\ seen[d] \in Levels
    BY <1>1, <2>1, Constants
  <2>3. QED
    BY <2>1, <2>2, TellIs
<1> HIDE DEF D, S
<1>5. ASSUME NEW f \in F
      PROVE  /\ f \in Frame
             /\ \A d \in DOMAIN f : /\ f = At(d)
                                    /\ d = "mode" \/ (d \in Kept /\ f[d] = seen[d])
  <2>1. CASE f = Tell("mode", 1)
    BY <1>3, <2>1
  <2>2. CASE f = D
    <3>1. \A d \in Wheels : D[d] = seen[d] /\ d # "mode" /\ d \in Kept
      BY <1>2, Constants DEF Wheels
    <3>2. QED
      BY <1>2, <2>2, <3>1
  <2>3. CASE \E d \in S : f = Tell(d, seen[d])
    BY <1>4, <2>3
  <2>4. QED
    BY <2>1, <2>2, <2>3
<1>6. \A f, g \in F : DOMAIN f \cap DOMAIN g # {} => f = g
  BY <1>5
<1>7. F \in FrameSets
  BY <1>5, <1>6 DEF FrameSets
<1>8. Refresh = F
  BY DEF Refresh, D, S
<1>9. {} \in FrameSets
  BY DEF FrameSets
<1> HIDE DEF F
<1>10. CASE reg["mode"] = 1
  BY <1>5, <1>7, <1>8, <1>10 DEF Frames
<1>11. CASE reg["mode"] # 1
  BY <1>9, <1>11 DEF Frames
<1>12. QED
  BY <1>10, <1>11

\* The item a handler runs next.
LEMMA HeadIs ==
  ASSUME TypeInv, todo # <<>>
  PROVE  /\ Head(todo) \in Item /\ Head(todo) = todo[1] /\ 1 \in DOMAIN todo
         /\ Head(todo).do = "store" => Head(todo).reg \in Registers /\ Head(todo).val \in Levels
         /\ Head(todo).do # "store" => Head(todo).frames \in FrameSets
         /\ Tail(todo) \in Seq(Item) /\ GoodScript(Tail(todo))
         /\ Zero(todo) => Zero(Tail(todo))
<1>1. todo \in Seq(Item) /\ GoodScript(todo)
  BY DEF TypeInv
<1>2. Head(todo) \in Item /\ Head(todo) = todo[1] /\ 1 \in DOMAIN todo
  BY <1>1, HeadTailProperties, LenProperties
<1>3. /\ Head(todo).do = "store" => Head(todo).reg \in Registers /\ Head(todo).val \in Levels
      /\ Head(todo).do # "store" => Head(todo).frames \in FrameSets
  BY <1>2 DEF Item, StoreItem, TellItem
<1>4. QED
  BY <1>1, <1>2, <1>3, TailIsGood

LEMMA CallTypes == ASSUME TypeInv, NEW c \in Commands, Call(c) PROVE TypeInv'
<1>1. todo' \in Seq(Item) /\ GoodScript(todo)'
  BY ScriptsAre DEF Call, GoodScript, ToldAsStored, TanksWheels, StopsAll, Zero, Tells
<1>2. TypeOK'
  BY DEF TypeInv, TypeOK, Call, hbVars, gd32Vars
<1>3. left' \in Seq(Reading) /\ (hb' = "read" => left' # <<>>)
  BY DEF TypeInv, Call, hbVars
<1>4. QED
  BY <1>1, <1>2, <1>3 DEF TypeInv

LEMMA CallerTypes == ASSUME TypeInv, Caller PROVE TypeInv'
<1> USE DEF hbVars, gd32Vars
<1>1. CASE StoreStep
  <2>1. reg' \in [Registers -> Levels]
    BY <1>1, HeadIs DEF StoreStep, TypeInv, TypeOK
  <2>2. TypeOK'
    BY <1>1, <2>1 DEF StoreStep, TypeInv, TypeOK
  <2>3. todo' \in Seq(Item) /\ GoodScript(todo')
    BY <1>1, HeadIs DEF StoreStep
  <2>4. left' \in Seq(Reading) /\ (hb' = "read" => left' # <<>>)
    BY <1>1 DEF StoreStep, TypeInv
  <2>5. QED
    BY <2>2, <2>3, <2>4 DEF TypeInv
<1>2. CASE WriteStep
  <2>1. Head(todo).frames \in FrameSets
    BY <1>2, HeadIs DEF WriteStep
  <2>2. out' \in [Devices -> Levels] /\ apart' \subseteq Devices
    BY <1>2, <2>1, HearsIs DEF WriteStep, TypeInv, TypeOK
  <2>3. TypeOK'
    BY <1>2, <2>2 DEF WriteStep, TypeInv, TypeOK
  <2>4. todo' \in Seq(Item) /\ GoodScript(todo')
    BY <1>2, HeadIs, NothingIsGood DEF WriteStep
  <2>5. left' \in Seq(Reading) /\ (hb' = "read" => left' # <<>>)
    BY <1>2 DEF WriteStep, TypeInv
  <2>6. QED
    BY <2>3, <2>4, <2>5 DEF TypeInv
<1>3. CASE TankStep
  <2>1. Head(todo).frames \in FrameSets
    BY <1>3, HeadIs DEF TankStep
  <2>2. out' \in [Devices -> Levels]
    <3>1. PICK heard \in Received(Head(todo).frames) : out' = Heard(heard)
      BY <1>3 DEF TankStep
    <3>2. heard \in SUBSET Head(todo).frames
      BY DEF Received
    <3>3. QED
      BY <2>1, <3>1, <3>2, HeardIs DEF TypeInv, TypeOK
  <2>3. apart' \subseteq Devices
    BY <1>3, Constants DEF TankStep, TypeInv, TypeOK
  <2>4. TypeOK'
    BY <1>3, <2>2, <2>3 DEF TankStep, TypeInv, TypeOK
  <2>5. todo' \in Seq(Item) /\ GoodScript(todo')
    BY <1>3, HeadIs DEF TankStep
  <2>6. left' \in Seq(Reading) /\ (hb' = "read" => left' # <<>>)
    BY <1>3 DEF TankStep, TypeInv
  <2>7. QED
    BY <2>4, <2>5, <2>6 DEF TypeInv
<1>4. CASE StopStep
  <2>1. Head(todo).frames \in FrameSets
    BY <1>4, HeadIs DEF StopStep
  <2>2. out' \in [Devices -> Levels] /\ apart' \subseteq Devices
    BY <1>4, <2>1, HearsIs DEF StopStep, TypeInv, TypeOK
  <2>3. TypeOK'
    BY <1>4, <2>2 DEF StopStep, TypeInv, TypeOK
  <2>4. todo' \in Seq(Item) /\ GoodScript(todo')
    BY <1>4, HeadIs DEF StopStep
  <2>5. left' \in Seq(Reading) /\ (hb' = "read" => left' # <<>>)
    BY <1>4 DEF StopStep, TypeInv
  <2>6. QED
    BY <2>3, <2>4, <2>5 DEF TypeInv
<1>5. CASE ShutdownEnds
  <2>1. {Drive(0, 0)} \in FrameSets
    BY Constants, DriveIs
  <2>2. out' \in [Devices -> Levels] /\ apart' \subseteq Devices
    BY <1>5, <2>1, HearsIs DEF ShutdownEnds, TypeInv, TypeOK
  <2>3. TypeOK'
    BY <1>5, <2>2 DEF ShutdownEnds, TypeInv, TypeOK
  <2>4. todo' = todo /\ left' = left /\ hb' = hb
    BY <1>5 DEF ShutdownEnds
  <2>5. QED
    BY <2>3, <2>4 DEF TypeInv
<1>6. QED
  BY <1>1, <1>2, <1>3, <1>4, <1>5 DEF Caller

\* What the heartbeat has read of a register is a level.
LEMMA ReadTypes == ASSUME TypeInv, HbRead PROVE TypeInv'
<1> USE DEF handlerVars, gd32Vars
<1> DEFINE r == Head(left)
           read == IF r.keep THEN [seen EXCEPT ![r.reg] = reg[r.reg]] ELSE seen
           done == ~r.keep /\ reg[r.reg] # 0
<1>1. left \in Seq(Reading) /\ left # <<>> /\ hb = "read"
  BY DEF TypeInv, HbRead
<1>2. Head(left) \in Reading /\ Tail(left) \in Seq(Reading)
  BY <1>1, HeadTailProperties
<1>3. r.reg \in Registers /\ r.keep \in BOOLEAN
  BY <1>2 DEF Reading
<1>4. reg[r.reg] \in Levels
  BY <1>3 DEF TypeInv, TypeOK
<1>5. read \in [DOMAIN Nothing -> Levels]
  BY <1>4 DEF TypeInv, TypeOK
<1>6. /\ seen' = read /\ active' = done /\ left' = IF done THEN <<>> ELSE Tail(left)
      /\ hb' = IF left' = <<>> THEN "switch" ELSE "read"
  BY DEF HbRead
<1>7. done \in BOOLEAN
  OBVIOUS
<1> HIDE DEF r, read, done
<1>8. left' \in Seq(Reading) /\ (hb' = "read" => left' # <<>>)
  BY <1>2, <1>6
<1>9. active' \in BOOLEAN
  BY <1>6, <1>7
<1>10. hb' \in {"read", "switch"} /\ seen' \in [DOMAIN Nothing -> Levels]
  BY <1>5, <1>6
<1>11. UNCHANGED <<reg, port, shutdown, todo, stage, reader, out, apart, calm>>
  BY DEF HbRead
<1>12. TypeOK'
  BY <1>1, <1>9, <1>10, <1>11 DEF TypeInv, TypeOK
<1>13. todo' \in Seq(Item) /\ GoodScript(todo')
  BY <1>11 DEF TypeInv
<1>14. QED
  BY <1>8, <1>12, <1>13 DEF TypeInv

LEMMA HeartbeatTypes == ASSUME TypeInv, Heartbeat PROVE TypeInv'
<1> USE DEF handlerVars, gd32Vars, CycleEnds
<1>0. /\ 0 \in Levels /\ 1 \in Levels /\ "mode" \in Registers
      /\ {Tell("mode", 1)} \in FrameSets
      /\ Nothing \in [DOMAIN Nothing -> Levels]
  BY Constants, TellIs DEF Nothing
<1>1. CASE HbWakes
  BY <1>1 DEF HbWakes, TypeInv, TypeOK
<1>2. CASE HbLock
  <2>1. left' \in Seq(Reading) /\ left' # <<>>
    BY <1>2, ReadsAre DEF HbLock
  <2>2. TypeOK'
    BY <1>2 DEF HbLock, TypeInv, TypeOK
  <2>3. todo' = todo
    BY <1>2 DEF HbLock
  <2>4. QED
    BY <2>1, <2>2, <2>3 DEF TypeInv
<1>3. CASE HbRead
  BY <1>3, ReadTypes
<1>4. CASE HbModeOn
  <2>1. out' \in [Devices -> Levels] /\ apart' \subseteq Devices
    BY <1>0, <1>4, HearsIs DEF HbModeOn, TypeInv, TypeOK
  <2>2. reg' \in [Registers -> Levels] /\ seen' \in [DOMAIN Nothing -> Levels]
    BY <1>0, <1>4 DEF HbModeOn, TypeInv, TypeOK
  <2>3. TypeOK'
    BY <1>4, <2>1, <2>2 DEF HbModeOn, TypeInv, TypeOK
  <2>4. todo' = todo /\ left' = <<>> /\ hb' = "sleep"
    BY <1>4 DEF HbModeOn
  <2>5. QED
    BY <2>3, <2>4 DEF TypeInv
<1>5. CASE HbModeOnFails
  <2>1. out' \in [Devices -> Levels] /\ apart' \subseteq Devices
    BY <1>0, <1>5, HearsIs DEF HbModeOnFails, TypeInv, TypeOK
  <2>2. TypeOK'
    BY <1>5, <2>1 DEF HbModeOnFails, TypeInv, TypeOK
  <2>3. todo' = todo /\ left' = left /\ hb' = "send"
    BY <1>5 DEF HbModeOnFails
  <2>4. QED
    BY <2>2, <2>3 DEF TypeInv
<1>6. CASE HbModeOff
  <2>1. reg' \in [Registers -> Levels]
    BY <1>0, <1>6 DEF HbModeOff, TypeInv, TypeOK
  <2>2. TypeOK'
    BY <1>6, <2>1 DEF HbModeOff, TypeInv, TypeOK
  <2>3. todo' = todo /\ left' = left /\ hb' = "send"
    BY <1>6 DEF HbModeOff
  <2>4. QED
    BY <2>2, <2>3 DEF TypeInv
<1>7. CASE HbSendSome
  <2>1. PICK heard \in Received(Frames) : HbSend(heard)
    BY <1>7 DEF HbSendSome
  <2>2. out' \in [Devices -> Levels] /\ apart' \subseteq Devices
    BY <2>1, FramesAre, HearsIs DEF HbSend, TypeInv, TypeOK
  <2>3. TypeOK'
    BY <1>0, <2>1, <2>2 DEF HbSend, TypeInv, TypeOK
  <2>4. todo' = todo /\ left' = <<>> /\ hb' = "sleep"
    BY <2>1 DEF HbSend
  <2>5. QED
    BY <2>3, <2>4 DEF TypeInv
<1>8. QED
  BY <1>1, <1>2, <1>3, <1>4, <1>5, <1>6, <1>7 DEF Heartbeat

LEMMA TypeInvStep == TypeInv /\ [Next]_vars => TypeInv'
<1> SUFFICES ASSUME TypeInv, [Next]_vars PROVE TypeInv'
  OBVIOUS
<1>1. CASE \E c \in Commands : Call(c)
  BY <1>1, CallTypes
<1>2. CASE Shutdown
  BY <1>2 DEF Shutdown, hbVars, gd32Vars, TypeInv, TypeOK
<1>3. CASE Caller
  BY <1>3, CallerTypes
<1>4. CASE Heartbeat
  BY <1>4, HeartbeatTypes
<1>5. CASE ReaderLoops
  BY <1>5 DEF ReaderLoops, handlerVars, hbVars, gd32Vars, TypeInv, TypeOK
<1>6. CASE UNCHANGED vars
  BY <1>6 DEF vars, handlerVars, hbVars, gd32Vars, TypeInv, TypeOK
<1>7. QED
  BY <1>1, <1>2, <1>3, <1>4, <1>5, <1>6 DEF Next

LEMMA TypeInvInit == Init => TypeInv
<1> SUFFICES ASSUME Init PROVE TypeInv
  OBVIOUS
<1>1. todo \in Seq(Item) /\ GoodScript(todo)
  BY NothingIsGood DEF Init
<1>2. seen \in [DOMAIN Nothing -> Levels]
  BY Constants DEF Init, Nothing
<1>3. TypeOK
  BY <1>2, Constants DEF Init, TypeOK
<1>4. QED
  BY <1>1, <1>3 DEF Init, TypeInv

\* Types are kept, and the port has one holder who is where it says: the handlers'
\* scripts, the atomics, a cycle's reads and what the GD32 has heard (state.rs,
\* heartbeat.rs, and the writes of commands.rs).
THEOREM TypeCorrect == Spec => []TypeOK
<1>1. Spec => []TypeInv
  BY TypeInvInit, TypeInvStep, PTL DEF Spec
<1>2. TypeInv => TypeOK
  BY DEF TypeInv
<1>3. QED
  BY <1>1, <1>2, PTL

-----------------------------------------------------------------------------
(***************************************************************************)
(* What is owed, and what is told.                                         *)
(***************************************************************************)

\* Nothing is owed when no handler runs, or when what it does next tells d nothing.
LEMMA NothingOwed ==
  ASSUME TypeInv, NEW d \in Kept,
         todo # <<>> => Head(todo).do # "store" /\ \A v \in Levels : ~Tells(Head(todo), d, v)
  PROVE  ~Owed(d)
<1>1. SUFFICES ASSUME Owed(d) PROVE FALSE
  OBVIOUS
<1>2. PICK j \in DOMAIN todo, v \in Levels :
        Tells(todo[j], d, v) /\ \A i \in 1 .. j - 1 : todo[i].do = "store"
  BY <1>1 DEF Owed
<1>3. todo # <<>> /\ j \in 1 .. Len(todo) /\ Head(todo) = todo[1]
  BY <1>2, HeadIs, LenProperties DEF TypeInv
<1>4. j = 1 \/ 1 \in 1 .. j - 1
  BY <1>3
<1>5. QED
  BY <1>2, <1>3, <1>4

\* A write that is next pays what it owes.
LEMMA OwedNow ==
  ASSUME TypeInv, NEW d \in Kept, Owed(d), Head(todo).do # "store"
  PROVE  Tells(Head(todo), d, reg[d])
<1>1. PICK j \in DOMAIN todo, v \in Levels :
        /\ Tells(todo[j], d, v) /\ \A i \in 1 .. j - 1 : todo[i].do = "store"
        /\ v = reg[d] \/ \E i \in 1 .. j - 1 : todo[i].reg = d
  BY DEF Owed
<1>2. todo # <<>> /\ j \in 1 .. Len(todo) /\ Head(todo) = todo[1]
  BY <1>1, HeadIs, LenProperties DEF TypeInv
<1>3. j = 1
  <2>1. j = 1 \/ 1 \in 1 .. j - 1
    BY <1>2
  <2>2. QED
    BY <1>1, <1>2, <2>1
<1>4. \A i \in 1 .. j - 1 : FALSE
  BY <1>3
<1>5. QED
  BY <1>1, <1>2, <1>3, <1>4

\* Owed is a matter of the handler and the atomics alone.
LEMMA OwedStays ==
  ASSUME NEW d, Owed(d), todo' = todo, reg'[d] = reg[d] PROVE Owed(d)'
BY DEF Owed, Tells

\* A store leaves what was owed, and owes what it has stored; and nothing else is
\* stored anew.
LEMMA OwedByStore ==
  ASSUME TypeInv, StoreStep, NEW d \in Kept, Owed(d) \/ Head(todo).reg = d
  PROVE  Owed(d)'
<1> DEFINE n == Len(todo)
<1>1. /\ todo \in Seq(Item) /\ todo # <<>> /\ Head(todo) = todo[1] /\ todo' = Tail(todo)
      /\ todo[1].do = "store" /\ ToldAsStored(todo)
  BY HeadIs DEF StoreStep, TypeInv, GoodScript
<1>2. /\ n \in Nat /\ DOMAIN todo = 1 .. n /\ 1 \in 1 .. n /\ DOMAIN todo' = 1 .. n - 1
      /\ \A i \in 1 .. n - 1 : todo'[i] = todo[i + 1]
  BY <1>1, HeadTailProperties, LenProperties
<1>3. todo[1].reg \in Registers /\ todo[1].val \in Levels
  BY <1>1, HeadIs
<1>4. reg' = [reg EXCEPT ![todo[1].reg] = todo[1].val] /\ reg \in [Registers -> Levels]
  BY <1>1 DEF StoreStep, TypeInv, TypeOK
<1>5. d \in Registers
  BY Constants
<1>6. PICK j \in 2 .. n, v \in Levels :
        /\ Tells(todo[j], d, v)
        /\ \A i \in 1 .. j - 1 : todo[i].do = "store" /\ (todo[i].reg = d => todo[i].val = v)
        /\ v = reg[d] \/ \E i \in 1 .. j - 1 : todo[i].reg = d
  <2>1. CASE Owed(d)
    <3>1. PICK j \in 1 .. n, v \in Levels :
            /\ Tells(todo[j], d, v)
            /\ \A i \in 1 .. j - 1 : todo[i].do = "store" /\ (todo[i].reg = d => todo[i].val = v)
            /\ v = reg[d] \/ \E i \in 1 .. j - 1 : todo[i].reg = d
      BY <1>2, <2>1 DEF Owed
    <3>2. j # 1
      BY <1>1, <3>1 DEF Tells
    <3>3. j \in 2 .. n
      BY <1>2, <3>2
    <3>4. QED
      BY <3>1, <3>3
  <2>2. CASE todo[1].reg = d
    <3>1. PICK j \in 1 .. n :
            /\ 1 < j /\ Tells(todo[j], d, todo[1].val)
            /\ \A k \in 1 .. j - 1 :
                 todo[k].do = "store" /\ (todo[k].reg = d => todo[k].val = todo[1].val)
      BY <1>1, <1>2, <2>2 DEF ToldAsStored
    <3>2. j \in 2 .. n /\ 1 \in 1 .. j - 1
      BY <1>2, <3>1
    <3>3. QED
      BY <1>3, <2>2, <3>1, <3>2
  <2>3. QED
    BY <1>1, <2>1, <2>2
<1>7. j - 1 \in DOMAIN todo' /\ todo'[j - 1] = todo[j]
  BY <1>2, <1>6
<1>8. \A i \in 1 .. (j - 1) - 1 : todo'[i] = todo[i + 1] /\ i + 1 \in 1 .. j - 1
  BY <1>2, <1>6
<1>9. 1 \in 1 .. j - 1 /\ \A i \in 1 .. j - 1 : i = 1 \/ i - 1 \in 1 .. (j - 1) - 1
  BY <1>2, <1>6
<1>10. \A i \in 1 .. (j - 1) - 1 :
         todo'[i].do = "store" /\ (todo'[i].reg = d => todo'[i].val = v)
  BY <1>6, <1>8
<1>11. v = reg'[d] \/ \E i \in 1 .. (j - 1) - 1 : todo'[i].reg = d
  <2>1. CASE todo[1].reg = d
    BY <1>4, <1>5, <1>6, <1>9, <2>1
  <2>2. CASE todo[1].reg # d /\ v = reg[d]
    BY <1>3, <1>4, <1>5, <2>2
  <2>3. CASE todo[1].reg # d /\ \E i \in 1 .. j - 1 : todo[i].reg = d
    <3>1. PICK i \in 1 .. j - 1 : todo[i].reg = d
      BY <2>3
    <3>2. i - 1 \in 1 .. (j - 1) - 1 /\ (i - 1) + 1 = i
      BY <1>9, <2>3, <3>1
    <3>3. todo'[i - 1] = todo[i]
      BY <1>8, <3>2
    <3>4. QED
      BY <3>1, <3>2, <3>3
  <2>4. QED
    BY <1>6, <2>1, <2>2, <2>3
<1>12. QED
  BY <1>6, <1>7, <1>10, <1>11 DEF Owed, Tells

\* What is left of a handler tells what is stored, too.
LEMMA TellTail ==
  ASSUME TypeInv, TellInv, todo # <<>>, todo' = Tail(todo),
         \/ StoreStep
         \/ Head(todo).do # "store" /\ \A d \in Kept : reg'[d] = reg[d]
  PROVE  TellInv'
<1> DEFINE n == Len(todo)
<1>1. todo \in Seq(Item) /\ Head(todo) = todo[1]
  BY HeadIs DEF TypeInv
<1>2. /\ n \in Nat /\ DOMAIN todo = 1 .. n /\ 1 \in 1 .. n /\ DOMAIN todo' = 1 .. n - 1
      /\ \A i \in 1 .. n - 1 : todo'[i] = todo[i + 1] /\ i + 1 \in 1 .. n
  BY <1>1, HeadTailProperties, LenProperties
<1> HIDE DEF n
<1>3. ASSUME StoreStep
      PROVE  /\ todo[1].do = "store"
             /\ \A d \in Kept : reg'[d] = IF d = todo[1].reg THEN todo[1].val ELSE reg[d]
  <2>1. reg' = [reg EXCEPT ![todo[1].reg] = todo[1].val] /\ reg \in [Registers -> Levels]
    BY <1>1, <1>3 DEF StoreStep, TypeInv, TypeOK
  <2>2. \A d \in Kept : d \in Registers
    BY Constants
  <2>3. QED
    BY <1>1, <1>3, <2>1, <2>2 DEF StoreStep
<1> SUFFICES ASSUME NEW j \in DOMAIN todo', NEW d \in Kept, NEW v \in Levels,
                    Tells(todo'[j], d, v)
             PROVE  /\ \/ v = reg'[d]
                       \/ \E i \in 1 .. j - 1 : todo'[i].do = "store" /\ todo'[i].reg = d
                    /\ \A i \in 1 .. j - 1 :
                         todo'[i].do = "store" /\ todo'[i].reg = d => todo'[i].val = v
  BY DEF TellInv, Tells
<1>4. j \in 1 .. n - 1 /\ j + 1 \in DOMAIN todo /\ Tells(todo[j + 1], d, v)
  BY <1>2
<1>5. /\ \/ v = reg[d]
         \/ \E i \in 1 .. (j + 1) - 1 : todo[i].do = "store" /\ todo[i].reg = d
      /\ \A i \in 1 .. (j + 1) - 1 :
           todo[i].do = "store" /\ todo[i].reg = d => todo[i].val = v
  BY <1>4 DEF TellInv
<1>6. \A i \in 1 .. j - 1 : todo'[i] = todo[i + 1] /\ i + 1 \in 1 .. (j + 1) - 1
  BY <1>2, <1>4
<1>7. /\ 1 \in 1 .. (j + 1) - 1
      /\ \A i \in 1 .. (j + 1) - 1 : i = 1 \/ (i - 1 \in 1 .. j - 1 /\ (i - 1) + 1 = i)
  BY <1>2, <1>4
<1>8. \A i \in 1 .. j - 1 : todo'[i].do = "store" /\ todo'[i].reg = d => todo'[i].val = v
  BY <1>5, <1>6
<1>9. ASSUME NEW i \in 1 .. (j + 1) - 1, todo[i].do = "store", todo[i].reg = d, i # 1
      PROVE  \E k \in 1 .. j - 1 : todo'[k].do = "store" /\ todo'[k].reg = d
  <2>1. i - 1 \in 1 .. j - 1 /\ (i - 1) + 1 = i
    BY <1>7, <1>9
  <2>2. todo'[i - 1] = todo[i]
    BY <1>6, <2>1
  <2>3. QED
    BY <1>9, <2>1, <2>2
<1>10. CASE StoreStep
  <2>1. CASE d = todo[1].reg
    BY <1>3, <1>5, <1>7, <1>8, <1>10, <2>1
  <2>2. CASE d # todo[1].reg
    BY <1>3, <1>5, <1>8, <1>9, <1>10, <2>2
  <2>3. QED
    BY <2>1, <2>2
<1>11. CASE Head(todo).do # "store" /\ \A e \in Kept : reg'[e] = reg[e]
  BY <1>1, <1>5, <1>8, <1>9, <1>11
<1>12. QED
  BY <1>10, <1>11

\* The heartbeat stores nothing but the mode.
LEMMA ModeIsNotKept ==
  ASSUME TypeInv, Heartbeat
  PROVE  todo' = todo /\ stage' = stage /\ \A r \in Registers \ {"mode"} : reg'[r] = reg[r]
BY DEF Heartbeat, HbWakes, HbLock, HbRead, HbModeOn, HbModeOnFails, HbModeOff, HbSendSome,
       HbSend, handlerVars, TypeInv, TypeOK

LEMMA TellInvStep == TypeInv /\ TellInv /\ [Next]_vars => TellInv'
<1> SUFFICES ASSUME TypeInv, TellInv, [Next]_vars PROVE TellInv'
  OBVIOUS
<1>0. \A d \in Kept : d \in Registers \ {"mode"}
  BY Constants
<1>1. ASSUME todo' = todo, \A d \in Kept : reg'[d] = reg[d] PROVE TellInv'
  BY <1>1 DEF TellInv, Tells
<1>2. ASSUME todo' = <<>> PROVE TellInv'
  BY <1>2 DEF TellInv, Tells
<1>3. ASSUME NEW c \in Commands, Call(c) PROVE TellInv'
  <2>1. ToldIsStored(todo') /\ reg' = reg
    BY <1>3, ScriptsAre DEF Call
  <2>2. QED
    BY <2>1 DEF TellInv, ToldIsStored, Tells
<1>4. CASE Shutdown
  BY <1>1, <1>4 DEF Shutdown
<1>5. CASE Caller
  <2>1. CASE StoreStep
    BY <2>1, TellTail DEF StoreStep
  <2>2. CASE WriteStep
    <3>1. /\ todo # <<>> /\ todo' \in {Tail(todo), <<>>} /\ reg' = reg
          /\ Head(todo).do # "store"
      BY <2>2 DEF WriteStep
    <3>2. QED
      BY <1>2, <3>1, TellTail
  <2>3. CASE TankStep
    BY <2>3, TellTail DEF TankStep
  <2>4. CASE StopStep
    BY <2>4, TellTail DEF StopStep
  <2>5. CASE ShutdownEnds
    BY <1>1, <2>5 DEF ShutdownEnds
  <2>6. QED
    BY <1>5, <2>1, <2>2, <2>3, <2>4, <2>5 DEF Caller
<1>6. CASE Heartbeat
  BY <1>0, <1>1, <1>6, ModeIsNotKept
<1>7. CASE ReaderLoops \/ UNCHANGED vars
  BY <1>1, <1>7 DEF ReaderLoops, vars, handlerVars
<1>8. QED
  BY <1>3, <1>4, <1>5, <1>6, <1>7 DEF Next

-----------------------------------------------------------------------------
(***************************************************************************)
(* The invariants, step by step.                                           *)
(***************************************************************************)

\* What a write says of what is kept is what is stored.
LEMMA WriteIsStored ==
  ASSUME TypeInv, TellInv, todo # <<>>, Head(todo).do \in {"write", "stop"},
         NEW f \in Head(todo).frames, NEW d \in Kept, d \in DOMAIN f
  PROVE  f[d] = reg[d]
<1>1. Head(todo) = todo[1] /\ 1 \in DOMAIN todo /\ Head(todo).frames \in FrameSets
  BY HeadIs
<1>2. f[d] \in Levels
  <2>1. PICK D \in SUBSET Devices : f \in [D -> Levels]
    BY <1>1 DEF FrameSets, Frame
  <2>2. QED
    BY <2>1
<1>3. Tells(todo[1], d, f[d])
  BY <1>1 DEF Tells
<1>4. \A i \in 1 .. 1 - 1 : FALSE
  OBVIOUS
<1>5. f[d] = reg[d] \/ \E i \in 1 .. 1 - 1 : todo[i].do = "store" /\ todo[i].reg = d
  BY <1>1, <1>2, <1>3 DEF TellInv
<1>6. QED
  BY <1>4, <1>5

\* So after it each device it is about does what is stored, and the others do what
\* they did.
LEMMA WriteTells ==
  ASSUME TypeInv, TellInv, WriteStep \/ StopStep, NEW d \in Kept \ apart'
  PROVE  out'[d] = reg[d] \/ (d \notin apart /\ out'[d] = out[d] /\ ~Owed(d))
<1>1. /\ todo # <<>> /\ Head(todo).do \in {"write", "stop"}
      /\ \E heard \in Received(Head(todo).frames) : Hears(Head(todo).frames, heard)
  BY DEF WriteStep, StopStep
<1>2. PICK heard \in Received(Head(todo).frames) : Hears(Head(todo).frames, heard)
  BY <1>1
<1>3. Head(todo).frames \in FrameSets /\ out \in [Devices -> Levels] /\ d \in Devices
  BY <1>1, HeadIs, Constants DEF TypeInv, TypeOK
<1>4. /\ \A f \in Head(todo).frames : d \in DOMAIN f => out'[d] = f[d]
      /\ (\A f \in Head(todo).frames : d \notin DOMAIN f) => d \notin apart /\ out'[d] = out[d]
  BY <1>2, <1>3, HearsIs
<1>5. CASE \E f \in Head(todo).frames : d \in DOMAIN f
  BY <1>1, <1>4, <1>5, WriteIsStored
<1>6. CASE \A f \in Head(todo).frames : d \notin DOMAIN f
  <2>1. \A v \in Levels : ~Tells(Head(todo), d, v)
    BY <1>6 DEF Tells
  <2>2. ~Owed(d)
    BY <1>1, <2>1, NothingOwed
  <2>3. QED
    BY <1>4, <1>6, <2>2
<1>7. QED
  BY <1>5, <1>6

\* Where the heartbeat is when somebody else has the port, or nobody.
LEMMA PortFree == TypeOK /\ port = "free" => hb \in {"sleep", "lock", "done"}
BY DEF TypeOK

LEMMA StageInvStep == TypeInv /\ StageInv /\ [Next]_vars => StageInv'
<1> SUFFICES ASSUME TypeInv, StageInv, [Next]_vars PROVE StageInv'
  OBVIOUS
<1> USE DEF StageInv
<1>1. CASE \E c \in Commands : Call(c)
  BY <1>1 DEF Call, hbVars
<1>2. CASE Shutdown
  BY <1>2 DEF Shutdown, hbVars
<1>3. CASE Caller
  BY <1>3 DEF Caller, StoreStep, WriteStep, TankStep, StopStep, ShutdownEnds, hbVars
<1>4. CASE Heartbeat
  BY <1>4 DEF Heartbeat, HbWakes, HbLock, HbRead, HbModeOn, HbModeOnFails, HbModeOff,
     HbSendSome, HbSend, handlerVars
<1>5. CASE ReaderLoops \/ UNCHANGED vars
  BY <1>5 DEF ReaderLoops, vars, hbVars, handlerVars
<1>6. QED
  BY <1>1, <1>2, <1>3, <1>4, <1>5 DEF Next

\* A cycle's read of one atomic: what it keeps is what is stored now.
LEMMA CycleInvRead == ASSUME TypeInv, CycleInv, HbRead PROVE CycleInv'
<1> DEFINE r == Head(left)
           n == Len(left)
           done == ~r.keep /\ reg[r.reg] # 0
<1>1. left \in Seq(Reading) /\ left # <<>> /\ hb = "read"
  BY DEF TypeInv, HbRead
<1>2. /\ n \in Nat /\ DOMAIN left = 1 .. n /\ 1 \in 1 .. n /\ r = left[1] /\ r \in Reading
      /\ Tail(left) \in Seq(Reading) /\ DOMAIN Tail(left) = 1 .. n - 1
      /\ \A i \in 1 .. n - 1 : Tail(left)[i] = left[i + 1] /\ i + 1 \in 1 .. n
  BY <1>1, HeadTailProperties, LenProperties
<1>3. /\ seen' = (IF r.keep THEN [seen EXCEPT ![r.reg] = reg[r.reg]] ELSE seen)
      /\ left' = (IF done THEN <<>> ELSE Tail(left))
      /\ hb' = (IF left' = <<>> THEN "switch" ELSE "read")
      /\ reg' = reg /\ todo' = todo
  BY DEF HbRead, handlerVars
<1>4. seen \in [Kept -> Levels] /\ (r.keep => r.reg \in Kept)
  BY <1>2 DEF TypeInv, TypeOK, Nothing, Kept, Reading
<1>5. \A i, j \in 1 .. n : i < j /\ left[j].keep => left[i].keep
  BY <1>1, <1>2 DEF CycleInv
<1> HIDE DEF r, n, done
<1>6. \A i, j \in DOMAIN left' : i < j /\ left'[j].keep => left'[i].keep
  <2>1. CASE done
    BY <1>3, <2>1
  <2>2. CASE ~done
    <3>1. left' = Tail(left)
      BY <1>3, <2>2
    <3>2. \A i, j \in 1 .. n - 1 : i < j => i + 1 < j + 1
      BY <1>2
    <3>3. QED
      BY <1>2, <1>5, <3>1, <3>2
  <2>3. QED
    BY <2>1, <2>2
<1>7. ASSUME NEW d \in Kept
      PROVE  \/ seen'[d] = reg'[d] \/ Owed(d)'
             \/ hb' = "read" /\ \E i \in DOMAIN left' : left'[i].keep /\ left'[i].reg = d
  <2>1. Owed(d) => Owed(d)'
    BY <1>3, OwedStays
  <2>2. CASE r.keep /\ r.reg = d
    BY <1>3, <1>4, <2>2
  <2>3. CASE ~(r.keep /\ r.reg = d)
    <3>1. seen'[d] = seen[d]
      BY <1>3, <1>4, <2>3
    <3>2. CASE seen[d] = reg[d] \/ Owed(d)
      BY <1>3, <2>1, <3>1, <3>2
    <3>3. CASE \E i \in DOMAIN left : left[i].keep /\ left[i].reg = d
      <4>1. PICK i \in 1 .. n : left[i].keep /\ left[i].reg = d
        BY <1>2, <3>3
      <4>2. i # 1 /\ i \in 2 .. n /\ 1 < i
        BY <1>2, <2>3, <4>1
      <4>3. ~done
        BY <1>2, <1>5, <4>1, <4>2 DEF done
      <4>4. i - 1 \in 1 .. n - 1 /\ (i - 1) + 1 = i
        BY <1>2, <4>2
      <4>5. left'[i - 1] = left[i] /\ i - 1 \in DOMAIN left' /\ left' = Tail(left)
        BY <1>2, <1>3, <4>3, <4>4
      <4>6. left' # <<>>
        BY <4>5
      <4>7. hb' = "read"
        BY <1>3, <4>6
      <4>8. QED
        BY <4>1, <4>5, <4>7
    <3>4. QED
      BY <1>1, <3>2, <3>3 DEF CycleInv
  <2>4. QED
    BY <2>2, <2>3
<1>8. hb' \in {"read", "switch"}
  BY <1>3
<1>9. QED
  BY <1>6, <1>7, <1>8 DEF CycleInv

LEMMA CycleInvStep == TypeInv /\ CycleInv /\ [Next]_vars => CycleInv'
<1> SUFFICES ASSUME TypeInv, CycleInv, [Next]_vars PROVE CycleInv'
  OBVIOUS
<1>0. \A d \in Kept : Nothing[d] = 0 /\ d \in Registers \ {"mode"}
  BY Constants DEF Nothing, Kept
<1>1. ASSUME UNCHANGED <<hb, left, seen, active>>,
             \A d \in Kept : seen[d] = reg[d] \/ Owed(d) => seen[d] = reg'[d] \/ Owed(d)'
      PROVE  CycleInv'
  BY <1>1 DEF CycleInv
<1>2. ASSUME hb' \in {"sleep", "lock", "done"}, ~active', \A d \in Kept : seen'[d] = 0
      PROVE  CycleInv'
  BY <1>2 DEF CycleInv
<1>3. ASSUME UNCHANGED <<hb, left, seen, active, todo>>, \A d \in Kept : reg'[d] = reg[d]
      PROVE  CycleInv'
  <2>1. \A d \in Kept : Owed(d) => Owed(d)'
    BY <1>3, OwedStays
  <2>2. QED
    BY <1>1, <1>3, <2>1
<1>4. CASE CycleEnds
  BY <1>0, <1>2, <1>4 DEF CycleEnds
<1>5. CASE \E c \in Commands : Call(c)
  <2>1. todo = <<>> /\ reg' = reg /\ UNCHANGED <<hb, left, seen, active>>
    BY <1>5 DEF Call, hbVars
  <2>2. \A d \in Kept : ~Owed(d)
    BY <2>1, NothingOwed
  <2>3. QED
    BY <1>1, <2>1, <2>2
<1>6. CASE Shutdown
  BY <1>3, <1>6 DEF Shutdown, hbVars
<1>7. CASE StoreStep
  <2>1. UNCHANGED <<hb, left, seen, active>>
    BY <1>7 DEF StoreStep, hbVars
  <2>2. \A d \in Kept : Owed(d) \/ Head(todo).reg = d => Owed(d)'
    BY <1>7, OwedByStore
  <2>3. \A d \in Kept : Head(todo).reg # d => reg'[d] = reg[d]
    BY <1>0, <1>7 DEF StoreStep, TypeInv, TypeOK
  <2>4. QED
    BY <1>1, <2>1, <2>2, <2>3
<1>8. CASE WriteStep \/ TankStep \/ StopStep \/ ShutdownEnds
  <2>1. port = "free" /\ UNCHANGED <<hb, left, seen, active>>
    BY <1>8 DEF WriteStep, TankStep, StopStep, ShutdownEnds, hbVars
  <2>2. hb \in {"sleep", "lock", "done"}
    BY <2>1, PortFree DEF TypeInv
  <2>3. ~active /\ \A d \in Kept : seen[d] = 0
    BY <2>2 DEF CycleInv
  <2>4. QED
    BY <1>2, <2>1, <2>2, <2>3
<1>9. CASE HbWakes
  BY <1>2, <1>9 DEF HbWakes, CycleInv
<1>10. CASE HbLock
  <2>1. left' = Reads /\ hb' = "read"
    BY <1>10 DEF HbLock
  <2>2. \A i, j \in DOMAIN Reads : i < j /\ Reads[j].keep => Reads[i].keep
    BY ReadsAre
  <2>3. \A d \in Kept : \E i \in DOMAIN Reads : Reads[i].keep /\ Reads[i].reg = d
    BY ReadsAre
  <2>4. QED
    BY <2>1, <2>2, <2>3 DEF CycleInv
<1>11. CASE HbRead
  BY <1>11, CycleInvRead
<1>12. CASE HbModeOn \/ HbSendSome
  BY <1>4, <1>12 DEF HbModeOn, HbSendSome, HbSend
<1>13. CASE HbModeOnFails \/ HbModeOff
  <2>1. /\ UNCHANGED <<left, seen, active, todo>> /\ hb = "switch" /\ hb' = "send"
        /\ \A d \in Kept : reg'[d] = reg[d]
    BY <1>0, <1>13 DEF HbModeOnFails, HbModeOff, handlerVars, TypeInv, TypeOK
  <2>2. \A d \in Kept : Owed(d) => Owed(d)'
    BY <2>1, OwedStays
  <2>3. QED
    BY <2>1, <2>2 DEF CycleInv
<1>14. CASE ReaderLoops \/ UNCHANGED vars
  BY <1>3, <1>14 DEF ReaderLoops, vars, hbVars, handlerVars
<1>15. QED
  BY <1>5, <1>6, <1>7, <1>8, <1>9, <1>10, <1>11, <1>12, <1>13, <1>14
  DEF Next, Caller, Heartbeat

\* What the heartbeat tells of what is kept is stored, or about to be corrected.
LEMMA FollowInvHeartbeat ==
  ASSUME TypeInv, CycleInv, FollowInv, Heartbeat PROVE FollowInv'
<1>0. \A d \in Kept : d \in Registers \ {"mode"} /\ d \in Devices /\ d # "mode"
  BY Constants
<1>1. ASSUME \A d \in Kept \ apart' : \/ out'[d] = seen[d] /\ hb = "send"
                                      \/ d \notin apart /\ out'[d] = out[d]
      PROVE  FollowInv'
  <2>1. /\ todo' = todo /\ stage' = stage
        /\ \A d \in Kept : reg'[d] = reg[d]
    BY <1>0, ModeIsNotKept
  <2>2. \A d \in Kept : Owed(d) => Owed(d)'
    BY <2>1, OwedStays
  <2>3. hb = "send" => \A d \in Kept : seen[d] = reg[d] \/ Owed(d)
    BY DEF CycleInv
  <2>4. QED
    BY <1>1, <2>1, <2>2, <2>3 DEF FollowInv
<1>2. CASE HbWakes \/ HbLock \/ HbRead \/ HbModeOff
  BY <1>1, <1>2 DEF HbWakes, HbLock, HbRead, HbModeOff, gd32Vars
<1>3. CASE HbModeOn \/ HbModeOnFails
  <2>1. PICK heard \in Received({Tell("mode", 1)}) : Hears({Tell("mode", 1)}, heard)
    BY <1>3 DEF HbModeOn, HbModeOnFails
  <2>2. {Tell("mode", 1)} \in FrameSets /\ DOMAIN Tell("mode", 1) = {"mode"}
    BY Constants, TellIs
  <2>3. \A d \in Devices \ apart' :
          (\A f \in {Tell("mode", 1)} : d \notin DOMAIN f) => d \notin apart /\ out'[d] = out[d]
    BY <2>1, <2>2, HearsIs DEF TypeInv, TypeOK
  <2>4. QED
    BY <1>0, <1>1, <2>2, <2>3
<1>4. CASE HbSendSome
  <2>1. PICK heard \in Received(Frames) : Hears(Frames, heard)
    BY <1>4 DEF HbSendSome, HbSend
  <2>2. /\ Frames \in FrameSets
        /\ \A f \in Frames : \A d \in DOMAIN f \cap Kept : f[d] = seen[d]
    BY <1>0, FramesAre DEF TypeInv
  <2>3. \A d \in Devices \ apart' :
          /\ \A f \in Frames : d \in DOMAIN f => out'[d] = f[d]
          /\ (\A f \in Frames : d \notin DOMAIN f) => d \notin apart /\ out'[d] = out[d]
    BY <2>1, <2>2, HearsIs DEF TypeInv, TypeOK
  <2>4. hb = "send"
    BY <1>4 DEF HbSendSome, HbSend
  <2>5. \A d \in Kept \ apart' : out'[d] = seen[d] \/ (d \notin apart /\ out'[d] = out[d])
    BY <1>0, <2>2, <2>3
  <2>6. QED
    BY <1>1, <2>4, <2>5
<1>5. QED
  BY <1>2, <1>3, <1>4 DEF Heartbeat

LEMMA FollowInvStep ==
  TypeInv /\ TellInv /\ StageInv /\ CycleInv /\ FollowInv /\ [Next]_vars => FollowInv'
<1> SUFFICES ASSUME TypeInv, TellInv, StageInv, CycleInv, FollowInv, [Next]_vars
             PROVE  FollowInv'
  OBVIOUS
<1>0. \A d \in Kept : d \in Registers \ {"mode"} /\ d \in Devices
  BY Constants
<1>1. ASSUME UNCHANGED <<todo, reg, out, apart>>, stage # "run" => stage' # "run"
      PROVE  FollowInv'
  <2>1. \A d \in Kept : Owed(d) => Owed(d)'
    BY <1>1, OwedStays
  <2>2. QED
    BY <1>1, <2>1 DEF FollowInv
<1>2. CASE \E c \in Commands : Call(c)
  <2>1. todo = <<>> /\ UNCHANGED <<reg, out, apart, stage>>
    BY <1>2 DEF Call, gd32Vars
  <2>2. \A d \in Kept : ~Owed(d)
    BY <2>1, NothingOwed
  <2>3. QED
    BY <2>1, <2>2 DEF FollowInv
<1>3. CASE Shutdown
  BY <1>1, <1>3 DEF Shutdown, gd32Vars
<1>4. CASE StoreStep
  <2>1. UNCHANGED <<out, apart, stage>>
    BY <1>4 DEF StoreStep, gd32Vars
  <2>2. \A d \in Kept : Owed(d) \/ Head(todo).reg = d => Owed(d)'
    BY <1>4, OwedByStore
  <2>3. \A d \in Kept : Head(todo).reg # d => reg'[d] = reg[d]
    BY <1>0, <1>4 DEF StoreStep, TypeInv, TypeOK
  <2>4. QED
    BY <2>1, <2>2, <2>3 DEF FollowInv
<1>5. CASE WriteStep \/ StopStep
  <2>1. reg' = reg /\ stage' = stage
    BY <1>5 DEF WriteStep, StopStep
  <2>2. \A d \in Kept \ apart' :
          out'[d] = reg[d] \/ (d \notin apart /\ out'[d] = out[d] /\ ~Owed(d))
    BY <1>5, WriteTells
  <2>3. QED
    BY <2>1, <2>2 DEF FollowInv
<1>6. CASE TankStep
  <2>1. PICK heard \in Received(Head(todo).frames) : out' = Heard(heard)
    BY <1>6 DEF TankStep
  <2>2. /\ todo # <<>> /\ Head(todo).do = "tank" /\ UNCHANGED <<reg, stage>>
        /\ apart' = apart \cup Wheels
    BY <1>6 DEF TankStep
  <2>3. /\ Head(todo).frames \in FrameSets
        /\ \A f \in Head(todo).frames : DOMAIN f \subseteq Wheels
    BY <2>2, HeadIs DEF TypeInv, GoodScript, TanksWheels
  <2>4. heard \in SUBSET Head(todo).frames
    BY DEF Received
  <2>5. \A d \in Devices : (\A f \in heard : d \notin DOMAIN f) => Heard(heard)[d] = out[d]
    BY <2>3, <2>4, HeardIs DEF TypeInv, TypeOK
  <2>6. \A d \in Kept \ apart' : d \notin apart /\ out'[d] = out[d]
    BY <1>0, <2>1, <2>2, <2>3, <2>4, <2>5
  <2>7. \A d \in Kept : ~Owed(d)
    BY <2>2, NothingOwed DEF Tells
  <2>8. QED
    BY <2>2, <2>6, <2>7 DEF FollowInv
<1>7. CASE ShutdownEnds
  <2>1. PICK heard \in Received({Drive(0, 0)}) : Hears({Drive(0, 0)}, heard)
    BY <1>7 DEF ShutdownEnds
  <2>2. {Drive(0, 0)} \in FrameSets /\ DOMAIN Drive(0, 0) = Wheels
    BY Constants, DriveIs
  <2>3. \A d \in Devices \ apart' :
          (\A f \in {Drive(0, 0)} : d \notin DOMAIN f) => d \notin apart /\ out'[d] = out[d]
    BY <2>1, <2>2, HearsIs DEF TypeInv, TypeOK
  <2>4. \A d \in Kept \ apart' : d \notin Wheels => d \notin apart /\ out'[d] = out[d]
    BY <1>0, <2>2, <2>3
  <2>5. \A d \in Kept \ apart' : d \in Wheels => out'[d] = 0
    <3>1. \A d \in Devices \ apart' : d \in Wheels => out'[d] = Drive(0, 0)[d]
      BY <2>1, <2>2, HearsIs DEF TypeInv, TypeOK
    <3>2. \A d \in Wheels : Drive(0, 0)[d] = 0
      BY Constants, DriveIs DEF Wheels
    <3>3. QED
      BY <1>0, <3>1, <3>2
  <2>6. todo = <<>> /\ UNCHANGED <<reg, todo>> /\ stage' = "over"
    BY <1>7 DEF ShutdownEnds, StageInv
  <2>7. \A d \in Kept : ~Owed(d)
    BY <2>6, NothingOwed
  <2>8. QED
    BY <2>4, <2>6, <2>5, <2>7 DEF FollowInv
<1>8. CASE Heartbeat
  BY <1>8, FollowInvHeartbeat
<1>9. CASE ReaderLoops \/ UNCHANGED vars
  BY <1>1, <1>9 DEF ReaderLoops, vars, handlerVars, gd32Vars
<1>10. QED
  BY <1>2, <1>3, <1>4, <1>5, <1>6, <1>7, <1>8, <1>9 DEF Next, Caller

LEMMA ClearInvStep == TypeInv /\ ClearInv /\ [Next]_vars => ClearInv'
<1> SUFFICES ASSUME TypeInv, ClearInv, [Next]_vars PROVE ClearInv'
  OBVIOUS
<1> DEFINE R == Registers \ {"mode"}
           n == Len(todo)
<1>0. todo \in Seq(Item) /\ StopsAll(todo) /\ n \in Nat /\ DOMAIN todo = 1 .. n
  BY LenProperties DEF TypeInv, GoodScript
<1>1. ASSUME todo' = todo, \A r \in R : reg'[r] = reg[r] PROVE ClearInv'
  BY <1>1 DEF ClearInv
<1>2. ASSUME todo' = <<>> PROVE ClearInv'
  BY <1>2 DEF ClearInv
<1>3. ASSUME todo # <<>>, todo' = Tail(todo)
      PROVE  /\ todo \in Seq(Item) /\ DOMAIN todo' = 1 .. n - 1 /\ Head(todo) = todo[1]
             /\ \A i \in 1 .. n - 1 : todo'[i] = todo[i + 1] /\ i + 1 \in DOMAIN todo
  BY <1>0, <1>3, HeadTailProperties, LenProperties
<1>4. ASSUME todo # <<>>, Head(todo).do # "store", todo' = Tail(todo) PROVE ClearInv'
  <2>1. \A j \in 1 .. n - 1 : 1 \in 1 .. (j + 1) - 1
    BY <1>0
  <2>2. \A j \in DOMAIN todo' : todo'[j].do # "stop"
    BY <1>0, <1>3, <1>4, <2>1 DEF StopsAll
  <2>3. QED
    BY <2>2 DEF ClearInv
<1>5. CASE \E c \in Commands : Call(c)
  <2>1. PICK c \in Commands : todo' = Script(c)
    BY <1>5 DEF Call
  <2>2. QED
    BY <2>1, ScriptsStop DEF ClearInv
<1>6. CASE Shutdown \/ ShutdownEnds
  BY <1>1, <1>6 DEF Shutdown, ShutdownEnds
<1>7. CASE StoreStep
  <2>1. /\ todo # <<>> /\ todo' = Tail(todo) /\ Head(todo) = todo[1]
        /\ reg' = [reg EXCEPT ![todo[1].reg] = todo[1].val] /\ todo[1].do = "store"
    BY <1>7, HeadIs DEF StoreStep
  <2>0. /\ DOMAIN todo' = 1 .. n - 1
        /\ \A i \in 1 .. n - 1 : todo'[i] = todo[i + 1]
    BY <1>3, <2>1
  <2>2. SUFFICES ASSUME NEW j \in 1 .. n - 1, todo[j + 1].do = "stop", NEW r \in R
                 PROVE  reg'[r] = 0 \/ \E i \in 1 .. j - 1 : todo'[i].reg = r
    <3> HIDE DEF n
    <3>1. QED
      BY <2>0 DEF ClearInv
  <2>3. j + 1 \in DOMAIN todo /\ 1 \in DOMAIN todo
    BY <1>0
  <2>4. todo[1].val = 0
    BY <1>0, <2>1, <2>2, <2>3 DEF StopsAll, Zero
  <2>5. CASE todo[1].reg = r
    BY <2>1, <2>4, <2>5 DEF TypeInv, TypeOK
  <2>6. CASE reg[r] = 0
    BY <2>1, <2>4, <2>6 DEF TypeInv, TypeOK
  <2>7. CASE todo[1].reg # r /\ \E i \in 1 .. (j + 1) - 1 : todo[i].reg = r
    <3>1. PICK i \in 1 .. (j + 1) - 1 : todo[i].reg = r
      BY <2>7
    <3>2. i # 1 /\ i - 1 \in 1 .. j - 1 /\ i - 1 \in 1 .. n - 1 /\ (i - 1) + 1 = i
      BY <1>0, <2>7, <3>1
    <3>3. todo'[i - 1] = todo[i]
      BY <1>3, <2>1, <3>2
    <3>4. QED
      BY <3>1, <3>2, <3>3
  <2>8. QED
    BY <2>2, <2>3, <2>5, <2>6, <2>7 DEF ClearInv
<1>8. CASE WriteStep
  BY <1>2, <1>4, <1>8 DEF WriteStep
<1>9. CASE TankStep \/ StopStep
  BY <1>4, <1>9 DEF TankStep, StopStep
<1>10. CASE Heartbeat
  BY <1>1, <1>10, ModeIsNotKept
<1>11. CASE ReaderLoops \/ UNCHANGED vars
  BY <1>1, <1>11 DEF ReaderLoops, vars, handlerVars
<1>12. QED
  BY <1>5, <1>6, <1>7, <1>8, <1>9, <1>10, <1>11 DEF Next, Caller

\* The emergency stop itself: everything is off when its frames are out.
LEMMA CalmByStop ==
  ASSUME TypeInv, CycleInv, ClearInv, StopStep PROVE CalmInv'
<1>1. /\ todo # <<>> /\ Head(todo).do = "stop" /\ port = "free"
      /\ todo' = Tail(todo) /\ calm' = "reset"
      /\ UNCHANGED <<reg, hb, seen, active>>
  BY DEF StopStep, hbVars
<1>2. /\ Head(todo) = todo[1] /\ 1 \in DOMAIN todo /\ Head(todo).frames \in FrameSets
      /\ Zero(todo) => Zero(todo')
  BY <1>1, HeadIs
<1>3. /\ Zero(todo)
      /\ \A d \in Devices : \E f \in Head(todo).frames : d \in DOMAIN f
  BY <1>1, <1>2 DEF TypeInv, GoodScript, StopsAll
<1>4. hb \in {"sleep", "lock", "done"} /\ ~active /\ \A d \in Kept : seen[d] = 0
  BY <1>1, PortFree DEF TypeInv, CycleInv
<1>5. \A r \in Registers \ {"mode"} : reg[r] = 0
  <2>1. \A i \in 1 .. 1 - 1 : FALSE
    OBVIOUS
  <2>2. QED
    BY <1>1, <1>2, <2>1 DEF ClearInv
<1>6. PICK heard \in Received(Head(todo).frames) : Hears(Head(todo).frames, heard)
  BY DEF StopStep
<1>7. \A d \in Devices \ apart' : \A f \in Head(todo).frames : d \in DOMAIN f => out'[d] = f[d]
  BY <1>2, <1>6, HearsIs DEF TypeInv, TypeOK
<1>8. \A f \in Head(todo).frames : \A d \in DOMAIN f : f[d] = 0
  BY <1>1, <1>2, <1>3 DEF Zero
<1>9. \A d \in Devices \ apart' : out'[d] = 0
  BY <1>3, <1>7, <1>8
<1>10. QED
  BY <1>1, <1>2, <1>3, <1>4, <1>5, <1>9 DEF CalmInv

\* A handler's frames after a stop are zeros, and leave what they are about at rest.
LEMMA CalmByWrite ==
  ASSUME TypeInv, CalmInv, WriteStep \/ TankStep, calm # "no" PROVE CalmInv'
<1>1. /\ todo # <<>> /\ Head(todo).do # "store"
      /\ UNCHANGED <<reg, hb, seen, active, calm>> /\ todo' \in {Tail(todo), <<>>}
  BY DEF WriteStep, TankStep, hbVars
<1>2. /\ Head(todo) = todo[1] /\ 1 \in DOMAIN todo /\ Head(todo).frames \in FrameSets
      /\ Zero(todo) => Zero(todo')
  BY <1>1, HeadIs, NothingIsGood
<1>3. Zero(todo) /\ Zero(todo')
  BY <1>2 DEF CalmInv
<1>4. \A f \in Head(todo).frames : \A d \in DOMAIN f : f[d] = 0
  BY <1>1, <1>2, <1>3 DEF Zero
<1>5. ASSUME NEW d \in Devices \ apart' PROVE out'[d] = 0 \/ (d \notin apart /\ out'[d] = out[d])
  <2>1. CASE WriteStep
    <3>1. PICK heard \in Received(Head(todo).frames) : Hears(Head(todo).frames, heard)
      BY <2>1 DEF WriteStep
    <3>2. /\ \A f \in Head(todo).frames : d \in DOMAIN f => out'[d] = f[d]
          /\ (\A f \in Head(todo).frames : d \notin DOMAIN f) => d \notin apart /\ out'[d] = out[d]
      BY <1>2, <1>5, <3>1, HearsIs DEF TypeInv, TypeOK
    <3>3. QED
      BY <1>4, <3>2
  <2>2. CASE TankStep
    <3>1. PICK heard \in Received(Head(todo).frames) : out' = Heard(heard)
      BY <2>2 DEF TankStep
    <3>2. heard \in SUBSET Head(todo).frames
      BY DEF Received
    <3>3. /\ (\A f \in heard : d \notin DOMAIN f) => Heard(heard)[d] = out[d]
          /\ \A f \in heard : d \in DOMAIN f => Heard(heard)[d] = f[d]
      BY <1>2, <3>2, HeardIs DEF TypeInv, TypeOK
    <3>4. d \notin apart
      BY <2>2 DEF TankStep
    <3>5. QED
      BY <1>4, <3>1, <3>2, <3>3, <3>4
  <2>3. QED
    BY <2>1, <2>2
<1>6. Wheels \subseteq Devices
  BY Constants
<1>7. QED
  BY <1>1, <1>3, <1>5, <1>6 DEF CalmInv

\* The heartbeat, which knows nothing of the stop, brings nothing back behind it.
LEMMA CalmByHeartbeat ==
  ASSUME TypeInv, CalmInv, Heartbeat, calm # "no" PROVE CalmInv'
<1>0. \A d \in Kept : Nothing[d] = 0 /\ d \in Registers \ {"mode"} /\ d \in Devices
  BY Constants DEF Nothing, Kept
<1>1. /\ hb # "done" /\ calm = "reset" /\ calm' = calm /\ todo' = todo
      /\ \A r \in Registers \ {"mode"} : reg[r] = 0
      /\ \A r \in Registers \ {"mode"} : reg'[r] = 0
  <2>1. hb # "done" /\ calm' = calm
    BY DEF Heartbeat, HbWakes, HbLock, HbRead, HbModeOn, HbModeOnFails, HbModeOff, HbSendSome,
           HbSend
  <2>2. calm = "reset"
    BY <2>1 DEF CalmInv, TypeInv, TypeOK
  <2>3. QED
    BY <2>1, <2>2, ModeIsNotKept DEF CalmInv
<1>2. ~active /\ (\A d \in Kept : seen[d] = 0) /\ (hb = "send" => reg["mode"] = 0)
  BY <1>1 DEF CalmInv
<1>3. ASSUME ~active', \A d \in Kept : seen'[d] = 0, hb' = "send" => reg'["mode"] = 0,
             \A d \in Devices \ apart' : d \notin apart /\ out'[d] = out[d]
      PROVE  CalmInv'
  BY <1>1, <1>3 DEF CalmInv, Zero
<1>4. CASE HbWakes
  BY <1>2, <1>3, <1>4 DEF HbWakes, gd32Vars
<1>5. CASE HbLock
  BY <1>2, <1>3, <1>5 DEF HbLock, gd32Vars
<1>6. CASE HbRead
  <2>1. left \in Seq(Reading) /\ left # <<>>
    BY <1>6 DEF TypeInv, HbRead
  <2>2. Head(left) \in Reading
    BY <2>1, HeadTailProperties
  <2>3. reg[Head(left).reg] = 0
    BY <1>1, <2>2 DEF Reading
  <2>4. seen \in [Kept -> Levels]
    BY DEF TypeInv, TypeOK, Nothing, Kept
  <2>5. ~active' /\ hb' # "send" /\ UNCHANGED <<out, apart>>
    BY <1>6, <2>3 DEF HbRead, gd32Vars
  <2>6. seen' = seen \/ seen' = [seen EXCEPT ![Head(left).reg] = 0]
    BY <1>6, <2>3 DEF HbRead
  <2>7. \A d \in Kept : seen'[d] = 0
    BY <1>2, <2>4, <2>6
  <2>8. QED
    BY <1>3, <2>5, <2>7
<1>7. CASE HbModeOn \/ HbModeOnFails
  BY <1>2, <1>7 DEF HbModeOn, HbModeOnFails
<1>8. CASE HbModeOff
  <2>1. reg'["mode"] = 0
    BY <1>2, <1>8, Constants DEF HbModeOff, TypeInv, TypeOK
  <2>2. UNCHANGED <<seen, active, out, apart>>
    BY <1>8 DEF HbModeOff, gd32Vars
  <2>3. QED
    BY <1>2, <1>3, <2>1, <2>2
<1>9. CASE HbSendSome
  <2>1. PICK heard \in Received(Frames) : Hears(Frames, heard)
    BY <1>9 DEF HbSendSome, HbSend
  <2>2. Frames = {}
    BY <1>2, <1>9 DEF HbSendSome, HbSend, Frames
  <2>3. Frames \in FrameSets
    BY FramesAre DEF TypeInv
  <2>4. \A d \in Devices \ apart' : d \notin apart /\ out'[d] = out[d]
    BY <2>1, <2>2, <2>3, HearsIs DEF TypeInv, TypeOK
  <2>5. ~active' /\ hb' # "send" /\ seen' = Nothing
    BY <1>9 DEF HbSendSome, HbSend, CycleEnds
  <2>6. QED
    BY <1>0, <1>3, <2>4, <2>5
<1>10. QED
  BY <1>4, <1>5, <1>6, <1>7, <1>8, <1>9 DEF Heartbeat

LEMMA CalmInvStep ==
  TypeInv /\ StageInv /\ CycleInv /\ ClearInv /\ CalmInv /\ [Next]_vars => CalmInv'
<1> SUFFICES ASSUME TypeInv, StageInv, CycleInv, ClearInv, CalmInv, [Next]_vars
             PROVE  CalmInv'
  OBVIOUS
<1>1. ASSUME UNCHANGED <<reg, hb, seen, active, out, apart, calm>>, Zero(todo) => Zero(todo)'
      PROVE  CalmInv'
  BY <1>1 DEF CalmInv
<1>2. ASSUME calm' = "no" PROVE CalmInv'
  BY <1>2 DEF CalmInv
<1>3. ASSUME NEW c \in Commands, Call(c) PROVE CalmInv'
  <2>1. /\ calm' = (IF Asks(c) THEN "no" ELSE calm) /\ todo' = Script(c)
        /\ UNCHANGED <<reg, hb, seen, active, out, apart>>
    BY <1>3 DEF Call, hbVars, gd32Vars
  <2>2. CASE Asks(c)
    BY <1>2, <2>1, <2>2
  <2>3. CASE ~Asks(c)
    <3>1. Zero(todo')
      BY <2>1, <2>3, ScriptsAre
    <3>2. Zero(todo)'
      BY <3>1 DEF Zero
    <3>3. QED
      BY <1>1, <2>1, <2>3, <3>2
  <2>4. QED
    BY <2>2, <2>3
<1>4. CASE Shutdown
  BY <1>1, <1>4 DEF Shutdown, hbVars, gd32Vars, Zero
<1>5. CASE StoreStep
  <2>1. /\ todo # <<>> /\ Head(todo).do = "store" /\ todo' = Tail(todo)
        /\ reg' = [reg EXCEPT ![Head(todo).reg] = Head(todo).val]
        /\ UNCHANGED <<hb, seen, active, out, apart, calm>>
    BY <1>5 DEF StoreStep, hbVars, gd32Vars
  <2>2. CASE calm = "no"
    BY <1>2, <2>1, <2>2
  <2>3. CASE calm # "no"
    <3>1. Zero(todo) /\ Zero(todo')
      BY <2>1, <2>3, HeadIs DEF CalmInv
    <3>2. Head(todo).val = 0
      BY <2>1, <3>1, HeadIs DEF Zero
    <3>3. \A r \in Registers : reg[r] = 0 => reg'[r] = 0
      BY <2>1, <3>2 DEF TypeInv, TypeOK
    <3>4. "mode" \in Registers
      BY Constants
    <3>5. QED
      BY <2>1, <2>3, <3>1, <3>3, <3>4 DEF CalmInv
  <2>4. QED
    BY <2>2, <2>3
<1>6. CASE WriteStep \/ TankStep
  <2>1. calm' = calm
    BY <1>6 DEF WriteStep, TankStep
  <2>2. QED
    BY <1>2, <1>6, <2>1, CalmByWrite
<1>7. CASE StopStep
  BY <1>7, CalmByStop
<1>8. CASE ShutdownEnds
  <2>1. /\ todo' = <<>> /\ UNCHANGED <<reg, hb, seen, active, calm>>
    BY <1>8 DEF ShutdownEnds, StageInv, hbVars
  <2>2. PICK heard \in Received({Drive(0, 0)}) : Hears({Drive(0, 0)}, heard)
    BY <1>8 DEF ShutdownEnds
  <2>3. /\ {Drive(0, 0)} \in FrameSets /\ DOMAIN Drive(0, 0) = Wheels
        /\ \A d \in Wheels : Drive(0, 0)[d] = 0
    BY Constants, DriveIs DEF Wheels
  <2>4. \A d \in Devices \ apart' :
          /\ \A f \in {Drive(0, 0)} : d \in DOMAIN f => out'[d] = f[d]
          /\ (\A f \in {Drive(0, 0)} : d \notin DOMAIN f) => d \notin apart /\ out'[d] = out[d]
    BY <2>2, <2>3, HearsIs DEF TypeInv, TypeOK
  <2>5. \A d \in Devices \ apart' : out'[d] = 0 \/ (d \notin apart /\ out'[d] = out[d])
    BY <2>3, <2>4, Constants
  <2>6. QED
    BY <2>1, <2>5, NothingIsGood DEF CalmInv
<1>9. CASE Heartbeat
  <2>1. calm' = calm
    BY <1>9 DEF Heartbeat, HbWakes, HbLock, HbRead, HbModeOn, HbModeOnFails, HbModeOff,
       HbSendSome, HbSend
  <2>2. QED
    BY <1>2, <1>9, <2>1, CalmByHeartbeat
<1>10. CASE ReaderLoops \/ UNCHANGED vars
  BY <1>1, <1>10 DEF ReaderLoops, vars, handlerVars, hbVars, gd32Vars, Zero
<1>11. QED
  BY <1>3, <1>4, <1>5, <1>6, <1>7, <1>8, <1>9, <1>10 DEF Next, Caller

-----------------------------------------------------------------------------
LEMMA InvInit == Init => Inv
<1> SUFFICES ASSUME Init PROVE Inv
  OBVIOUS
<1>1. \A d \in Kept : d \in Registers /\ d \in Devices /\ Nothing[d] = 0
  BY Constants DEF Nothing, Kept
<1>2. DOMAIN todo = {} /\ calm = "no"
  BY DEF Init
<1>3. TellInv /\ ClearInv /\ CalmInv
  BY <1>2 DEF TellInv, ClearInv, CalmInv
<1>4. StageInv /\ CycleInv /\ FollowInv
  BY <1>1 DEF Init, StageInv, CycleInv, FollowInv
<1>5. QED
  BY <1>3, <1>4 DEF Inv

\* The driver keeps what it is told, what it repeats and what is stored together:
\* scripts tell what they store, cycles read it under the port they send on.
THEOREM DriverConsistent == Spec => [](TypeInv /\ Inv)
<1>1. TypeInv /\ Inv /\ [Next]_vars => TypeInv' /\ Inv'
  BY TypeInvStep, TellInvStep, StageInvStep, CycleInvStep, FollowInvStep, ClearInvStep,
     CalmInvStep DEF Inv
<1>2. QED
  BY <1>1, TypeInvInit, InvInit, PTL DEF Spec

\* After an emergency stop (set_component_state with "reset") everything is off, and
\* neither a heartbeat under way nor its mode switch brings anything back.
THEOREM EmergencyStopStays == Spec => []EmergencyStopHolds
<1>1. TypeInv /\ Inv => EmergencyStopHolds
  BY DEF Inv, CalmInv, EmergencyStopHolds
<1>2. QED
  BY <1>1, DriverConsistent, PTL

\* Between two commands every device does what is stored for it, whatever a heartbeat
\* cycle had read before the command took the port.
THEOREM DevicesFollowStored == Spec => []DevicesFollow
<1>1. TypeInv /\ Inv => DevicesFollow
  <2> SUFFICES ASSUME TypeInv, Inv, todo = <<>>, NEW d \in Kept \ apart
               PROVE  out[d] = reg[d] \/ (d \in Wheels /\ stage # "run" /\ out[d] = 0)
    BY DEF DevicesFollow, Kept
  <2>1. ~Owed(d)
    BY NothingOwed
  <2>2. QED
    BY <2>1 DEF Inv, FollowInv
<1>2. QED
  BY <1>1, DriverConsistent, PTL
=============================================================================
