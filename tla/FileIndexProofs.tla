--------------------------- MODULE FileIndexProofs ---------------------------
(* ScansAreSound for any number of paths, configurations, changes, commands,  *)
(* recoveries and failing scans.  The invariant has the phases of a scan      *)
(* against its generation, and path by path where the newest change of the    *)
(* disk is until the records show it: in a notification, with the watch       *)
(* thread, ahead of the walk, among the pending changes or in their replay.   *)
EXTENDS FileIndex, TLAPS

Launching == {"begin", "join"}
Noting == {"noteRemove", "noteRefresh"}
Walking == {"walk", "publish"}

(* The newest scan has not succeeded before it was published and replayed.    *)
ScanShape ==
  /\ TypeOK /\ Closed(disk)
  /\ scan # "resolve" /\ scanGeneration <= generation
  /\ \A l \in Launchers :
       launch[l] = "join" => /\ mutex = l /\ outcome = "pending"
                             /\ scan # "none" => scanGeneration < generation
  /\ scan # "none" => outcome # "succeeded"
  /\ scan \in Walking => /\ status = "indexing" /\ unread \union found \subseteq scanConfig
                         /\ unread \cap found = {}
  /\ scan = "publish" => unread = {}
  /\ scan = "replay" => published = scanGeneration /\ status = "ready"
  /\ todo # <<>> \/ step["replay"] # "idle" => scan = "replay"
  /\ outcome = "succeeded" => published = generation
  /\ status = "ready" => pending = <<>>

(* What a thread that applies a change knows of it.                           *)
StepShape ==
  /\ \A t \in Mutators :
       /\ step[t] \in {"noteRefresh", "read", "probe", "insert"} => ~change[t].remove
       /\ step[t] = "insert" => subtree[t] \subseteq known[t] \cap Target(t)
  /\ step["replay"] # "idle" /\ ~change["replay"].remove =>
       \/ step["replay"] \in {"noteRefresh", "read"}
       \/ known["replay"] = config \/ launch["ui"] \in Launching

At(t, p) == step[t] # "idle" /\ p \in Target(t)

(* What a thread has decided about p is right, unless it does not matter.     *)
Right(t, p, excuse) ==
  /\ change[t].remove => p \notin disk \/ excuse
  /\ step[t] \in {"noteRemove", "erase"} /\ ~change[t].remove =>
       p \notin disk \/ change[t].path \notin known[t]
  /\ step[t] = "insert" => (p \in subtree[t] <=> p \in disk \cap known[t])

(* Notifications come in order, so that nothing happened to p since the last. *)
NewsOf(p) ==
  /\ RemovedLast(p, events) => p \notin disk
  /\ At("watch", p) /\ ~In(p, events) => Right("watch", p, FALSE)

(* A change that the watch thread has not noted yet.                          *)
Unnoted(p) == In(p, events) \/ (step["watch"] \in Noting /\ p \in Target("watch"))

(* What the walk has missed will be replayed: a change that was noted before  *)
(* the scan had happened before it.                                           *)
WalkOf(p) ==
  scan \in Walking =>
    p \in unread \/ Unnoted(p) \/ In(p, pending) \/ (p \in found <=> p \in disk \cap scanConfig)

(* What the replay will do to p last is right, until a change overtakes it.   *)
WaitOf(p) ==
  p \notin overtaken /\ ~Unnoted(p) =>
    /\ RemovedLast(p, pending) \/ RemovedLast(p, todo) => p \notin disk \/ p \in leftOut
    /\ At("replay", p) /\ ~In(p, todo) => Right("replay", p, p \in leftOut)

(* The watch thread, or the replay, will write p, or find that it need not.   *)
Coming(p) == In(p, events) \/ (At("watch", p) /\ (step["watch"] = "probe" => known["watch"] = config))
Replaying(p) == scan = "replay" /\ (In(p, todo) \/ At("replay", p))

Excepted(p) == p \in overtaken \/ (p \in leftOut /\ p \in config)

RecordOf(p) ==
  ~Excepted(p) /\ status = "ready" /\ launch["ui"] \notin Launching =>
    /\ p \in records => p \in config
    /\ Coming(p) \/ Replaying(p) \/ Accurate(p)

PathInv(p) == NewsOf(p) /\ WalkOf(p) /\ WaitOf(p) /\ RecordOf(p)

IndexInv == ScanShape /\ StepShape /\ \A p \in Paths : PathInv(p)

-----------------------------------------------------------------------------
LEMMA InAppend ==
  ASSUME NEW s \in Seq(Change), NEW c \in Change
  PROVE  /\ Append(s, c) \in Seq(Change) /\ Append(s, c) # <<>>
         /\ \A p : In(p, Append(s, c)) <=> In(p, s) \/ Concerns(c, p)
         /\ \A p : RemovedLast(p, Append(s, c)) =>
                     IF Concerns(c, p) THEN c.remove ELSE RemovedLast(p, s)
<1>1. /\ Append(s, c) \in Seq(Change) /\ Len(Append(s, c)) = Len(s) + 1 /\ Len(s) \in Nat
      /\ \A i \in 1..Len(s) : Append(s, c)[i] = s[i]
      /\ Append(s, c)[Len(s) + 1] = c
      /\ DOMAIN Append(s, c) = 1..(Len(s) + 1) /\ DOMAIN s = 1..Len(s)
  OBVIOUS
<1>2. 1..(Len(s) + 1) = (1..Len(s)) \union {Len(s) + 1}
  BY <1>1
<1>3. Append(s, c) # <<>>
  BY <1>1
<1>4. ASSUME NEW p, RemovedLast(p, Append(s, c))
      PROVE  IF Concerns(c, p) THEN c.remove ELSE RemovedLast(p, s)
  <2>1. PICK i \in 1..(Len(s) + 1) :
          /\ Append(s, c)[i].remove /\ Concerns(Append(s, c)[i], p)
          /\ \A j \in (i + 1)..(Len(s) + 1) : ~Concerns(Append(s, c)[j], p)
    BY <1>1, <1>4 DEF RemovedLast
  <2>2. CASE i = Len(s) + 1
    BY <1>1, <2>1, <2>2
  <2>3. CASE i # Len(s) + 1
    <3>1. i \in 1..Len(s) /\ Len(s) + 1 \in (i + 1)..(Len(s) + 1)
      BY <1>1, <2>3
    <3>2. s[i].remove /\ Concerns(s[i], p)
      BY <1>1, <2>1, <3>1
    <3>3. \A j \in (i + 1)..Len(s) : j \in 1..Len(s) /\ j \in (i + 1)..(Len(s) + 1)
      BY <1>1, <3>1
    <3>4. \A j \in (i + 1)..Len(s) : ~Concerns(s[j], p)
      BY <1>1, <2>1, <3>3
    <3>5. RemovedLast(p, s)
      BY <1>1, <3>1, <3>2, <3>4 DEF RemovedLast
    <3> QED  BY <1>1, <2>1, <3>1, <3>5
  <2> QED  BY <2>2, <2>3
<1> QED  BY <1>1, <1>2, <1>3, <1>4 DEF In

LEMMA InTail ==
  ASSUME NEW s \in Seq(Change), s # <<>>
  PROVE  /\ Head(s) \in Change /\ Tail(s) \in Seq(Change)
         /\ \A p : In(p, s) <=> Concerns(Head(s), p) \/ In(p, Tail(s))
         /\ \A p : RemovedLast(p, Tail(s)) => RemovedLast(p, s)
         /\ \A p : Concerns(Head(s), p) /\ Head(s).remove /\ ~In(p, Tail(s)) => RemovedLast(p, s)
<1>1. /\ Head(s) = s[1] /\ s[1] \in Change /\ Tail(s) \in Seq(Change) /\ Len(s) \in Nat /\ Len(s) > 0
      /\ Len(Tail(s)) = Len(s) - 1 /\ DOMAIN s = 1..Len(s) /\ DOMAIN Tail(s) = 1..Len(Tail(s))
      /\ \A i \in 1..Len(Tail(s)) : Tail(s)[i] = s[i + 1]
  OBVIOUS
<1>2. \A i \in 1..Len(s) : i # 1 => i - 1 \in 1..Len(Tail(s)) /\ Tail(s)[i - 1] = s[i]
  BY <1>1
<1>3. \A i \in 1..Len(Tail(s)) : i + 1 \in 1..Len(s) /\ Tail(s)[i] = s[i + 1]
  BY <1>1
<1>4. ASSUME NEW p PROVE In(p, s) <=> Concerns(s[1], p) \/ In(p, Tail(s))
  <2>1. 1 \in 1..Len(s)
    BY <1>1
  <2>2. In(p, s) => Concerns(s[1], p) \/ In(p, Tail(s))
    BY <1>1, <1>2 DEF In
  <2>3. In(p, Tail(s)) => In(p, s)
    BY <1>1, <1>3 DEF In
  <2> QED  BY <1>1, <2>1, <2>2, <2>3 DEF In
<1>5. ASSUME NEW p, RemovedLast(p, Tail(s)) PROVE RemovedLast(p, s)
  <2>1. PICK i \in 1..Len(Tail(s)) :
          /\ Tail(s)[i].remove /\ Concerns(Tail(s)[i], p)
          /\ \A j \in (i + 1)..Len(Tail(s)) : ~Concerns(Tail(s)[j], p)
    BY <1>1, <1>5 DEF RemovedLast
  <2>2. ASSUME NEW j \in (i + 1 + 1)..Len(s) PROVE ~Concerns(s[j], p)
    <3>1. j - 1 \in (i + 1)..Len(Tail(s)) /\ j \in 1..Len(s) /\ j # 1
      BY <1>1, <2>1
    <3> QED  BY <1>2, <2>1, <3>1
  <2> QED  BY <1>1, <1>3, <2>1, <2>2 DEF RemovedLast
<1>6. ASSUME NEW p, Concerns(s[1], p), s[1].remove, ~In(p, Tail(s)) PROVE RemovedLast(p, s)
  <2>1. ASSUME NEW j \in (1 + 1)..Len(s) PROVE ~Concerns(s[j], p)
    <3>1. j - 1 \in 1..Len(Tail(s)) /\ Tail(s)[j - 1] = s[j]
      BY <1>1
    <3> QED  BY <1>1, <1>6, <3>1 DEF In
  <2>2. 1 \in 1..Len(s)
    BY <1>1
  <2> QED  BY <1>1, <1>6, <2>1, <2>2 DEF RemovedLast
<1> QED  BY <1>1, <1>4, <1>5, <1>6

LEMMA InEmpty == \A p : ~In(p, <<>>) /\ ~RemovedLast(p, <<>>)
  BY DEF In, RemovedLast

LEMMA LastIsIn == ASSUME NEW s, NEW p, RemovedLast(p, s) PROVE In(p, s)
  BY DEF In, RemovedLast

-----------------------------------------------------------------------------
(* What a step that does not touch them leaves as it was.                     *)
LEMMA NewsStays ==
  ASSUME NEW p \in Paths, NewsOf(p), UNCHANGED <<disk, events>>,
         step'["watch"] = step["watch"], change'["watch"] = change["watch"],
         known'["watch"] = known["watch"], subtree'["watch"] = subtree["watch"]
  PROVE  NewsOf(p)'
  BY DEF NewsOf, At, Target, Right

LEMMA WalkStays ==
  ASSUME NEW p \in Paths, WalkOf(p), UNCHANGED <<disk, events, pending, unread, found, scanConfig>>,
         step'["watch"] = step["watch"], change'["watch"] = change["watch"],
         scan' \in Walking => scan \in Walking
  PROVE  WalkOf(p)'
  BY DEF WalkOf, Unnoted, Target

LEMMA WaitStays ==
  ASSUME NEW p \in Paths, WaitOf(p),
         UNCHANGED <<disk, events, pending, todo, step, change, known, subtree, overtaken, leftOut>>
  PROVE  WaitOf(p)'
  BY DEF WaitOf, Unnoted, At, Right, Target

LEMMA RecordStays ==
  ASSUME NEW p \in Paths, RecordOf(p),
         UNCHANGED <<disk, events, records, config, todo, step, change, known, overtaken, leftOut>>,
         status' = "ready" => status = "ready",
         launch["ui"] \in Launching => launch'["ui"] \in Launching,
         scan = "replay" => scan' = "replay"
  PROVE  RecordOf(p)'
  BY DEF RecordOf, Excepted, Coming, Replaying, Accurate, At, Target

LEMMA StepsStay ==
  ASSUME StepShape, UNCHANGED <<step, change, known, subtree>>,
         step["replay"] # "idle" => config' = config \/ launch'["ui"] \in Launching,
         launch["ui"] \in Launching => launch'["ui"] \in Launching \/ step["replay"] = "idle"
  PROVE  StepShape'
<1>1. \A t \in Mutators :
        /\ step'[t] \in {"noteRefresh", "read", "probe", "insert"} => ~change'[t].remove
        /\ step'[t] = "insert" => subtree'[t] \subseteq known'[t] \cap Target(t)'
  BY DEF StepShape, Target
<1>2. step'["replay"] # "idle" /\ ~change'["replay"].remove =>
        \/ step'["replay"] \in {"noteRefresh", "read"}
        \/ known'["replay"] = config' \/ launch'["ui"] \in Launching
  BY DEF StepShape
<1> QED  BY <1>1, <1>2 DEF StepShape

LEMMA InitIndexInv == Init => IndexInv
<1> SUFFICES ASSUME Init PROVE IndexInv
  OBVIOUS
<1>1. TypeOK
  <2>1. NoChange \in Change
    BY PathsAssumption DEF NoChange, Change
  <2>2. events \in Seq(Change) /\ pending \in Seq(Change) /\ todo \in Seq(Change)
    BY DEF Init
  <2>3. config \subseteq Paths
    BY ConfigsAssumption DEF Init
  <2> QED  BY <2>1, <2>2, <2>3, ConfigsAssumption DEF Init, TypeOK, Launchers, Mutators
<1>2. ScanShape
  BY <1>1 DEF Init, ScanShape, Walking, Launchers, Mutators
<1>3. StepShape
  BY DEF Init, StepShape, Mutators
<1>4. ASSUME NEW p \in Paths PROVE PathInv(p)
  <2>1. step["watch"] = "idle" /\ step["replay"] = "idle"
    BY DEF Init, Mutators
  <2>2. NewsOf(p) /\ WalkOf(p) /\ WaitOf(p)
    BY <2>1, InEmpty DEF Init, NewsOf, WalkOf, WaitOf, At, Walking
  <2>3. RecordOf(p)
    BY DEF Init, RecordOf, Accurate
  <2> QED  BY <2>2, <2>3 DEF PathInv
<1> QED  BY <1>2, <1>3, <1>4 DEF IndexInv

-----------------------------------------------------------------------------
LEMMA DiskChangeInv ==
  ASSUME IndexInv, NEW q \in Paths, NEW d \in SUBSET Paths, DiskChange(q, d)
  PROVE  IndexInv'
<1>0. TypeOK /\ ScanShape /\ StepShape /\ \A p \in Paths : PathInv(p)
  BY DEF IndexInv, ScanShape
<1> DEFINE news == [path |-> q, remove |-> q \notin d]
<1>1. /\ news \in Change /\ events' = Append(events, news) /\ disk' = d /\ Closed(d)
      /\ \A p \in Paths : p \notin Under[q] => (p \in disk <=> p \in d)
      /\ changes' = changes + 1
      /\ UNCHANGED <<index, scanGate, launching, scanning, todo, mutating, configs, recoveries,
                     failures, ghosts>>
  BY DEF DiskChange, Change
<1>2. \A p : Concerns(news, p) <=> p \in Under[q]
  BY DEF Concerns
<1>3. news.remove => \A p \in Under[q] : p \notin d
  BY <1>1 DEF Closed
<1> HIDE DEF news
<1>4. /\ events' \in Seq(Change) /\ \A p : In(p, events') <=> In(p, events) \/ p \in Under[q]
      /\ \A p : RemovedLast(p, events') =>
                  IF p \in Under[q] THEN news.remove ELSE RemovedLast(p, events)
  BY <1>0, <1>1, <1>2, InAppend DEF TypeOK
<1> USE DEF index, scanGate, launching, scanning, mutating, ghosts
<1>5. TypeOK'
  <2>1. disk' \subseteq Paths /\ changes' \in Nat
    BY <1>0, <1>1 DEF TypeOK
  <2> QED  BY <1>0, <1>1, <1>4, <2>1 DEF TypeOK
<1>6. ScanShape'
  BY <1>0, <1>1, <1>5 DEF ScanShape, Closed
<1>7. StepShape'
  BY <1>0, <1>1, StepsStay
<1>8. ASSUME NEW p \in Paths PROVE PathInv(p)'
  <2>1. NewsOf(p) /\ WalkOf(p) /\ WaitOf(p) /\ RecordOf(p)
    BY <1>0 DEF PathInv
  <2>2. CASE p \in Under[q]
    <3>1. In(p, events')
      BY <1>4, <2>2
    <3>2. RemovedLast(p, events') => p \notin disk'
      BY <1>1, <1>3, <1>4, <2>2
    <3>3. NewsOf(p)' /\ WalkOf(p)' /\ WaitOf(p)'
      BY <3>1, <3>2 DEF NewsOf, WalkOf, WaitOf, Unnoted
    <3>4. RecordOf(p)'
      BY <1>1, <2>1, <3>1 DEF RecordOf, Excepted, Coming
    <3> QED  BY <3>3, <3>4 DEF PathInv
  <2>3. CASE p \notin Under[q]
    <3>1. /\ In(p, events') <=> In(p, events)
          /\ RemovedLast(p, events') => RemovedLast(p, events)
          /\ p \in disk' <=> p \in disk
      BY <1>1, <1>4, <2>3
    <3>2. NewsOf(p)'
      BY <1>1, <2>1, <3>1 DEF NewsOf, At, Right, Target
    <3>3. WalkOf(p)' /\ WaitOf(p)'
      BY <1>1, <2>1, <3>1 DEF WalkOf, WaitOf, Unnoted, At, Right, Target
    <3>4. RecordOf(p)'
      BY <1>1, <2>1, <3>1 DEF RecordOf, Excepted, Coming, Replaying, Accurate, At, Target
    <3> QED  BY <3>2, <3>3, <3>4 DEF PathInv
  <2> QED  BY <2>2, <2>3
<1> QED  BY <1>6, <1>7, <1>8 DEF IndexInv

LEMMA ConfigureInv == ASSUME IndexInv, NEW c \in Configs, Configure(c) PROVE IndexInv'
<1>0. TypeOK /\ ScanShape /\ StepShape /\ \A p \in Paths : PathInv(p)
  BY DEF IndexInv, ScanShape
<1>1. /\ launch["ui"] = "idle" /\ configs' = configs + 1 /\ config' = c /\ wanted' = c
      /\ wish' = [wish EXCEPT !["ui"] = c] /\ launch' = [launch EXCEPT !["ui"] = "begin"]
      /\ UNCHANGED <<disk, events, records, status, pending, scanGate, mutex, scanning, todo,
                     mutating, changes, recoveries, failures, saved, published, overtaken,
                     leftOut>>
  BY DEF Configure
<1> USE DEF scanGate, scanning, mutating
<1>2. /\ launch'["ui"] = "begin" /\ launch'["recovery"] = launch["recovery"]
      /\ launch' \in [Launchers -> {"idle", "begin", "join", "save", "stopping"}]
      /\ wish' \in [Launchers -> Configs] /\ configs' \in Nat
  BY <1>0, <1>1 DEF TypeOK, Launchers
<1>3. TypeOK'
  BY <1>0, <1>1, <1>2 DEF TypeOK
<1>4. ScanShape'
  BY <1>0, <1>1, <1>2, <1>3 DEF ScanShape, Launchers
<1>5. StepShape'
  BY <1>0, <1>1, <1>2, StepsStay DEF Launching
<1>6. ASSUME NEW p \in Paths PROVE PathInv(p)'
  <2>1. NewsOf(p) /\ WalkOf(p) /\ WaitOf(p) /\ RecordOf(p)
    BY <1>0 DEF PathInv
  <2>2. NewsOf(p)' /\ WalkOf(p)' /\ WaitOf(p)'
    BY <1>1, <2>1, NewsStays, WalkStays, WaitStays
  <2>3. RecordOf(p)'
    BY <1>2 DEF RecordOf, Launching
  <2> QED  BY <2>2, <2>3 DEF PathInv
<1> QED  BY <1>4, <1>5, <1>6 DEF IndexInv

LEMMA RebuildInv == ASSUME IndexInv, Rebuild PROVE IndexInv'
<1>0. TypeOK /\ ScanShape /\ StepShape /\ \A p \in Paths : PathInv(p)
  BY DEF IndexInv, ScanShape
<1>1. /\ recoveries' = recoveries + 1
      /\ wish' = [wish EXCEPT !["recovery"] = config]
      /\ launch' = [launch EXCEPT !["recovery"] = "begin"]
      /\ UNCHANGED <<disk, events, index, scanGate, mutex, scanning, todo, mutating, changes, configs,
                     failures, ghosts>>
  BY DEF Rebuild
<1> USE DEF index, scanGate, scanning, mutating, ghosts
<1>2. /\ launch'["recovery"] = "begin" /\ launch'["ui"] = launch["ui"]
      /\ launch' \in [Launchers -> {"idle", "begin", "join", "save", "stopping"}]
      /\ wish' \in [Launchers -> Configs] /\ recoveries' \in Nat
  BY <1>0, <1>1 DEF TypeOK, Launchers
<1>3. TypeOK'
  BY <1>0, <1>1, <1>2 DEF TypeOK
<1>4. ScanShape'
  BY <1>0, <1>1, <1>2, <1>3 DEF ScanShape, Launchers
<1>5. StepShape'
  BY <1>0, <1>1, <1>2, StepsStay
<1>6. ASSUME NEW p \in Paths PROVE PathInv(p)'
  <2>1. NewsOf(p) /\ WalkOf(p) /\ WaitOf(p) /\ RecordOf(p)
    BY <1>0 DEF PathInv
  <2>2. NewsOf(p)' /\ WalkOf(p)' /\ WaitOf(p)' /\ RecordOf(p)'
    BY <1>1, <1>2, <2>1, NewsStays, WalkStays, WaitStays, RecordStays
  <2> QED  BY <2>2 DEF PathInv
<1> QED  BY <1>4, <1>5, <1>6 DEF IndexInv

LEMMA LaunchBeginInv == ASSUME IndexInv, NEW l \in Launchers, LaunchBegin(l) PROVE IndexInv'
<1>0. TypeOK /\ ScanShape /\ StepShape /\ \A p \in Paths : PathInv(p)
  BY DEF IndexInv, ScanShape
<1>1. /\ launch[l] = "begin" /\ mutex = "free" /\ mutex' = l /\ generation' = generation + 1
      /\ outcome' = "pending" /\ stopScan' = (stopScan \/ scan # "none")
      /\ launch' = [launch EXCEPT ![l] = "join"]
      /\ UNCHANGED <<disk, events, index, wish, scan, scanGeneration, scanConfig, unread, found,
                     todo, mutating, bounds, ghosts>>
  BY DEF LaunchBegin
<1> USE DEF index, mutating, bounds, ghosts
<1>2. /\ launch'[l] = "join" /\ \A k \in Launchers : k # l => launch'[k] = launch[k]
      /\ launch' \in [Launchers -> {"idle", "begin", "join", "save", "stopping"}]
      /\ launch'["recovery"] # "save"
      /\ generation' \in Nat /\ stopScan' \in BOOLEAN /\ mutex' \in Launchers \union {"free"}
  BY <1>0, <1>1 DEF TypeOK, Launchers
<1>3. TypeOK'
  BY <1>0, <1>1, <1>2 DEF TypeOK
<1>4. ScanShape'
  <2>1. \A k \in Launchers : launch[k] # "join"
    BY <1>0, <1>1 DEF ScanShape, Launchers
  <2>2. scanGeneration < generation'
    BY <1>0, <1>1 DEF ScanShape, TypeOK
  <2>3. \A k \in Launchers : launch'[k] = "join" => k = l
    BY <1>2, <2>1
  <2>4. scanGeneration' <= generation'
    BY <1>0, <1>1, <2>2 DEF TypeOK
  <2> QED  BY <1>0, <1>1, <1>3, <2>2, <2>3, <2>4 DEF ScanShape
<1>5. launch["ui"] \in Launching <=> launch'["ui"] \in Launching
  BY <1>1, <1>2 DEF Launching, Launchers
<1>6. StepShape'
  BY <1>0, <1>1, <1>5, StepsStay
<1>7. ASSUME NEW p \in Paths PROVE PathInv(p)'
  <2>1. NewsOf(p) /\ WalkOf(p) /\ WaitOf(p) /\ RecordOf(p)
    BY <1>0 DEF PathInv
  <2>2. NewsOf(p)' /\ WalkOf(p)' /\ WaitOf(p)' /\ RecordOf(p)'
    BY <1>1, <1>5, <2>1, NewsStays, WalkStays, WaitStays, RecordStays
  <2> QED  BY <2>2 DEF PathInv
<1> QED  BY <1>4, <1>6, <1>7 DEF IndexInv

LEMMA LaunchThreadInv == ASSUME IndexInv, NEW l \in Launchers, LaunchThread(l) PROVE IndexInv'
<1>0. TypeOK /\ ScanShape /\ StepShape /\ \A p \in Paths : PathInv(p)
  BY DEF IndexInv, ScanShape
<1>1. /\ launch[l] = "join" /\ scan = "none" /\ status' = "indexing" /\ scan' = "walk"
      /\ scanGeneration' = generation /\ scanConfig' = wish[l] /\ stopScan' = FALSE
      /\ unread' = wish[l] /\ found' = {} /\ mutex' = "free"
      /\ launch' = [launch EXCEPT ![l] = AfterLaunch(l)]
      /\ UNCHANGED <<disk, events, records, config, pending, scanGate, wish, todo, mutating, bounds,
                     ghosts>>
  BY DEF LaunchThread, Release
<1> USE DEF scanGate, mutating, bounds, ghosts
<1>2. /\ \A k \in Launchers : launch'[k] # "join"
      /\ launch' \in [Launchers -> {"idle", "begin", "join", "save", "stopping"}]
      /\ launch'["recovery"] # "save"
  <2>1. \A k \in Launchers : k # l => launch[k] # "join"
    BY <1>0, <1>1 DEF ScanShape
  <2> QED  BY <1>0, <1>1, <2>1 DEF TypeOK, AfterLaunch, Launchers
<1>3. wish[l] \in Configs /\ wish[l] \subseteq Paths
  BY <1>0, ConfigsAssumption DEF TypeOK
<1>4. TypeOK'
  BY <1>0, <1>1, <1>2, <1>3 DEF TypeOK
<1>5. /\ outcome = "pending" /\ todo = <<>> /\ step["replay"] = "idle"
  BY <1>0, <1>1 DEF ScanShape
<1>6. ScanShape'
  <2>1. scanGeneration' <= generation'
    BY <1>0, <1>1 DEF TypeOK
  <2>2. Closed(disk)'
    BY <1>0, <1>1 DEF ScanShape, Closed
  <2> QED  BY <1>1, <1>2, <1>4, <1>5, <2>1, <2>2 DEF ScanShape, Walking
<1>7. StepShape'
  BY <1>0, <1>1, <1>5, StepsStay
<1>8. ASSUME NEW p \in Paths PROVE PathInv(p)'
  <2>1. NewsOf(p) /\ WaitOf(p)
    BY <1>0 DEF PathInv
  <2>2. NewsOf(p)' /\ WaitOf(p)'
    BY <1>1, <2>1, NewsStays, WaitStays
  <2>3. WalkOf(p)' /\ RecordOf(p)'
    BY <1>1 DEF WalkOf, RecordOf
  <2> QED  BY <2>2, <2>3 DEF PathInv
<1> QED  BY <1>6, <1>7, <1>8 DEF IndexInv

LEMMA SaveSettingsInv == ASSUME IndexInv, SaveSettings PROVE IndexInv'
<1>0. TypeOK /\ ScanShape /\ StepShape /\ \A p \in Paths : PathInv(p)
  BY DEF IndexInv, ScanShape
<1>1. /\ launch["ui"] = "save" /\ saved' = config /\ launch' = [launch EXCEPT !["ui"] = "idle"]
      /\ UNCHANGED <<disk, events, index, scanGate, mutex, wish, scanning, todo, mutating, bounds,
                     wanted, published, overtaken, leftOut>>
  BY DEF SaveSettings
<1> USE DEF index, scanGate, scanning, mutating, bounds
<1>2. /\ launch'["ui"] = "idle" /\ launch'["recovery"] = launch["recovery"]
      /\ launch' \in [Launchers -> {"idle", "begin", "join", "save", "stopping"}]
  BY <1>0, <1>1 DEF TypeOK, Launchers
<1>3. TypeOK'
  BY <1>0, <1>1, <1>2 DEF TypeOK
<1>4. ScanShape'
  BY <1>0, <1>1, <1>2, <1>3 DEF ScanShape, Launchers
<1>5. launch["ui"] \notin Launching
  BY <1>1 DEF Launching
<1>6. StepShape'
  BY <1>0, <1>1, <1>5, StepsStay DEF StepShape
<1>7. ASSUME NEW p \in Paths PROVE PathInv(p)'
  <2>1. NewsOf(p) /\ WalkOf(p) /\ WaitOf(p) /\ RecordOf(p)
    BY <1>0 DEF PathInv
  <2>2. NewsOf(p)' /\ WalkOf(p)' /\ WaitOf(p)' /\ RecordOf(p)'
    BY <1>1, <1>5, <2>1, NewsStays, WalkStays, WaitStays, RecordStays
  <2> QED  BY <2>2 DEF PathInv
<1> QED  BY <1>4, <1>6, <1>7 DEF IndexInv

LEMMA StopBeginInv == ASSUME IndexInv, StopBegin PROVE IndexInv'
<1>0. TypeOK /\ ScanShape /\ StepShape /\ \A p \in Paths : PathInv(p)
  BY DEF IndexInv, ScanShape
<1>1. /\ \A l \in Launchers : launch[l] = "idle" /\ launch'[l] = "stopping"
      /\ mutex' = "ui" /\ stopScan' = TRUE
      /\ outcome' = (IF scan # "none" /\ outcome = "pending" THEN "superseded" ELSE outcome)
      /\ launch' = [l \in Launchers |-> "stopping"]
      /\ UNCHANGED <<disk, events, index, generation, wish, scan, scanGeneration, scanConfig,
                     unread, found, todo, mutating, bounds, ghosts>>
  BY DEF StopBegin
<1> USE DEF index, mutating, bounds, ghosts
<1>2. TypeOK'
  BY <1>0, <1>1 DEF TypeOK, Launchers
<1>3. ScanShape'
  BY <1>0, <1>1, <1>2 DEF ScanShape
<1>4. launch["ui"] \notin Launching /\ launch'["ui"] \notin Launching
  BY <1>1 DEF Launching, Launchers
<1>5. StepShape'
  BY <1>0, <1>1, <1>4, StepsStay DEF StepShape
<1>6. ASSUME NEW p \in Paths PROVE PathInv(p)'
  <2>1. NewsOf(p) /\ WalkOf(p) /\ WaitOf(p) /\ RecordOf(p)
    BY <1>0 DEF PathInv
  <2>2. NewsOf(p)' /\ WalkOf(p)' /\ WaitOf(p)' /\ RecordOf(p)'
    BY <1>1, <1>4, <2>1, NewsStays, WalkStays, WaitStays, RecordStays
  <2> QED  BY <2>2 DEF PathInv
<1> QED  BY <1>3, <1>5, <1>6 DEF IndexInv

-----------------------------------------------------------------------------
LEMMA ScanStoppedInv == ASSUME IndexInv, ScanStopped PROVE IndexInv'
<1>0. TypeOK /\ ScanShape /\ StepShape /\ \A p \in Paths : PathInv(p)
  BY DEF IndexInv, ScanShape
<1>1. /\ scan = "walk" /\ scan' = "none"
      /\ outcome' = (IF scanGeneration = generation /\ outcome = "pending" THEN "superseded"
                     ELSE outcome)
      /\ UNCHANGED <<disk, events, index, generation, launching, scanGeneration, scanConfig,
                     stopScan, unread, found, todo, mutating, bounds, ghosts>>
  BY DEF ScanStopped, Resolve
<1> USE DEF index, launching, mutating, bounds, ghosts
<1>2. TypeOK'
  BY <1>0, <1>1 DEF TypeOK
<1>3. ScanShape'
  BY <1>0, <1>1, <1>2 DEF ScanShape, TypeOK, Walking
<1>4. StepShape'
  BY <1>0, <1>1, StepsStay
<1>5. ASSUME NEW p \in Paths PROVE PathInv(p)'
  <2>1. NewsOf(p) /\ WalkOf(p) /\ WaitOf(p) /\ RecordOf(p)
    BY <1>0 DEF PathInv
  <2>2. NewsOf(p)' /\ WalkOf(p)' /\ WaitOf(p)' /\ RecordOf(p)'
    BY <1>1, <2>1, NewsStays, WalkStays, WaitStays, RecordStays DEF Walking
  <2> QED  BY <2>2 DEF PathInv
<1> QED  BY <1>3, <1>4, <1>5 DEF IndexInv

LEMMA ScanVisitInv == ASSUME IndexInv, NEW q \in Paths, ScanVisit(q) PROVE IndexInv'
<1>0. TypeOK /\ ScanShape /\ StepShape /\ \A p \in Paths : PathInv(p)
  BY DEF IndexInv, ScanShape
<1>1. /\ scan = "walk" /\ q \in unread
      /\ unread' = unread \ (IF q \in disk THEN {q} ELSE Under[q])
      /\ found' = found \union ({q} \cap disk)
      /\ UNCHANGED <<disk, events, index, scanGate, launching, scan, scanGeneration, scanConfig,
                     stopScan, todo, mutating, bounds, ghosts>>
  BY DEF ScanVisit
<1> USE DEF index, scanGate, launching, mutating, bounds, ghosts
<1>2. TypeOK'
  BY <1>0, <1>1 DEF TypeOK
<1>3. ScanShape'
  BY <1>0, <1>1, <1>2 DEF ScanShape, Walking
<1>4. StepShape'
  BY <1>0, <1>1, StepsStay
<1>5. ASSUME NEW p \in Paths PROVE PathInv(p)'
  <2>1. NewsOf(p) /\ WalkOf(p) /\ WaitOf(p) /\ RecordOf(p)
    BY <1>0 DEF PathInv
  <2>2. NewsOf(p)' /\ WaitOf(p)' /\ RecordOf(p)'
    BY <1>1, <2>1, NewsStays, WaitStays, RecordStays
  <2>3. WalkOf(p)'
    <3>1. q \in scanConfig /\ q \notin found /\ q \in Under[q]
      BY <1>0, <1>1, PathsAssumption DEF ScanShape, Walking
    <3>4. CASE p # q /\ p \in unread /\ p \notin unread'
      <4>1. p \notin disk /\ p \notin found'
        BY <1>0, <1>1, <3>4 DEF ScanShape, Closed, Walking
      <4> QED  BY <1>1, <4>1 DEF WalkOf
    <3>2. CASE p = q
      <4>1. p \in found' <=> p \in disk
        BY <1>1, <3>1, <3>2
      <4> QED  BY <3>1, <3>2, <4>1, <1>1 DEF WalkOf
    <3>3. CASE p # q /\ (p \in unread => p \in unread')
      BY <1>1, <2>1, <3>3 DEF WalkOf, Unnoted, Target
    <3> QED  BY <3>2, <3>3, <3>4
  <2> QED  BY <2>2, <2>3 DEF PathInv
<1> QED  BY <1>3, <1>4, <1>5 DEF IndexInv

LEMMA ScanDoneInv == ASSUME IndexInv, ScanDone PROVE IndexInv'
<1>0. TypeOK /\ ScanShape /\ StepShape /\ \A p \in Paths : PathInv(p)
  BY DEF IndexInv, ScanShape
<1>1. /\ scan = "walk" /\ unread = {} /\ scan' = "publish"
      /\ UNCHANGED <<disk, events, index, scanGate, launching, scanGeneration, scanConfig, stopScan,
                     unread, found, todo, mutating, bounds, ghosts>>
  BY DEF ScanDone
<1> USE DEF index, scanGate, launching, mutating, bounds, ghosts
<1>2. TypeOK'
  BY <1>0, <1>1 DEF TypeOK
<1>3. ScanShape'
  BY <1>0, <1>1, <1>2 DEF ScanShape, Walking
<1>4. StepShape'
  BY <1>0, <1>1, StepsStay
<1>5. ASSUME NEW p \in Paths PROVE PathInv(p)'
  <2>1. NewsOf(p) /\ WalkOf(p) /\ WaitOf(p) /\ RecordOf(p)
    BY <1>0 DEF PathInv
  <2>2. NewsOf(p)' /\ WalkOf(p)' /\ WaitOf(p)' /\ RecordOf(p)'
    BY <1>1, <2>1, NewsStays, WalkStays, WaitStays, RecordStays DEF Walking
  <2> QED  BY <2>2 DEF PathInv
<1> QED  BY <1>3, <1>4, <1>5 DEF IndexInv

(* The records become what the walk found; what it missed is to be replayed,  *)
(* or still with the watch thread, which writes the new records from now on.  *)
LEMMA ScanPublishInv == ASSUME IndexInv, ScanPublish PROVE IndexInv'
<1>0. TypeOK /\ ScanShape /\ StepShape /\ \A p \in Paths : PathInv(p)
  BY DEF IndexInv, ScanShape
<1>1. /\ scan = "publish" /\ records' = found /\ config' = scanConfig /\ todo' = pending
      /\ pending' = <<>> /\ status' = "ready" /\ published' = scanGeneration /\ scan' = "replay"
      /\ UNCHANGED <<disk, events, scanGate, launching, scanGeneration, scanConfig, stopScan, unread,
                     found, mutating, bounds, wanted, saved>>
      /\ overtaken' = {p \in overtaken : In(p, pending)}
      /\ leftOut' = {p \in leftOut : In(p, pending)}
  BY DEF ScanPublish, ToReplay, AfterPublish
<1> USE DEF scanGate, launching, mutating, bounds
<1>2. TypeOK'
  BY <1>0, <1>1 DEF TypeOK
<1>3. ScanShape'
  BY <1>0, <1>1, <1>2 DEF ScanShape, Walking
<1>4. StepShape'
  <2>1. step["replay"] = "idle"
    BY <1>0, <1>1 DEF ScanShape
  <2> QED  BY <1>0, <1>1, <2>1, StepsStay
<1>5. ASSUME NEW p \in Paths PROVE PathInv(p)'
  <2>1. NewsOf(p) /\ WalkOf(p) /\ WaitOf(p)
    BY <1>0 DEF PathInv
  <2>2. NewsOf(p)' /\ WalkOf(p)'
    BY <1>1, <2>1, NewsStays DEF WalkOf, Walking
  <2>3. p \notin unread /\ (p \in found => p \in scanConfig)
    BY <1>0, <1>1 DEF ScanShape, Walking
  <2>4. Unnoted(p) \/ In(p, pending) \/ (p \in found <=> p \in disk \cap scanConfig)
    BY <1>1, <2>1, <2>3 DEF WalkOf, Walking
  <2>5. WaitOf(p)'
    <3>1. step'["replay"] = "idle"
      BY <1>0, <1>1 DEF ScanShape
    <3>2. RemovedLast(p, pending) => In(p, pending)
      BY LastIsIn
    <3>3. ~RemovedLast(p, pending')
      BY <1>1, InEmpty
    <3>4. Unnoted(p)' <=> Unnoted(p)
      BY <1>1 DEF Unnoted, Target
    <3> QED  BY <1>1, <2>1, <3>1, <3>2, <3>3, <3>4 DEF WaitOf, At
  <2>6. RecordOf(p)'
    BY <1>1, <2>3, <2>4 DEF RecordOf, Coming, Replaying, Accurate, At, Noting, Unnoted, Target
  <2> QED  BY <2>2, <2>5, <2>6 DEF PathInv
<1> QED  BY <1>3, <1>4, <1>5 DEF IndexInv

LEMMA ScanResolveInv == ASSUME IndexInv, ScanResolve PROVE IndexInv'
<1>0. TypeOK /\ ScanShape /\ StepShape /\ \A p \in Paths : PathInv(p)
  BY DEF IndexInv, ScanShape
<1>1. /\ scan = "replay" /\ todo = <<>> /\ step["replay"] = "idle" /\ scan' = "none"
      /\ outcome' = (IF scanGeneration = generation /\ outcome = "pending" THEN "succeeded"
                     ELSE outcome)
      /\ UNCHANGED <<disk, events, index, generation, launching, scanGeneration, scanConfig,
                     stopScan, unread, found, todo, mutating, bounds, ghosts>>
  BY <1>0 DEF ScanResolve, Resolve, ScanShape
<1> USE DEF index, launching, mutating, bounds, ghosts
<1>2. TypeOK'
  BY <1>0, <1>1 DEF TypeOK
<1>3. ScanShape'
  BY <1>0, <1>1, <1>2 DEF ScanShape, TypeOK, Walking
<1>4. StepShape'
  BY <1>0, <1>1, StepsStay
<1>5. ASSUME NEW p \in Paths PROVE PathInv(p)'
  <2>1. NewsOf(p) /\ WalkOf(p) /\ WaitOf(p) /\ RecordOf(p)
    BY <1>0 DEF PathInv
  <2>2. NewsOf(p)' /\ WalkOf(p)' /\ WaitOf(p)'
    BY <1>1, <2>1, NewsStays, WalkStays, WaitStays DEF Walking
  <2>3. ~Replaying(p)
    BY <1>1, InEmpty DEF Replaying, At
  <2>4. RecordOf(p)'
    BY <1>1, <2>1, <2>3 DEF RecordOf, Excepted, Coming, Accurate, At, Target
  <2> QED  BY <2>2, <2>4 DEF PathInv
<1> QED  BY <1>3, <1>4, <1>5 DEF IndexInv

LEMMA ScanFailsInv == ASSUME IndexInv, ScanFails PROVE IndexInv'
<1>0. TypeOK /\ ScanShape /\ StepShape /\ \A p \in Paths : PathInv(p)
  BY DEF IndexInv, ScanShape
<1>1. /\ scan = "walk" /\ scan' = "none" /\ status' = "failed" /\ failures' = failures + 1
      /\ outcome' = (IF scanGeneration = generation /\ outcome = "pending" THEN "failed"
                     ELSE outcome)
      /\ UNCHANGED <<disk, events, records, config, pending, generation, launching, scanGeneration,
                     scanConfig, stopScan, unread, found, todo, mutating, changes, configs,
                     recoveries, ghosts>>
  BY DEF ScanFails, Resolve, Failure
<1> USE DEF launching, mutating, ghosts
<1>2. TypeOK'
  BY <1>0, <1>1 DEF TypeOK
<1>3. ScanShape'
  BY <1>0, <1>1, <1>2 DEF ScanShape, TypeOK, Walking
<1>4. StepShape'
  BY <1>0, <1>1, StepsStay
<1>5. ASSUME NEW p \in Paths PROVE PathInv(p)'
  <2>1. NewsOf(p) /\ WalkOf(p) /\ WaitOf(p) /\ RecordOf(p)
    BY <1>0 DEF PathInv
  <2>2. NewsOf(p)' /\ WalkOf(p)' /\ WaitOf(p)'
    BY <1>1, <2>1, NewsStays, WalkStays, WaitStays DEF Walking
  <2>3. RecordOf(p)'
    BY <1>1 DEF RecordOf
  <2> QED  BY <2>2, <2>3 DEF PathInv
<1> QED  BY <1>3, <1>4, <1>5 DEF IndexInv

-----------------------------------------------------------------------------
Steps == {"idle", "noteRemove", "noteRefresh", "read", "probe", "insert", "erase"}

LEMMA StepMoves ==
  ASSUME TypeOK, NEW t \in Mutators, NEW s \in Steps, step' = [step EXCEPT ![t] = s]
  PROVE  /\ step' \in [Mutators -> {"idle", "noteRemove", "noteRefresh", "read", "probe", "insert",
                                   "erase"}]
         /\ step'[t] = s /\ \A u \in Mutators : u # t => step'[u] = step[u]
  BY DEF TypeOK, Steps

LEMMA TargetIsPaths == ASSUME TypeOK, NEW t \in Mutators PROVE Target(t) \subseteq Paths
<1>1. change[t].path \in Paths
  BY DEF TypeOK, Change
<1> QED  BY <1>1, PathsAssumption DEF Target

LEMMA TakeEventInv == ASSUME IndexInv, TakeEvent PROVE IndexInv'
<1>0. TypeOK /\ ScanShape /\ StepShape /\ \A p \in Paths : PathInv(p)
  BY DEF IndexInv, ScanShape
<1> DEFINE news == Head(events)
<1>1. /\ events # <<>> /\ step["watch"] = "idle" /\ events' = Tail(events)
      /\ change' = [change EXCEPT !["watch"] = news]
      /\ step' = [step EXCEPT !["watch"] = IF news.remove THEN "noteRemove" ELSE "noteRefresh"]
      /\ UNCHANGED <<disk, index, scanGate, launching, scanning, todo, known, subtree, bounds, ghosts>>
  BY DEF TakeEvent, TakeChange
<1> USE DEF index, scanGate, launching, scanning, bounds, ghosts
<1>2. /\ news \in Change /\ events' \in Seq(Change) /\ events \in Seq(Change)
      /\ \A p : In(p, events) <=> p \in Under[news.path] \/ In(p, events')
      /\ \A p : RemovedLast(p, events') => RemovedLast(p, events)
      /\ \A p : p \in Under[news.path] /\ news.remove /\ ~In(p, events') => RemovedLast(p, events)
  BY <1>0, <1>1, InTail DEF TypeOK, Concerns
<1>3. /\ step' \in [Mutators -> {"idle", "noteRemove", "noteRefresh", "read", "probe", "insert",
                                "erase"}]
      /\ step'["watch"] = (IF news.remove THEN "noteRemove" ELSE "noteRefresh")
      /\ step'["replay"] = step["replay"]
  <2>1. (IF news.remove THEN "noteRemove" ELSE "noteRefresh") \in Steps
    BY DEF Steps
  <2> QED  BY <1>0, <1>1, <2>1, StepMoves DEF Mutators
<1>4. /\ change' \in [Mutators -> Change]
      /\ change'["watch"] = news /\ change'["replay"] = change["replay"]
  BY <1>0, <1>1, <1>2 DEF TypeOK, Mutators
<1> HIDE DEF news
<1>5. TypeOK'
  BY <1>0, <1>1, <1>2, <1>3, <1>4 DEF TypeOK
<1>6. ScanShape'
  BY <1>0, <1>1, <1>3, <1>5 DEF ScanShape, Closed
<1>7. StepShape'
  BY <1>0, <1>1, <1>3, <1>4 DEF StepShape, Mutators, Target
<1>8. ASSUME NEW p \in Paths PROVE PathInv(p)'
  <2>1. NewsOf(p) /\ WalkOf(p) /\ WaitOf(p) /\ RecordOf(p)
    BY <1>0 DEF PathInv
  <2>2. NewsOf(p)'
    <3>1. RemovedLast(p, events') => p \notin disk
      BY <1>2, <2>1 DEF NewsOf
    <3>2. p \in Under[news.path] /\ news.remove /\ ~In(p, events') => p \notin disk
      BY <1>2, <2>1 DEF NewsOf
    <3> QED  BY <1>1, <1>3, <1>4, <3>1, <3>2 DEF NewsOf, At, Target, Right
  <2>3. Unnoted(p)' <=> Unnoted(p)
    BY <1>1, <1>2, <1>3, <1>4 DEF Unnoted, Noting, Target
  <2>4. WalkOf(p)'
    BY <1>1, <2>1, <2>3 DEF WalkOf
  <2>5. WaitOf(p)'
    BY <1>1, <1>3, <1>4, <2>1, <2>3 DEF WaitOf, At, Target, Right
  <2>6. RecordOf(p)'
    BY <1>1, <1>2, <1>3, <1>4, <2>1 DEF RecordOf, Excepted, Coming, Replaying, Accurate, At, Target
  <2> QED  BY <2>2, <2>4, <2>5, <2>6 DEF PathInv
<1> QED  BY <1>6, <1>7, <1>8 DEF IndexInv

LEMMA TakeReplayInv == ASSUME IndexInv, TakeReplay PROVE IndexInv'
<1>0. TypeOK /\ ScanShape /\ StepShape /\ \A p \in Paths : PathInv(p)
  BY DEF IndexInv, ScanShape
<1> DEFINE old == Head(todo)
<1>1. /\ scan = "replay" /\ todo # <<>> /\ step["replay"] = "idle" /\ todo' = Tail(todo)
      /\ change' = [change EXCEPT !["replay"] = old]
      /\ step' = [step EXCEPT !["replay"] = IF old.remove THEN "noteRemove" ELSE "noteRefresh"]
      /\ UNCHANGED <<disk, events, index, scanGate, launching, scanning, known, subtree, bounds, ghosts>>
  BY DEF TakeReplay, TakeChange
<1> USE DEF index, scanGate, launching, scanning, bounds, ghosts
<1>2. /\ old \in Change /\ todo' \in Seq(Change)
      /\ \A p : In(p, todo) <=> p \in Under[old.path] \/ In(p, todo')
      /\ \A p : RemovedLast(p, todo') => RemovedLast(p, todo)
      /\ \A p : p \in Under[old.path] /\ old.remove /\ ~In(p, todo') => RemovedLast(p, todo)
  BY <1>0, <1>1, InTail DEF TypeOK, Concerns
<1>3. /\ step' \in [Mutators -> {"idle", "noteRemove", "noteRefresh", "read", "probe", "insert",
                                "erase"}]
      /\ step'["replay"] = (IF old.remove THEN "noteRemove" ELSE "noteRefresh")
      /\ step'["watch"] = step["watch"]
  <2>1. (IF old.remove THEN "noteRemove" ELSE "noteRefresh") \in Steps
    BY DEF Steps
  <2> QED  BY <1>0, <1>1, <2>1, StepMoves DEF Mutators
<1>4. /\ change' \in [Mutators -> Change]
      /\ change'["replay"] = old /\ change'["watch"] = change["watch"]
  BY <1>0, <1>1, <1>2 DEF TypeOK, Mutators
<1> HIDE DEF old
<1>5. TypeOK'
  BY <1>0, <1>1, <1>2, <1>3, <1>4 DEF TypeOK
<1>6. ScanShape'
  BY <1>0, <1>1, <1>3, <1>5 DEF ScanShape, Closed
<1>7. StepShape'
  BY <1>0, <1>1, <1>3, <1>4 DEF StepShape, Mutators, Target
<1>8. ASSUME NEW p \in Paths PROVE PathInv(p)'
  <2>1. NewsOf(p) /\ WalkOf(p) /\ WaitOf(p) /\ RecordOf(p)
    BY <1>0 DEF PathInv
  <2>2. NewsOf(p)' /\ WalkOf(p)'
    BY <1>1, <1>3, <1>4, <2>1, NewsStays, WalkStays
  <2>3. WaitOf(p)'
    <3> SUFFICES ASSUME p \notin overtaken, ~Unnoted(p)
                 PROVE  /\ RemovedLast(p, todo') => p \notin disk \/ p \in leftOut
                        /\ RemovedLast(p, pending) => p \notin disk \/ p \in leftOut
                        /\ At("replay", p)' /\ ~In(p, todo') => Right("replay", p, p \in leftOut)'
      BY <1>1, <1>3, <1>4 DEF WaitOf, Unnoted, Target
    <3>1. RemovedLast(p, pending) \/ RemovedLast(p, todo) => p \notin disk \/ p \in leftOut
      BY <2>1 DEF WaitOf
    <3> QED  BY <1>1, <1>2, <1>3, <1>4, <3>1 DEF At, Target, Right
  <2>4. RecordOf(p)'
    BY <1>1, <1>2, <1>3, <1>4, <2>1 DEF RecordOf, Excepted, Coming, Replaying, Accurate, At, Target
  <2> QED  BY <2>2, <2>3, <2>4 DEF PathInv
<1> QED  BY <1>6, <1>7, <1>8 DEF IndexInv

(* A change that is noted will be replayed after those noted before it; one   *)
(* that is not noted while a replay of older ones has been decided overtakes. *)
LEMMA NoteInv == ASSUME IndexInv, NEW t \in Mutators, Note(t) PROVE IndexInv'
<1>0. TypeOK /\ ScanShape /\ StepShape /\ \A p \in Paths : PathInv(p)
  BY DEF IndexInv, ScanShape
<1> DEFINE next == IF step[t] = "noteRemove" THEN "erase" ELSE "read"
<1> DEFINE note == [path |-> change[t].path, remove |-> step[t] = "noteRemove"]
<1> DEFINE excluded ==
      step[t] = "noteRemove" /\ ~change[t].remove /\ change[t].path \notin known[t]
<1>1. /\ step[t] \in Noting /\ step' = [step EXCEPT ![t] = next]
      /\ pending' = (IF status = "indexing" THEN Append(pending, note) ELSE pending)
      /\ overtaken' = (IF status = "indexing" THEN overtaken \ Target(t)
                       ELSE overtaken \union {p \in Target(t) : t = "watch" /\ ReplayDecides(p)})
      /\ leftOut' = (IF status # "indexing" THEN leftOut
                     ELSE IF excluded THEN leftOut \union Target(t) ELSE leftOut \ Target(t))
      /\ UNCHANGED <<disk, events, records, config, status, scanGate, launching, scanning, todo, change,
                     known, subtree, bounds, wanted, saved, published>>
  BY DEF Note, Noting, Indexing, RememberNote
<1> USE DEF scanGate, launching, scanning, bounds
<1>2. /\ note \in Change /\ pending' \in Seq(Change)
      /\ \A p : In(p, pending') <=> In(p, pending) \/ (status = "indexing" /\ p \in Target(t))
      /\ status = "indexing" => \A p : RemovedLast(p, pending') =>
           IF p \in Target(t) THEN step[t] = "noteRemove" ELSE RemovedLast(p, pending)
  <2>1. change[t].path \in Paths
    BY <1>0 DEF TypeOK, Change
  <2>2. note \in Change
    BY <2>1 DEF Change
  <2>3. note.remove = (step[t] = "noteRemove") /\ \A p : Concerns(note, p) <=> p \in Target(t)
    BY DEF Concerns, Target
  <2> HIDE DEF note
  <2>4. pending \in Seq(Change)
    BY <1>0 DEF TypeOK
  <2>5. CASE status = "indexing"
    BY <1>1, <2>2, <2>3, <2>4, <2>5, InAppend
  <2>6. CASE status # "indexing"
    BY <1>1, <2>2, <2>4, <2>6
  <2> QED  BY <2>5, <2>6
<1>3. /\ step' \in [Mutators -> {"idle", "noteRemove", "noteRefresh", "read", "probe", "insert",
                                "erase"}]
      /\ step'[t] = next /\ \A u \in Mutators : u # t => step'[u] = step[u]
  <2>1. next \in Steps
    BY DEF Steps
  <2> QED  BY <1>0, <1>1, <2>1, StepMoves
<1> HIDE DEF note, excluded
<1>4. TypeOK'
  <2>1. overtaken' \subseteq Paths /\ leftOut' \subseteq Paths
    BY <1>0, <1>1, TargetIsPaths DEF TypeOK
  <2> QED  BY <1>0, <1>1, <1>2, <1>3, <2>1 DEF TypeOK
<1>5. ScanShape'
  <2>1. step'["replay"] # "idle" => step["replay"] # "idle"
    BY <1>1, <1>3 DEF Mutators, Noting
  <2>2. status' = "ready" => pending' = <<>>
    BY <1>0, <1>1 DEF ScanShape
  <2> QED  BY <1>0, <1>1, <1>4, <2>1, <2>2 DEF ScanShape, Closed
<1>6. StepShape'
  <2>1. ASSUME NEW u \in Mutators
        PROVE  /\ step'[u] \in {"noteRefresh", "read", "probe", "insert"} => ~change'[u].remove
               /\ step'[u] = "insert" => subtree'[u] \subseteq known'[u] \cap Target(u)'
    BY <1>0, <1>1, <1>3 DEF StepShape, Noting, Target
  <2>2. step'["replay"] # "idle" /\ ~change["replay"].remove =>
          \/ step'["replay"] \in {"noteRefresh", "read"}
          \/ known["replay"] = config \/ launch["ui"] \in Launching
    BY <1>0, <1>1, <1>3 DEF StepShape, Mutators, Noting
  <2> QED  BY <1>1, <2>1, <2>2 DEF StepShape
<1>7. ASSUME NEW p \in Paths PROVE PathInv(p)'
  <2>1. NewsOf(p) /\ WalkOf(p) /\ WaitOf(p) /\ RecordOf(p)
    BY <1>0 DEF PathInv
  <2>2. NewsOf(p)'
    BY <1>1, <1>3, <2>1 DEF NewsOf, At, Mutators, Noting, Target, Right
  <2>3. WalkOf(p)'
    <3>1. scan \in Walking => status = "indexing"
      BY <1>0 DEF ScanShape
    <3> QED  BY <1>1, <1>2, <1>3, <2>1, <3>1 DEF WalkOf, Mutators, Unnoted, Target
  <2>4. WaitOf(p)'
    <3> SUFFICES ASSUME p \notin overtaken', ~Unnoted(p)'
                 PROVE  /\ RemovedLast(p, pending') \/ RemovedLast(p, todo) =>
                             p \notin disk \/ p \in leftOut'
                        /\ At("replay", p)' /\ ~In(p, todo) => Right("replay", p, p \in leftOut)'
      BY <1>1 DEF WaitOf
    <3>1. CASE status = "indexing"
      <4>1. todo = <<>> /\ step["replay"] = "idle" /\ t = "watch"
        BY <1>0, <1>1, <3>1 DEF ScanShape, Mutators, Noting
      <4>2. step'["replay"] = "idle" /\ ~RemovedLast(p, todo)
        BY <1>3, <4>1, InEmpty DEF Mutators
      <4>3. ASSUME RemovedLast(p, pending') PROVE p \notin disk \/ p \in leftOut'
        <5>1. CASE p \in Target("watch")
          <6>1. step["watch"] = "noteRemove" /\ ~In(p, events)
            BY <1>1, <1>2, <3>1, <4>1, <4>3, <5>1 DEF Unnoted
          <6>2. Right("watch", p, FALSE)
            BY <2>1, <5>1, <6>1 DEF NewsOf, At
          <6>3. p \notin disk \/ excluded
            BY <4>1, <6>1, <6>2 DEF Right, excluded
          <6> QED  BY <1>1, <3>1, <4>1, <5>1, <6>3
        <5>2. CASE p \notin Target("watch")
          <6>1. RemovedLast(p, pending) /\ ~Unnoted(p) /\ p \notin overtaken
            BY <1>1, <1>2, <3>1, <4>1, <4>3, <5>2 DEF Unnoted
          <6>2. p \in leftOut <=> p \in leftOut'
            BY <1>1, <3>1, <4>1, <5>2
          <6> QED  BY <2>1, <6>1, <6>2 DEF WaitOf
        <5> QED  BY <5>1, <5>2
      <4> QED  BY <4>2, <4>3 DEF At
    <3>2. CASE status # "indexing" /\ Unnoted(p)
      <4>1. t = "watch" /\ p \in Target("watch")
        BY <1>1, <1>3, <3>2 DEF Unnoted, Mutators, Target
      <4>2. ~ReplayDecides(p)
        BY <1>1, <3>2, <4>1
      <4>3. step'["replay"] = step["replay"]
        BY <1>3, <4>1 DEF Mutators
      <4>4. /\ ~RemovedLast(p, pending') /\ ~RemovedLast(p, todo)
            /\ p \in Target("replay") /\ ~In(p, todo) =>
                 step["replay"] \notin {"insert", "noteRemove", "erase"}
        BY <1>1, <3>2, <4>2 DEF ReplayDecides
      <4>5. step["replay"] \in {"noteRefresh", "read", "probe"} => ~change["replay"].remove
        BY <1>0 DEF StepShape, Mutators
      <4>6. step["replay"] \in Steps
        BY <1>0 DEF TypeOK, Steps, Mutators
      <4> QED  BY <1>1, <4>3, <4>4, <4>5, <4>6 DEF At, Right, Target, Steps
    <3>3. CASE status # "indexing" /\ ~Unnoted(p)
      <4>1. /\ RemovedLast(p, pending) \/ RemovedLast(p, todo) => p \notin disk \/ p \in leftOut
            /\ At("replay", p) /\ ~In(p, todo) => Right("replay", p, p \in leftOut)
        BY <1>1, <2>1, <3>3 DEF WaitOf
      <4> QED  BY <1>1, <1>3, <3>3, <4>1 DEF At, Right, Target, Mutators, Noting
    <3> QED  BY <3>1, <3>2, <3>3
  <2>5. RecordOf(p)'
    <3>1. CASE status = "indexing"
      BY <1>1, <3>1 DEF RecordOf
    <3>2. CASE status # "indexing"
      <4>1. Excepted(p) => Excepted(p)'
        BY <1>1, <3>2 DEF Excepted
      <4>2. Coming(p) => Coming(p)'
        BY <1>1, <1>3 DEF Coming, At, Mutators, Target
      <4>3. Replaying(p) => Replaying(p)'
        BY <1>1, <1>3 DEF Replaying, At, Mutators, Target, Noting
      <4> QED  BY <1>1, <2>1, <4>1, <4>2, <4>3 DEF RecordOf, Accurate
    <3> QED  BY <3>1, <3>2
  <2> QED  BY <2>2, <2>3, <2>4, <2>5 DEF PathInv
<1> QED  BY <1>5, <1>6, <1>7 DEF IndexInv

LEMMA ReadConfigInv == ASSUME IndexInv, NEW t \in Mutators, ReadConfig(t) PROVE IndexInv'
<1>0. TypeOK /\ ScanShape /\ StepShape /\ \A p \in Paths : PathInv(p)
  BY DEF IndexInv, ScanShape
<1>1. /\ step[t] = "read" /\ known' = [known EXCEPT ![t] = config]
      /\ step' = [step EXCEPT ![t] = "probe"]
      /\ UNCHANGED <<disk, events, index, scanGate, launching, scanning, todo, change, subtree, bounds,
                     ghosts>>
  BY DEF ReadConfig
<1> USE DEF index, scanGate, launching, scanning, bounds, ghosts
<1>2. /\ step' \in [Mutators -> {"idle", "noteRemove", "noteRefresh", "read", "probe", "insert",
                                "erase"}]
      /\ step'[t] = "probe" /\ \A u \in Mutators : u # t => step'[u] = step[u]
  BY <1>0, <1>1, StepMoves DEF Steps
<1>3. /\ known' \in [Mutators -> Configs]
      /\ known'[t] = config /\ \A u \in Mutators : u # t => known'[u] = known[u]
  BY <1>0, <1>1 DEF TypeOK
<1>4. TypeOK'
  BY <1>0, <1>1, <1>2, <1>3 DEF TypeOK
<1>5. ScanShape'
  <2>1. step'["replay"] # "idle" => step["replay"] # "idle"
    BY <1>1, <1>2 DEF Mutators
  <2> QED  BY <1>0, <1>1, <1>4, <2>1 DEF ScanShape, Closed
<1>6. StepShape'
  <2>1. ASSUME NEW u \in Mutators
        PROVE  /\ step'[u] \in {"noteRefresh", "read", "probe", "insert"} => ~change'[u].remove
               /\ step'[u] = "insert" => subtree'[u] \subseteq known'[u] \cap Target(u)'
    BY <1>0, <1>1, <1>2, <1>3 DEF StepShape, Target
  <2>2. step'["replay"] # "idle" /\ ~change["replay"].remove =>
          \/ step'["replay"] \in {"noteRefresh", "read"}
          \/ known'["replay"] = config \/ launch["ui"] \in Launching
    BY <1>0, <1>1, <1>2, <1>3 DEF StepShape, Mutators
  <2> QED  BY <1>1, <2>1, <2>2 DEF StepShape
<1>7. ASSUME NEW p \in Paths PROVE PathInv(p)'
  <2>1. NewsOf(p) /\ WalkOf(p) /\ WaitOf(p) /\ RecordOf(p)
    BY <1>0 DEF PathInv
  <2>2. ~change[t].remove
    BY <1>0, <1>1 DEF StepShape
  <2>3. NewsOf(p)'
    BY <1>1, <1>2, <1>3, <2>1, <2>2 DEF NewsOf, At, Mutators, Target, Right
  <2>4. Unnoted(p)' <=> Unnoted(p)
    BY <1>1, <1>2 DEF Unnoted, Mutators, Noting, Target
  <2>5. WalkOf(p)'
    BY <1>1, <2>1, <2>4 DEF WalkOf
  <2>6. WaitOf(p)'
    BY <1>1, <1>2, <1>3, <2>1, <2>2, <2>4 DEF WaitOf, At, Mutators, Target, Right
  <2>7. RecordOf(p)'
    BY <1>1, <1>2, <1>3, <2>1
       DEF RecordOf, Excepted, Coming, Replaying, Accurate, At, Mutators, Target
  <2> QED  BY <2>3, <2>5, <2>6, <2>7 DEF PathInv
<1> QED  BY <1>5, <1>6, <1>7 DEF IndexInv

(* A path that is not covered is ignored, which is right, as nothing that is  *)
(* not covered is in the records: unless the configuration was changed after  *)
(* the thread copied it, and then the scan for it looks at the path.          *)
LEMMA ProbeInv == ASSUME IndexInv, NEW t \in Mutators, Probe(t) PROVE IndexInv'
<1>0. TypeOK /\ ScanShape /\ StepShape /\ \A p \in Paths : PathInv(p)
  BY DEF IndexInv, ScanShape
<1> DEFINE q == change[t].path
<1> DEFINE read == Target(t) \cap known[t] \cap disk
<1>1. /\ step[t] = "probe"
      /\ UNCHANGED <<disk, events, index, scanGate, launching, scanning, todo, change, known, bounds,
                     ghosts>>
      /\ \/ q \notin known[t] /\ step' = [step EXCEPT ![t] = "idle"] /\ subtree' = subtree
         \/ q \notin known[t] \cap disk /\ step' = [step EXCEPT ![t] = "noteRemove"]
              /\ subtree' = subtree
         \/ q \in known[t] \cap disk /\ step' = [step EXCEPT ![t] = "insert"]
              /\ subtree' = [subtree EXCEPT ![t] = read]
  BY DEF Probe
<1> USE DEF index, scanGate, launching, scanning, bounds, ghosts
<1>2. read \subseteq Paths
  BY <1>0, TargetIsPaths
<1> HIDE DEF read
<1>3. /\ step' \in [Mutators -> {"idle", "noteRemove", "noteRefresh", "read", "probe", "insert",
                                "erase"}]
      /\ subtree' \in [Mutators -> SUBSET Paths]
      /\ \A u \in Mutators : u # t => step'[u] = step[u] /\ subtree'[u] = subtree[u]
      /\ \/ step'[t] = "idle" /\ q \notin known[t]
         \/ step'[t] = "noteRemove" /\ q \notin known[t] \cap disk
         \/ step'[t] = "insert" /\ q \in known[t] \cap disk /\ subtree'[t] = read
  BY <1>0, <1>1, <1>2, StepMoves DEF Steps, TypeOK
<1>4. ~change[t].remove
  BY <1>0, <1>1 DEF StepShape
<1>5. TypeOK'
  BY <1>0, <1>1, <1>3 DEF TypeOK
<1>6. ScanShape'
  <2>1. step'["replay"] # "idle" => step["replay"] # "idle"
    BY <1>1, <1>3 DEF Mutators
  <2> QED  BY <1>0, <1>1, <1>5, <2>1 DEF ScanShape, Closed
<1>7. StepShape'
  <2>1. ASSUME NEW u \in Mutators
        PROVE  /\ step'[u] \in {"noteRefresh", "read", "probe", "insert"} => ~change'[u].remove
               /\ step'[u] = "insert" => subtree'[u] \subseteq known'[u] \cap Target(u)'
    BY <1>0, <1>1, <1>3, <1>4 DEF StepShape, Target, read
  <2>2. step'["replay"] # "idle" /\ ~change["replay"].remove =>
          \/ step'["replay"] \in {"noteRefresh", "read"}
          \/ known["replay"] = config \/ launch["ui"] \in Launching
    BY <1>0, <1>1, <1>3 DEF StepShape, Mutators
  <2> QED  BY <1>1, <2>1, <2>2 DEF StepShape
<1>8. ASSUME NEW p \in Paths PROVE PathInv(p)'
  <2>1. NewsOf(p) /\ WalkOf(p) /\ WaitOf(p) /\ RecordOf(p)
    BY <1>0 DEF PathInv
  <2>2. p \in Target(t) => (q \notin known[t] => p \notin known[t]) /\ (q \notin disk => p \notin disk)
    <3>1. q \in Paths /\ known[t] \in Configs
      BY <1>0 DEF TypeOK, Change
    <3>2. Closed(known[t]) /\ Closed(disk)
      BY <1>0, <3>1, ConfigsAssumption DEF ScanShape
    <3> QED  BY <3>1, <3>2 DEF Closed, Target
  <2>3. At(t, p)' => Right(t, p, FALSE)'
    BY <1>1, <1>3, <1>4, <2>2 DEF At, Right, Target, read
  <2>4. /\ Unnoted(p) => Unnoted(p)'
        /\ Unnoted(p)' => Unnoted(p) \/ (t = "watch" /\ p \in Target(t))
    BY <1>1, <1>3 DEF Unnoted, Mutators, Noting, Target
  <2>5. \A u \in Mutators : u # t => /\ At(u, p)' <=> At(u, p)
                                     /\ Right(u, p, FALSE)' <=> Right(u, p, FALSE)
                                     /\ Right(u, p, p \in leftOut)' <=> Right(u, p, p \in leftOut)
    BY <1>1, <1>3 DEF At, Right, Target
  <2>6. NewsOf(p)'
    BY <1>1, <2>1, <2>3, <2>5 DEF NewsOf, Mutators
  <2>7. WalkOf(p)'
    BY <1>1, <2>1, <2>4 DEF WalkOf
  <2>8. WaitOf(p)'
    <3>1. Right("replay", p, FALSE)' => Right("replay", p, p \in leftOut)'
      BY DEF Right
    <3> QED  BY <1>1, <2>1, <2>3, <2>4, <2>5, <3>1 DEF WaitOf, Mutators
  <2>9. RecordOf(p)'
    <3>1. CASE step'[t] = "idle" /\ p \in Target(t)
      <4> SUFFICES ASSUME ~Excepted(p), status = "ready", launch["ui"] \notin Launching
                   PROVE  /\ p \in records => p \in config
                          /\ Coming(p)' \/ Replaying(p)' \/ Accurate(p)
        BY <1>1 DEF RecordOf, Excepted, Accurate
      <4>1. /\ p \in records => p \in config
            /\ Coming(p) \/ Replaying(p) \/ Accurate(p)
        BY <2>1 DEF RecordOf
      <4>2. p \notin known[t]
        BY <1>3, <2>2, <3>1
      <4>3. known[t] = config => Accurate(p)
        BY <4>1, <4>2 DEF Accurate
      <4>4. CASE t = "watch"
        BY <1>1, <1>3, <3>1, <4>1, <4>3, <4>4 DEF Coming, Replaying, At, Mutators, Target
      <4>5. CASE t = "replay"
        <5>1. known["replay"] = config
          BY <1>0, <1>1, <1>4, <4>5 DEF StepShape
        <5> QED  BY <4>1, <4>3, <4>5, <5>1
      <4> QED  BY <4>1, <4>4, <4>5 DEF Mutators
    <3>2. CASE ~(step'[t] = "idle" /\ p \in Target(t))
      <4>1. Coming(p) => Coming(p)'
        BY <1>1, <1>3, <3>2 DEF Coming, At, Mutators, Target
      <4>2. Replaying(p) => Replaying(p)'
        BY <1>1, <1>3, <3>2 DEF Replaying, At, Mutators, Target
      <4> QED  BY <1>1, <2>1, <4>1, <4>2 DEF RecordOf, Excepted, Accurate
    <3> QED  BY <3>1, <3>2
  <2> QED  BY <2>6, <2>7, <2>8, <2>9 DEF PathInv
<1> QED  BY <1>6, <1>7, <1>8 DEF IndexInv

(* Who writes an answer that is still right makes the record right, unless    *)
(* the watch thread has yet to hear of a later change.                        *)
LEMMA WriteInv ==
  ASSUME IndexInv, NEW t \in Mutators, Insert(t) \/ Erase(t)
  PROVE  IndexInv'
<1>0. TypeOK /\ ScanShape /\ StepShape /\ \A p \in Paths : PathInv(p)
  BY DEF IndexInv, ScanShape
<1> DEFINE old == t = "watch" /\ ~change[t].remove /\ known[t] # config
<1>1. /\ step[t] \in {"insert", "erase"} /\ step' = [step EXCEPT ![t] = "idle"]
      /\ records' = (records \ Target(t)) \union (IF step[t] = "insert" THEN subtree[t] ELSE {})
      /\ overtaken' = (overtaken \ {p \in Target(t) : t = "watch" /\ ~ReplayDecides(p)})
                        \union (IF old THEN {p \in Target(t) : (p \in records') # (p \in disk \cap config)}
                                ELSE {})
      /\ leftOut' = leftOut \ {p \in Target(t) : t = "watch" /\ ~ReplayDecides(p)}
      /\ UNCHANGED <<disk, events, config, status, pending, scanGate, launching, scanning, todo, change,
                     known, subtree, bounds, wanted, saved, published>>
  BY DEF Insert, Erase, RememberWrite
<1> HIDE DEF old
<1> USE DEF scanGate, launching, scanning, bounds
<1>2. /\ step' \in [Mutators -> {"idle", "noteRemove", "noteRefresh", "read", "probe", "insert",
                                "erase"}]
      /\ step'[t] = "idle" /\ \A u \in Mutators : u # t => step'[u] = step[u]
  BY <1>0, <1>1, StepMoves DEF Steps
<1>3. Target(t) \subseteq Paths /\ subtree[t] \subseteq Paths
  BY <1>0, TargetIsPaths DEF TypeOK
<1>4. TypeOK'
  <2>1. records' \subseteq Paths /\ overtaken' \subseteq Paths /\ leftOut' \subseteq Paths
    BY <1>0, <1>1, <1>3 DEF TypeOK
  <2> QED  BY <1>0, <1>1, <1>2, <2>1 DEF TypeOK
<1>5. ScanShape'
  <2>1. step'["replay"] # "idle" => step["replay"] # "idle"
    BY <1>1, <1>2 DEF Mutators
  <2> QED  BY <1>0, <1>1, <1>4, <2>1 DEF ScanShape, Closed
<1>6. StepShape'
  <2>1. ASSUME NEW u \in Mutators
        PROVE  /\ step'[u] \in {"noteRefresh", "read", "probe", "insert"} => ~change'[u].remove
               /\ step'[u] = "insert" => subtree'[u] \subseteq known'[u] \cap Target(u)'
    BY <1>0, <1>1, <1>2 DEF StepShape, Target
  <2>2. step'["replay"] # "idle" /\ ~change["replay"].remove =>
          \/ step'["replay"] \in {"noteRefresh", "read"}
          \/ known["replay"] = config \/ launch["ui"] \in Launching
    BY <1>0, <1>1, <1>2 DEF StepShape, Mutators
  <2> QED  BY <1>1, <2>1, <2>2 DEF StepShape
<1>7. ASSUME NEW p \in Paths PROVE PathInv(p)'
  <2>1. NewsOf(p) /\ WalkOf(p) /\ WaitOf(p) /\ RecordOf(p)
    BY <1>0 DEF PathInv
  <2>2. NewsOf(p)'
    BY <1>1, <1>2, <2>1 DEF NewsOf, At, Mutators, Target, Right
  <2>3. Unnoted(p)' <=> Unnoted(p)
    BY <1>1, <1>2 DEF Unnoted, Mutators, Noting, Target
  <2>4. WalkOf(p)'
    BY <1>1, <2>1, <2>3 DEF WalkOf
  <2>5. WaitOf(p)'
    <3>1. CASE t = "watch" /\ p \in Target(t) /\ ~ReplayDecides(p)
      <4>1. /\ ~RemovedLast(p, pending) /\ ~RemovedLast(p, todo)
            /\ p \in Target("replay") /\ ~In(p, todo) =>
                 step["replay"] \notin {"insert", "noteRemove", "erase"}
        BY <3>1 DEF ReplayDecides
      <4>2. step["replay"] \in {"noteRefresh", "read", "probe"} => ~change["replay"].remove
        BY <1>0 DEF StepShape, Mutators
      <4>3. step["replay"] \in Steps /\ step'["replay"] = step["replay"]
        BY <1>0, <1>2, <3>1 DEF TypeOK, Steps, Mutators
      <4> QED  BY <1>1, <4>1, <4>2, <4>3 DEF WaitOf, At, Right, Target, Steps
    <3>2. CASE ~(t = "watch" /\ p \in Target(t) /\ ~ReplayDecides(p))
      <4>1. (p \in overtaken => p \in overtaken') /\ (p \in leftOut <=> p \in leftOut')
        BY <1>1, <3>2
      <4> QED  BY <1>1, <1>2, <2>1, <2>3, <4>1 DEF WaitOf, At, Mutators, Target, Right
    <3> QED  BY <3>1, <3>2
  <2>6. RecordOf(p)'
    <3>1. CASE p \notin Target(t)
      <4>1. /\ p \in records' <=> p \in records
            /\ Excepted(p) => Excepted(p)'
        <5>1. step[t] = "insert" => p \notin subtree[t]
          BY <1>0, <3>1 DEF StepShape
        <5> QED  BY <1>1, <3>1, <5>1 DEF Excepted
      <4>2. Coming(p) => Coming(p)'
        BY <1>1, <1>2, <3>1 DEF Coming, At, Mutators, Target
      <4>3. Replaying(p) => Replaying(p)'
        BY <1>1, <1>2, <3>1 DEF Replaying, At, Mutators, Target
      <4> QED  BY <1>1, <2>1, <4>1, <4>2, <4>3 DEF RecordOf, Accurate
    <3>2. CASE p \in Target(t)
      <4> SUFFICES ASSUME ~Excepted(p)', status = "ready", launch["ui"] \notin Launching
                   PROVE  /\ p \in records' => p \in config
                          /\ Coming(p)' \/ Replaying(p)' \/ Accurate(p)'
        BY <1>1 DEF RecordOf
      <4>1. /\ p \in records' <=> step[t] = "insert" /\ p \in subtree[t]
            /\ step[t] = "insert" => ~change[t].remove /\ subtree[t] \subseteq known[t]
        BY <1>0, <1>1, <3>2 DEF StepShape
      <4>2. CASE old
        BY <1>1, <3>2, <4>2 DEF Excepted, Accurate
      <4>3. CASE ~old /\ t = "watch"
        <5>1. ~change[t].remove => known[t] = config
          BY <4>3 DEF old
        <5>2. In(p, events) \/ Right("watch", p, FALSE)
          BY <1>1, <2>1, <3>2, <4>3 DEF NewsOf, At
        <5>3. CASE In(p, events)
          BY <1>1, <4>1, <5>1, <5>3 DEF Coming
        <5>4. CASE Right("watch", p, FALSE)
          <6>1. step[t] = "erase" => p \notin disk \cap config
            <7>1. change[t].path \notin known[t] => p \notin known[t]
              <8>1. change[t].path \in Paths /\ Closed(known[t])
                BY <1>0, ConfigsAssumption DEF TypeOK, Change
              <8> QED  BY <3>2, <8>1 DEF Closed, Target
            <7> QED  BY <4>3, <5>1, <5>4, <7>1 DEF Right
          <6>2. step[t] = "insert" => (p \in subtree[t] <=> p \in disk \cap config)
            BY <4>1, <4>3, <5>1, <5>4 DEF Right
          <6> QED  BY <1>1, <4>1, <6>1, <6>2 DEF Accurate
        <5> QED  BY <5>2, <5>3, <5>4
      <4>4. CASE t = "replay"
        <5>1. ~change["replay"].remove => known["replay"] = config
          BY <1>0, <1>1, <4>4 DEF StepShape
        <5>2. p \in records' => p \in config
          BY <4>1, <4>4, <5>1
        <5>3. overtaken' = overtaken /\ leftOut' = leftOut
          BY <1>1, <4>4 DEF old
        <5>4. CASE In(p, events)
          BY <1>1, <5>2, <5>4 DEF Coming
        <5>5. CASE step["watch"] \in Noting /\ p \in Target("watch")
          BY <1>1, <1>2, <4>4, <5>2, <5>5 DEF Coming, At, Noting, Mutators, Target
        <5>6. CASE In(p, todo)
          <6>1. scan = "replay"
            BY <1>0, <5>6, InEmpty DEF ScanShape
          <6> QED  BY <1>1, <5>2, <5>6, <6>1 DEF Replaying
        <5>7. CASE ~Unnoted(p) /\ ~In(p, todo)
          <6>1. p \notin overtaken /\ ~(p \in leftOut /\ p \in config)
            BY <1>1, <5>3 DEF Excepted
          <6>2. Right("replay", p, p \in leftOut)
            BY <1>1, <2>1, <3>2, <4>4, <5>7, <6>1 DEF WaitOf, At
          <6>3. change["replay"].path \notin known["replay"] => p \notin known["replay"]
            <7>1. change[t].path \in Paths /\ Closed(known[t])
              BY <1>0, ConfigsAssumption DEF TypeOK, Change
            <7> QED  BY <3>2, <4>4, <7>1 DEF Closed, Target
          <6>4. step[t] = "erase" => p \notin disk \cap config
            BY <4>4, <5>1, <6>1, <6>2, <6>3 DEF Right
          <6>5. step[t] = "insert" => (p \in subtree[t] <=> p \in disk \cap config)
            BY <4>1, <4>4, <5>1, <6>2 DEF Right
          <6> QED  BY <1>1, <4>1, <5>2, <6>4, <6>5 DEF Accurate
        <5> QED  BY <5>4, <5>5, <5>6, <5>7 DEF Unnoted
      <4> QED  BY <4>2, <4>3, <4>4 DEF Mutators
    <3> QED  BY <3>1, <3>2
  <2> QED  BY <2>2, <2>4, <2>5, <2>6 DEF PathInv
<1> QED  BY <1>5, <1>6, <1>7 DEF IndexInv

-----------------------------------------------------------------------------
LEMMA NextIndexInv == ASSUME IndexInv, [Next]_vars PROVE IndexInv'
<1>1. CASE UNCHANGED vars
  <2> USE <1>1 DEF vars, index, scanGate, launching, scanning, mutating, bounds, ghosts
  <2>1. ScanShape' /\ StepShape'
    BY DEF IndexInv, ScanShape, TypeOK, StepShape, Closed, Target
  <2>2. ASSUME NEW p \in Paths PROVE PathInv(p)'
    <3>1. NewsOf(p) /\ WalkOf(p) /\ WaitOf(p) /\ RecordOf(p)
      BY DEF IndexInv, PathInv
    <3> QED  BY <3>1, NewsStays, WalkStays, WaitStays, RecordStays DEF PathInv
  <2> QED  BY <2>1, <2>2 DEF IndexInv
<1>2. ASSUME NEW t \in Mutators, Mutate(t) PROVE IndexInv'
  BY <1>2, NoteInv, ReadConfigInv, ProbeInv, WriteInv DEF Mutate
<1>3. CASE ScanThread
  BY <1>2, <1>3, ScanStoppedInv, ScanVisitInv, ScanDoneInv, ScanPublishInv, TakeReplayInv,
     ScanResolveInv DEF ScanThread, Mutators
<1>4. CASE WatchThread
  BY <1>2, <1>4, TakeEventInv DEF WatchThread, Mutators
<1> QED
  BY <1>1, <1>3, <1>4, DiskChangeInv, ConfigureInv, RebuildInv, SaveSettingsInv, StopBeginInv,
     LaunchBeginInv, LaunchThreadInv, ScanFailsInv DEF Next, Launch

(* The invariant that the theorem below draws on.                             *)
THEOREM IndexInvariant == Spec => []IndexInv
<1>1. IndexInv /\ [Next]_vars => IndexInv'
  BY NextIndexInv
<1> QED  BY InitIndexInv, <1>1, PTL DEF Spec

(* Whatever happens around a scan, no change of the disk is lost by it: when  *)
(* nothing is under way the records show each path as it is on the disk and   *)
(* in the configuration, save those that a change overtook its own replay or  *)
(* that were noted as removed for being excluded.  A scan has not succeeded   *)
(* before it is published and replayed, and nothing is held back while the    *)
(* index calls itself ready.                                                  *)
THEOREM ScansLoseNothing == Spec => []ScansAreSound
<1>1. ASSUME IndexInv PROVE ScansAreSound
  <2>1. TypeOK /\ ScanShape /\ \A p \in Paths : PathInv(p)
    BY <1>1 DEF IndexInv, ScanShape
  <2>2. ASSUME Settled, NEW p \in Paths \ (overtaken \union (leftOut \cap config))
        PROVE  Accurate(p)
    <3>1. step["watch"] = "idle" /\ step["replay"] = "idle"
      BY <2>2 DEF Settled, Mutators
    <3>2. ~Coming(p) /\ ~Replaying(p)
      BY <2>2, <3>1, InEmpty DEF Settled, Coming, Replaying, At
    <3>3. launch["ui"] \notin Launching
      BY <2>2 DEF Settled, Launchers, Launching
    <3> QED  BY <2>1, <2>2, <3>2, <3>3 DEF Settled, PathInv, RecordOf, Excepted
  <2>3. ReadyMeansDone
    <3>1. outcome = "succeeded" => todo = <<>>
      BY <2>1 DEF ScanShape
    <3> QED  BY <2>1, <3>1 DEF ScanShape, ReadyMeansDone, SuccessMeansPublished,
                               PendingOnlyWhileScanning
  <2> QED  BY <2>1, <2>2, <2>3 DEF ScansAreSound, ChangesSurviveScans
<1> QED  BY <1>1, IndexInvariant, PTL
=============================================================================
