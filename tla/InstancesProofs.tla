--------------------------- MODULE InstancesProofs ---------------------------
(***************************************************************************)
(* Proofs about Instances for any number of instances, volumes, items,     *)
(* failures and steps of others: it is well typed, the entries of volume   *)
(* and seed tasks are exact, what guests have written is lost only where a *)
(* playbook says absent, a first boot finds a seed and an image unless     *)
(* making or removing them was cut short, and a second play is silent.     *)
(*                                                                         *)
(* Inv says at each libvirt call what the calls before it have             *)
(* established.  Every step of the modules takes one of four shapes, to a  *)
(* place where Inv holds again.  Stocked says what each volume holds,      *)
(* Silent what the tasks of a play leave behind them.                      *)
(***************************************************************************)
EXTENDS Instances, TLAPS

Removing == {"gone", "wipe", "delete", "done"}
Filling == {"upload", "send", "finish"}
Making == {"lookupSource", "create", "info", "resize", "facts"} \cup Filling
Writing == {"create", "resize", "wipe", "delete", "done"} \cup Filling
Untouched == {"pool", "lookup", "gone", "would", "lookupSource", "create", "info",
              "resize"}

ForIso == play[t].op = "iso"

\* A module runs for a task of the play.
Running ==
  /\ t <= Len(play) /\ play[t].op \in {"volumes", "iso"}
  /\ items = play[t].specs

\* Which items and runs reach a call p.
Placed(p) ==
  /\ p \in {"pool", "lookup", "would"} \cup Removing \cup Making
  /\ p \in Removing => Item.state = "absent"
  /\ p \in Making => Item.state = "present"
  /\ p \in Writing => ~check
  /\ p = "would" => check
  /\ p \in {"lookupSource", "info", "resize", "wipe"} => ~ForIso
  /\ p \in Filling => ForIso
  /\ p \in {"info", "resize"} => Item.resize

\* Whether the module has moved anything (m), and remembers it (c).
Recorded(p, c, m) ==
  /\ c \in BOOLEAN /\ m \in BOOLEAN
  /\ check => ~m
  /\ p \in Untouched => ~m /\ ~c
  /\ p \in {"facts"} \cup Filling /\ ~check => c = m
  /\ p \in {"done"} \cup Filling => m

\* What the volume in hand, v, is like.  A seed that is being made is nobody else's.
Met(p, c, v) ==
  /\ p \in {"gone", "done"} /\ alone => v = None
  /\ p \in {"upload", "send"} /\ v # None => v.data = "blank"
  /\ p = "finish" /\ v # None => v.data = "part"
  /\ p = "facts" /\ v # None =>
       /\ ~ForIso /\ Item.resize /\ ~(check /\ c) => v.cap >= Item.cap
       /\ ForIso /\ c /\ ~check => v.data = "full"

Here(p, c, v, m) == Placed(p) /\ Recorded(p, c, m) /\ Met(p, c, v)

Inv ==
  /\ TypeOK
  /\ \/ pc \in {"idle", "task"}
     \/ pc = "next" /\ Running /\ EntryExact
     \/ Busy /\ Running /\ Here(pc, changed, vols[Item.name], moved)

-----------------------------------------------------------------------------
(* The tasks of a play *)

Sound(x) ==
  /\ x.op \in {"pool", "volumes", "iso", "domain"}
  /\ x.op = "volumes" => x.specs \in Seq(VolumeSpecs) /\ x.specs # <<>>
  /\ x.op = "iso" => x.specs \in Seq(IsoSpecs) /\ x.specs # <<>>
  /\ x.op = "domain" => x.vm \in Instance /\ x.vm \in AllVMs
  /\ x.op \in {"pool", "domain"} => Len(x.specs) = 0

LEMMA DisksType ==
  ASSUME NEW vm \in Instance
  PROVE  instance_volumes(vm) \in Seq(VolumeSpecs) /\ instance_volumes(vm) # <<>>
<1> DEFINE rest == [k \in DOMAIN vm.data |-> VolumeSpec(vm.data[k].vol, vm.data[k].cap, None)]
           first == VolumeSpec(vm.os, vm.cap, vm.base)
<1>1. /\ vm.data \in Seq([vol: VolNames, cap: Caps]) /\ Len(vm.data) \in Nat
      /\ DOMAIN vm.data = 1..Len(vm.data)
      /\ vm.os \in VolNames /\ vm.base \in VolNames /\ vm.cap \in Caps
  BY DEF Instance
<1>2. \A n \in VolNames, cap \in Caps, clone \in Maybe(VolNames) :
        VolumeSpec(n, cap, clone) \in VolumeSpecs
  BY DEF VolumeSpec, VolumeSpecs
<1>3. first \in VolumeSpecs
  BY <1>1, <1>2 DEF Maybe
<1>4. \A k \in 1..Len(vm.data) : vm.data[k].vol \in VolNames /\ vm.data[k].cap \in Caps
  <2> DEFINE S == [vol: VolNames, cap: Caps]
  <2>1. \A x \in S : x.vol \in VolNames /\ x.cap \in Caps
    OBVIOUS
  <2>2. vm.data \in Seq(S)
    BY <1>1
  <2> HIDE DEF S
  <2>3. \A k \in 1..Len(vm.data) : vm.data[k] \in S
    BY <1>1, <2>2
  <2> QED
    BY <2>1, <2>3
<1>5. \A k \in 1..Len(vm.data) :
        VolumeSpec(vm.data[k].vol, vm.data[k].cap, None) \in VolumeSpecs
  BY <1>2, <1>4 DEF Maybe
<1>6. rest \in [1..Len(vm.data) -> VolumeSpecs]
  BY <1>1, <1>5
<1>7. rest \in Seq(VolumeSpecs)
  BY <1>1, <1>6
<1> HIDE DEF first, rest
<1>8. <<first>> \in Seq(VolumeSpecs) /\ Len(<<first>>) = 1
  BY <1>3
<1>9. <<first>> \o rest \in Seq(VolumeSpecs) /\ Len(<<first>> \o rest) = 1 + Len(rest)
  BY <1>7, <1>8
<1>10. <<first>> \o rest # <<>>
  <2>1. Len(rest) \in Nat /\ Len(<<>>) = 0
    BY <1>7
  <2> QED
    BY <1>9, <2>1
<1> QED
  BY <1>9, <1>10 DEF instance_volumes, first, rest

LEMMA SeedType ==
  ASSUME NEW vm \in Instance
  PROVE  Seed(vm) \in Seq(IsoSpecs) /\ Seed(vm) # <<>>
<1> DEFINE s == [name |-> vm.seed, state |-> "present", form |-> "good"]
<1>1. s \in IsoSpecs
  BY DEF Instance, IsoSpecs
<1> HIDE DEF s
<1>2. <<s>> \in Seq(IsoSpecs) /\ Len(<<s>>) = 1 /\ Len(<<>>) = 0
  BY <1>1
<1> QED
  BY <1>2 DEF Seed, s

LEMMA InstanceTasksSound ==
  ASSUME NEW vm \in Instance, vm \in AllVMs, NEW k \in 1..3
  PROVE  Sound(InstanceTasks(vm)[k])
<1> DEFINE a == Task("volumes", instance_volumes(vm), vm)
           b == Task("iso", Seed(vm), vm)
           c == Task("domain", <<>>, vm)
<1>1. Sound(a) /\ Sound(b) /\ Sound(c)
  BY DisksType, SeedType DEF Sound, Task
<1>2. InstanceTasks(vm) = <<a, b, c>>
  BY DEF InstanceTasks
<1> HIDE DEF a, b, c
<1>3. <<a, b, c>>[1] = a /\ <<a, b, c>>[2] = b /\ <<a, b, c>>[3] = c
  OBVIOUS
<1>4. k = 1 \/ k = 2 \/ k = 3
  OBVIOUS
<1> QED
  BY <1>1, <1>2, <1>3, <1>4

LEMMA InstancesPlaySound ==
  ASSUME NEW list \in VMs
  PROVE  /\ Len(InstancesPlay(list)) \in Nat
         /\ \A k \in 1..Len(InstancesPlay(list)) : Sound(InstancesPlay(list)[k])
<1> DEFINE first == Task("pool", <<>>, None)
           at(k) == InstanceTasks(list[((k - 1) \div 3) + 1])[((k - 1) % 3) + 1]
           rest == [k \in 1..(3 * Len(list)) |-> at(k)]
<1>1. list \in Seq(Instance) /\ Len(list) \in Nat
  BY InstancesAssumption
<1>2. ASSUME NEW k \in 1..(3 * Len(list)) PROVE Sound(at(k))
  <2>1. ((k - 1) \div 3) + 1 \in 1..Len(list) /\ ((k - 1) % 3) + 1 \in 1..3
    BY <1>1
  <2>2. list[((k - 1) \div 3) + 1] \in Instance /\ list[((k - 1) \div 3) + 1] \in AllVMs
    BY <1>1, <2>1 DEF AllVMs
  <2> QED
    BY <2>1, <2>2, InstanceTasksSound
<1>3. Sound(first)
  BY DEF Sound, Task
<1>4. /\ Len(rest) = 3 * Len(list)
      /\ \A k \in 1..(3 * Len(list)) : Sound(rest[k])
  BY <1>1, <1>2
<1> DEFINE S == {at(k) : k \in 1..(3 * Len(list))}
<1> HIDE DEF at
<1>5. rest \in Seq(S)
  <2>1. rest \in [1..(3 * Len(list)) -> S] /\ 3 * Len(list) \in Nat
    BY <1>1
  <2> QED
    BY <2>1
<1> HIDE DEF rest, first, S
<1>6. /\ Len(<<first>> \o rest) = 1 + 3 * Len(list)
      /\ (<<first>> \o rest)[1] = first
      /\ \A k \in 2..(1 + 3 * Len(list)) : (<<first>> \o rest)[k] = rest[k - 1]
  BY <1>1, <1>4, <1>5
<1>7. ASSUME NEW k \in 1..(1 + 3 * Len(list)) PROVE Sound((<<first>> \o rest)[k])
  <2>1. CASE k = 1
    BY <1>3, <1>6, <2>1
  <2>2. CASE k # 1
    BY <1>1, <1>4, <1>6, <2>2
  <2> QED
    BY <2>1, <2>2
<1> QED
  BY <1>1, <1>6, <1>7 DEF InstancesPlay, first, rest, at

LEMMA PlaysSound ==
  ASSUME NEW p \in Plays \cup {<<>>}
  PROVE  Len(p) \in Nat /\ \A k \in 1..Len(p) : Sound(p[k])
<1>1. CASE p = <<>>
  BY <1>1
<1>2. CASE p \in UserPlays
  <2>1. p \in Seq(UserTasks)
    BY <1>2, InstancesAssumption
  <2>2. \A x \in UserTasks : Sound(x)
    BY DEF UserTasks, Sound
  <2> QED
    BY <2>1, <2>2
<1>3. CASE \E list \in VMs : p = InstancesPlay(list)
  BY <1>3, InstancesPlaySound
<1> QED
  BY <1>1, <1>2, <1>3 DEF Plays

ItemTyped ==
  /\ Item.name \in VolNames /\ Item.state \in {"present", "absent"}
  /\ ~ForIso => Item \in VolumeSpecs

LEMMA InHand ==
  ASSUME TypeOK, Running, pc \notin {"idle", "task"}
  PROVE  ItemTyped
<1>1. t \in 1..Len(play) /\ Sound(play[t])
  BY PlaysSound DEF TypeOK, Running
<1>2. i \in 1..Len(items) /\ items = play[t].specs
  BY DEF TypeOK, VolumeTypes, RunTypes, Running
<1>3. CASE play[t].op = "volumes"
  <2>1. items \in Seq(VolumeSpecs)
    BY <1>1, <1>2, <1>3 DEF Sound
  <2>2. Item \in VolumeSpecs
    BY <1>2, <2>1 DEF Item
  <2> QED
    BY <2>2 DEF ItemTyped, VolumeSpecs
<1>4. CASE play[t].op = "iso"
  <2>1. items \in Seq(IsoSpecs)
    BY <1>1, <1>2, <1>4 DEF Sound
  <2>2. Item \in IsoSpecs
    BY <1>2, <2>1 DEF Item
  <2> QED
    BY <1>4, <2>2 DEF ItemTyped, IsoSpecs, ForIso
<1> QED
  BY <1>3, <1>4 DEF Running
-----------------------------------------------------------------------------
(* The shapes of the modules' steps *)

\* A step leaves the run, the item and the pool alone; at most it counts a fault.
Kept ==
  /\ UNCHANGED <<items, i, check, alone, pool, meddle>>
  /\ faults' \in 0..MaxFaults

\* v may take the place of the volume in hand.
MayWrite(v) ==
  /\ ~check /\ v \in Maybe(Volume)
  /\ LET old == vols[Item.name]
     IN  old # None /\ old.data = "guest" =>
           \/ v # None /\ v.data = "guest" /\ v.cap >= old.cap
           \/ Item.state = "absent"

\* e may be reported, with m moved.
MayAnswer(e) ==
  /\ e \in Entry
  /\ ~e.failed =>
       /\ IF check THEN ~moved ELSE e.changed = moved
       /\ alone /\ ~(check /\ e.changed) => Reached
       /\ alone /\ ~check /\ e.changed /\ ForIso /\ Item.state = "present" =>
            vols[Item.name].data = "full"

Quiet(to, c) ==
  /\ pc' = to /\ changed' = c
  /\ UNCHANGED <<vols, moved, entries>> /\ cache' \in PoolIds
  /\ Kept
  /\ Here(to, c, vols[Item.name], moved)

Writes(to, v) ==
  /\ pc' = to /\ changed' = TRUE
  /\ vols' = [vols EXCEPT ![Item.name] = v] /\ moved' = TRUE
  /\ UNCHANGED entries /\ cache' \in PoolIds
  /\ Kept
  /\ Here(to, TRUE, v, TRUE)
  /\ MayWrite(v)

Ends(e) ==
  /\ pc' = "next" /\ entries' = Append(entries, e)
  /\ UNCHANGED <<vols, moved, changed, cache>>
  /\ Kept
  /\ MayAnswer(e)

\* An error after which the volume is v.
Breaks(v) ==
  /\ pc' = "next" /\ entries' = Append(entries, Raised)
  /\ vols' = [vols EXCEPT ![Item.name] = v] /\ moved' = TRUE
  /\ UNCHANGED <<changed, cache>>
  /\ Kept
  /\ MayWrite(v)

Stepped ==
  \/ \E to, c : Quiet(to, c)
  \/ \E to, v : Writes(to, v)
  \/ \E e : Ends(e)
  \/ \E v : Breaks(v)

\* An item is in hand.
Ready ==
  /\ Busy /\ TypeOK /\ Running /\ ItemTyped
  /\ Here(pc, changed, vols[Item.name], moved)

LEMMA InvReady ==
  ASSUME Inv, Busy
  PROVE  Ready
<1>1. TypeOK /\ Running /\ Here(pc, changed, vols[Item.name], moved)
  BY DEF Inv, Busy
<1>2. ItemTyped
  BY <1>1, InHand DEF Busy
<1> QED
  BY <1>1, <1>2 DEF Ready

LEMMA ReadyTypes ==
  ASSUME Ready
  PROVE  /\ Busy /\ Running /\ ItemTyped
         /\ Here(pc, changed, vols[Item.name], moved)
         /\ vols[Item.name] \in Maybe(Volume) /\ vols \in [VolNames -> Maybe(Volume)]
         /\ pc # "pool" => cache \in PoolIds
         /\ check \in BOOLEAN /\ alone \in BOOLEAN /\ moved \in BOOLEAN
         /\ changed \in BOOLEAN
         /\ faults \in 0..MaxFaults /\ MaxFaults \in Nat
         /\ i \in 1..Len(items) /\ Len(entries) = i - 1 /\ entries \in Seq(Entry)
  BY RunAssumption DEF Ready, TypeOK, VolumeTypes, RunTypes, ItemTyped, Maybe, Busy

-----------------------------------------------------------------------------
(* What follows from the shapes *)

LEMMA PlacedBusy ==
  ASSUME NEW p, Placed(p)
  PROVE  p \in VolumePCs /\ p \notin {"idle", "task", "next"}
  BY DEF Placed, VolumePCs, Removing, Making, Filling

LEMMA WriteType ==
  ASSUME vols \in [VolNames -> Maybe(Volume)], NEW v \in Maybe(Volume),
         NEW n, vols' = [vols EXCEPT ![n] = v]
  PROVE  vols' \in [VolNames -> Maybe(Volume)]
  OBVIOUS

LEMMA SteppedVolumeTypes ==
  ASSUME Ready, Stepped
  PROVE  VolumeTypes'
<1>0. /\ RunTypes /\ pc \in VolumePCs /\ vols \in [VolNames -> Maybe(Volume)]
      /\ pool \in Maybe(Pool) /\ cache \in Maybe(PoolIds)
      /\ changed \in BOOLEAN /\ alone \in BOOLEAN /\ moved \in BOOLEAN
      /\ Busy /\ i \in 1..Len(items) /\ Len(entries) = i - 1 /\ entries \in Seq(Entry)
      /\ check \in BOOLEAN /\ meddle \in 0..MaxMeddle
      /\ None \notin PoolIds
  BY ReadyTypes, VolumeAssumption DEF Ready, TypeOK, VolumeTypes, RunTypes
<1>1. ASSUME NEW to, NEW c, Quiet(to, c)
      PROVE  VolumeTypes'
  <2>1. /\ to \in VolumePCs /\ to \notin {"idle", "task", "next"} /\ c \in BOOLEAN
    BY <1>1, PlacedBusy DEF Quiet, Here, Recorded
  <2>2. /\ pc' = to /\ changed' = c /\ cache' \in PoolIds /\ faults' \in 0..MaxFaults
        /\ UNCHANGED <<vols, moved, entries, items, i, check, alone, pool, meddle>>
    BY <1>1 DEF Quiet, Kept
  <2>3. RunTypes'
    BY <1>0, <2>1, <2>2 DEF RunTypes, Busy
  <2> QED
    BY <1>0, <2>1, <2>2, <2>3 DEF VolumeTypes, Busy, Maybe
<1>2. ASSUME NEW to, NEW v, Writes(to, v)
      PROVE  VolumeTypes'
  <2>1. /\ to \in VolumePCs /\ to \notin {"idle", "task", "next"}
    BY <1>2, PlacedBusy DEF Writes, Here
  <2>2. /\ pc' = to /\ changed' = TRUE /\ moved' = TRUE
        /\ cache' \in PoolIds /\ faults' \in 0..MaxFaults
        /\ UNCHANGED <<entries, items, i, check, alone, pool, meddle>>
    BY <1>2 DEF Writes, Kept
  <2>3. vols' \in [VolNames -> Maybe(Volume)]
    BY <1>0, <1>2, WriteType DEF Writes, MayWrite
  <2>4. RunTypes'
    BY <1>0, <2>1, <2>2 DEF RunTypes, Busy
  <2> QED
    BY <1>0, <2>1, <2>2, <2>3, <2>4 DEF VolumeTypes, Busy, Maybe
<1>3. ASSUME NEW e \in Entry, pc' = "next", entries' = Append(entries, e),
             UNCHANGED <<cache, changed>>, Kept,
             vols' \in [VolNames -> Maybe(Volume)], moved' \in BOOLEAN
      PROVE  VolumeTypes'
  <2>1. entries' \in Seq(Entry) /\ Len(entries') = i
    BY <1>0, <1>3
  <2>2. RunTypes'
    BY <1>0, <1>3, <2>1 DEF RunTypes, Kept
  <2> QED
    BY <1>0, <1>3, <2>2 DEF VolumeTypes, Busy, Kept, VolumePCs
<1>4. ASSUME NEW e, Ends(e)
      PROVE  VolumeTypes'
  BY <1>0, <1>3, <1>4 DEF Ends, MayAnswer
<1>5. ASSUME NEW v, Breaks(v)
      PROVE  VolumeTypes'
  <2>1. vols' \in [VolNames -> Maybe(Volume)]
    BY <1>0, <1>5, WriteType DEF Breaks, MayWrite
  <2>2. Raised \in Entry
    BY DEF Raised, Entry
  <2> QED
    BY <1>3, <1>5, <2>1, <2>2 DEF Breaks
<1> QED
  BY <1>1, <1>2, <1>4, <1>5 DEF Stepped

LEMMA CutShortIn ==
  ASSUME TypeOK, NotesCutShort, vols' \in [VolNames -> Maybe(Volume)],
         pc \in {"upload", "send", "finish", "delete"} => Item.name \in VolNames
  PROVE  cutShort' \subseteq {n \in VolNames : vols'[n] # None}
  BY DEF TypeOK, NotesCutShort

\* What a module's step does not touch.
PlayKept == UNCHANGED <<dom, configured, play, t, outcome, quiet, settled>>

LEMMA SteppedInv ==
  ASSUME Ready, Stepped, NotesCutShort, PlayKept
  PROVE  Inv'
<1>0. TypeOK /\ Running /\ ItemTyped /\ Busy
  BY DEF Ready
<1>1. VolumeTypes'
  BY SteppedVolumeTypes
<1>2. cutShort' \subseteq {n \in VolNames : vols'[n] # None}
  BY <1>0, <1>1, CutShortIn DEF ItemTyped, VolumeTypes
<1>3. TypeOK'
  BY <1>0, <1>1, <1>2 DEF TypeOK, PlayKept
<1>4. Running' /\ UNCHANGED <<items, i, check, alone, play, t>>
  BY <1>0 DEF Running, PlayKept, Stepped, Kept, Quiet, Writes, Ends, Breaks
<1>5. ASSUME NEW to, NEW c, Quiet(to, c)
      PROVE  Busy' /\ Here(pc, changed, vols[Item.name], moved)'
  <2>1. Here(to, c, vols[Item.name], moved) /\ pc' = to /\ changed' = c
        /\ UNCHANGED <<vols, moved>> /\ to \notin {"idle", "task", "next"}
    BY <1>5, PlacedBusy DEF Quiet, Here
  <2> QED
    BY <1>4, <2>1 DEF Busy, Here, Placed, Recorded, Met, Item, ForIso
<1>6. ASSUME NEW to, NEW v, Writes(to, v)
      PROVE  Busy' /\ Here(pc, changed, vols[Item.name], moved)'
  <2>1. Here(to, TRUE, v, TRUE) /\ pc' = to /\ changed' = TRUE /\ moved' = TRUE
        /\ vols' = [vols EXCEPT ![Item.name] = v] /\ to \notin {"idle", "task", "next"}
    BY <1>6, PlacedBusy DEF Writes, Here
  <2>2. vols[Item.name]' = v
    BY <1>0, <1>4, <2>1 DEF Item, ItemTyped, TypeOK, VolumeTypes
  <2> QED
    BY <1>4, <2>1, <2>2 DEF Busy, Here, Placed, Recorded, Met, Item, ForIso
<1>7. ASSUME NEW e, Ends(e)
      PROVE  pc' = "next" /\ EntryExact'
  <2>1. pc' = "next" /\ entries' = Append(entries, e) /\ MayAnswer(e)
        /\ UNCHANGED <<vols, moved>>
    BY <1>7 DEF Ends
  <2>2. entries'[i'] = e
    BY <1>4, <2>1, ReadyTypes
  <2>3. Item' = Item /\ Reached' = Reached /\ ForIso' = ForIso
    BY <1>4, <2>1 DEF Reached, Has, Item, ForIso
  <2>4. ~e.failed =>
          /\ IF check' THEN ~moved' ELSE e.changed = moved'
          /\ alone' /\ ~(check' /\ e.changed) => Reached'
          /\ alone' /\ ~check' /\ e.changed /\ ForIso' /\ Item.state' = "present" =>
               vols'[Item.name'].data = "full"
    BY <1>4, <2>1, <2>3 DEF MayAnswer
  <2> QED
    BY <2>1, <2>2, <2>4 DEF EntryExact, ForIso
<1>8. ASSUME NEW v, Breaks(v)
      PROVE  pc' = "next" /\ EntryExact'
  <2>1. pc' = "next" /\ entries' = Append(entries, Raised)
    BY <1>8 DEF Breaks
  <2>2. entries'[i'] = Raised
    BY <1>4, <2>1, ReadyTypes DEF Raised, Entry
  <2>3. entries'[i'].failed = TRUE
    BY <2>2 DEF Raised
  <2> QED
    BY <2>1, <2>3 DEF EntryExact
<1> QED
  BY <1>3, <1>4, <1>5, <1>6, <1>7, <1>8 DEF Stepped, Inv

\* What a guest has written to n is still there, or a playbook says absent of n.
GuestKept(n) ==
  Has(n) /\ vols[n].data = "guest" =>
    \/ vols'[n] # None /\ vols'[n].data = "guest" /\ vols'[n].cap >= vols[n].cap
    \/ Busy /\ ~check /\ Item.name = n /\ Item.state = "absent"

LEMMA UntouchedKept ==
  ASSUME TypeOK, NEW n \in VolNames, vols'[n] = vols[n]
  PROVE  GuestKept(n)
<1>1. vols[n] # None => vols[n].cap \in Nat
  BY VolumeAssumption DEF TypeOK, VolumeTypes, Maybe, Volume
<1> QED
  BY <1>1 DEF GuestKept, Has

LEMMA SteppedKeeps ==
  ASSUME Ready, Stepped, NEW n \in VolNames
  PROVE  GuestKept(n)
<1>0. /\ TypeOK /\ Busy /\ vols \in [VolNames -> Maybe(Volume)]
      /\ Item.name \in VolNames
  BY ReadyTypes DEF Ready, ItemTyped
<1>1. CASE UNCHANGED vols
  BY <1>0, <1>1, UntouchedKept
<1>2. ASSUME NEW v, vols' = [vols EXCEPT ![Item.name] = v], MayWrite(v)
      PROVE  GuestKept(n)
  <2>1. CASE n = Item.name
    <3>1. vols'[n] = v
      BY <1>0, <1>2, <2>1
    <3> QED
      BY <1>0, <1>2, <2>1, <3>1 DEF MayWrite, GuestKept, Has
  <2>2. CASE n # Item.name
    <3>1. vols'[n] = vols[n]
      BY <1>0, <1>2, <2>2
    <3> QED
      BY <1>0, <3>1, UntouchedKept
  <2> QED
    BY <2>1, <2>2
<1> QED
  BY <1>1, <1>2 DEF Stepped, Quiet, Writes, Ends, Breaks

-----------------------------------------------------------------------------
(* The shape of each action *)

LEMMA EndsRaisedKeeps ==
  ASSUME Ready, NEW possible, EndsRaised(possible), UNCHANGED <<alone, pool>>
  PROVE  /\ pc' = "next" /\ entries' = Append(entries, Raised)
         /\ Kept
<1>1. faults \in 0..MaxFaults /\ MaxFaults \in Nat
  BY ReadyTypes
<1> QED
  BY <1>1 DEF EndsRaised, EndItem, Fault, bounds, Kept

LEMMA RaisedAnswers == MayAnswer(Raised)
  BY DEF MayAnswer, Raised, Entry

LEMMA ContinueKeeps ==
  ASSUME Ready, NEW to, Continue(to), UNCHANGED <<alone, pool>>
  PROVE  pc' = to /\ UNCHANGED entries /\ Kept
  BY ReadyTypes DEF Continue, bounds, Kept

LEMMA ReturnStepped ==
  ASSUME Ready, NEW e, Return(e), MayAnswer(e)
  PROVE  Stepped
<1>1. faults \in 0..MaxFaults
  BY ReadyTypes
<1>2. Ends(e)
  BY <1>1 DEF Return, EndItem, Observe, bounds, Ends, Kept
<1> QED
  BY <1>2 DEF Stepped

LEMMA FailsStepped ==
  ASSUME Ready, NEW possible, CallFails(possible)
  PROVE  Stepped
<1>1. Ends(Raised)
  BY EndsRaisedKeeps, RaisedAnswers DEF CallFails, Observe, Ends
<1> QED
  BY <1>1 DEF Stepped

LEMMA ReadStepped ==
  ASSUME Ready, pc # "pool", NEW possible, NEW to, NEW c, Read(possible, to, c),
         possible => Here(to, c, vols[Item.name], moved)
  PROVE  Stepped
<1>1. CASE possible /\ Continue(to) /\ Observe /\ changed' = c
  <2>1. Quiet(to, c)
    BY <1>1, ContinueKeeps, ReadyTypes DEF Observe, Quiet
  <2> QED
    BY <2>1 DEF Stepped
<1> QED
  BY <1>1, FailsStepped DEF Read

LEMMA CallStepped ==
  ASSUME Ready, pc # "pool", NEW possible, NEW to, NEW v, Call(possible, to, v),
         possible => MayWrite(v) /\ Here(to, TRUE, v, TRUE)
  PROVE  Stepped
<1>1. CASE /\ possible /\ Continue(to)
           /\ vols' = [vols EXCEPT ![Item.name] = v]
           /\ moved' = TRUE /\ changed' = TRUE
           /\ UNCHANGED <<pool, cache, alone>>
  <2>1. Writes(to, v)
    BY <1>1, ContinueKeeps, ReadyTypes DEF Writes
  <2> QED
    BY <2>1 DEF Stepped
<1> QED
  BY <1>1, FailsStepped DEF Call

\* Wherever a module looks, it has not done anything yet.
LEMMA Looking ==
  ASSUME Ready
  PROVE  /\ Placed(pc) /\ Recorded(pc, changed, moved) /\ Met(pc, changed, vols[Item.name])
         /\ moved \in BOOLEAN /\ changed \in BOOLEAN /\ check \in BOOLEAN
         /\ Item.state \in {"present", "absent"}
  BY ReadyTypes DEF Here, ItemTyped

LEMMA GetPoolStepped ==
  ASSUME Ready, GetPool
  PROVE  Stepped
<1>1. CASE pool # None /\ cache' = pool.id /\ Continue("lookup")
           /\ UNCHANGED <<vols, pool, changed, alone, moved>>
  <2>1. pool.id \in PoolIds
    BY <1>1 DEF Ready, TypeOK, VolumeTypes, Maybe, Pool
  <2>2. Here("lookup", changed, vols[Item.name], moved)
    BY Looking DEF GetPool, Here, Placed, Recorded, Met, Untouched, Removing, Making,
       Filling, Writing
  <2>3. Quiet("lookup", changed)
    BY <1>1, <2>1, <2>2, ContinueKeeps DEF Quiet
  <2> QED
    BY <2>3 DEF Stepped
<1> QED
  BY <1>1, FailsStepped DEF GetPool

LEMMA LookupVolumeStepped ==
  ASSUME Ready, ~ForIso, LookupVolume \/ MalformedVolume
  PROVE  Stepped
<1>1. CASE MalformedVolume
  BY <1>1, ReturnStepped, RaisedAnswers DEF MalformedVolume
<1>2. CASE LookupVolume
  <2>1. Here(AfterLookup(Has(Item.name)), changed, vols[Item.name], moved)
    BY <1>2, Looking DEF LookupVolume, AfterLookup, Has, Here, Placed, Recorded, Met,
       Untouched, Removing, Making, Filling, Writing
  <2> QED
    BY <1>2, <2>1, ReadStepped DEF LookupVolume
<1> QED
  BY <1>1, <1>2

LEMMA LookupIsoStepped ==
  ASSUME Ready, ForIso, LookupIso
  PROVE  Stepped
<1>1. Here(AfterIsoLookup(Has(Item.name)), changed, vols[Item.name], moved)
  BY Looking DEF LookupIso, AfterIsoLookup, Has, Here, Placed, Recorded, Met,
     Untouched, Removing, Making, Filling, Writing
<1> QED
  BY <1>1, ReadStepped DEF LookupIso

\* The answers.
LEMMA AnswersStepped ==
  ASSUME Ready, AlreadyAbsent \/ Would \/ Deleted \/ VolumeFacts
  PROVE  Stepped
<1>1. CASE AlreadyAbsent
  <2>1. MayAnswer(Ok(FALSE))
    BY <1>1, Looking DEF AlreadyAbsent, MayAnswer, Ok, Entry, Placed, Recorded, Met,
       Untouched, Removing, Reached, Has
  <2> QED
    BY <1>1, <2>1, ReturnStepped DEF AlreadyAbsent
<1>2. CASE Would
  <2>1. MayAnswer(Ok(TRUE))
    BY <1>2, Looking DEF Would, MayAnswer, Ok, Entry, Placed, Recorded, Untouched
  <2> QED
    BY <1>2, <2>1, ReturnStepped DEF Would
<1>3. CASE Deleted
  <2>1. MayAnswer(Ok(TRUE))
    BY <1>3, Looking DEF Deleted, MayAnswer, Ok, Entry, Placed, Recorded, Met,
       Removing, Writing, Reached, Has
  <2> QED
    BY <1>3, <2>1, ReturnStepped DEF Deleted
<1>4. CASE VolumeFacts
  <2>1. CASE VolumeUp(Item.name) /\ Return(Ok(changed))
    <3>1. Running
      BY ReadyTypes
    <3>2. MayAnswer(Ok(changed))
      BY <1>4, <2>1, <3>1, Looking DEF VolumeFacts, MayAnswer, Ok, Entry, Placed,
         Recorded, Met, Making, Reached, VolumeUp, Has, ForIso, Running
    <3> QED
      BY <2>1, <3>2, ReturnStepped
  <2> QED
    BY <1>4, <2>1, FailsStepped DEF VolumeFacts
<1> QED
  BY <1>1, <1>2, <1>3, <1>4

LEMMA VolumeIs ==
  ASSUME NEW v \in Volume
  PROVE  v # None /\ v.cap \in Nat /\ v.cap \in Caps /\ v.data \in Contents
  BY VolumeAssumption DEF Volume

LEMMA CreateVolumeStepped ==
  ASSUME Ready, ~ForIso, LookupSource \/ CreateVolume
  PROVE  Stepped
<1>1. CASE LookupSource
  <2>1. Here(IF check THEN "would" ELSE "create", changed, vols[Item.name], moved)
    BY <1>1, Looking DEF LookupSource, Here, Placed, Recorded, Met,
       Untouched, Removing, Making, Filling, Writing
  <2> QED
    BY <1>1, <2>1, ReadStepped DEF LookupSource
<1>2. CASE CreateVolume
  <2> DEFINE v == IF Item.clone = None THEN [cap |-> Item.cap, data |-> "blank"]
                  ELSE Cloned(vols[Item.clone], Item.cap)
             possible == /\ HandleUp /\ ~Has(Item.name)
                         /\ (Item.clone # None => Has(Item.clone))
  <2>0. Item \in VolumeSpecs /\ vols \in [VolNames -> Maybe(Volume)]
    BY ReadyTypes DEF ItemTyped
  <2>1. Item.cap \in Caps /\ Item.cap \in Nat
    BY <2>0, VolumeAssumption DEF VolumeSpecs
  <2>2. ASSUME possible PROVE v \in Volume /\ v.cap >= Item.cap
    <3>1. CASE Item.clone = None
      BY <2>1, <3>1 DEF Volume, Contents
    <3>2. CASE Item.clone # None
      <4>1. vols[Item.clone] \in Volume
        BY <2>0, <2>2, <3>2 DEF VolumeSpecs, Maybe, Has
      <4>2. PICK s \in Volume : s = vols[Item.clone]
        BY <4>1
      <4>3. s.cap \in Caps /\ s.cap \in Nat /\ Larger(s.cap, Item.cap) \in Caps
            /\ Larger(s.cap, Item.cap) >= Item.cap
        BY <2>1, VolumeIs DEF Larger
      <4>4. Cloned(s, Item.cap) \in Volume
            /\ Cloned(s, Item.cap).cap = Larger(s.cap, Item.cap)
        BY <4>3 DEF Cloned, Volume
      <4> QED
        BY <3>2, <4>2, <4>3, <4>4
    <3> QED
      BY <3>1, <3>2
  <2> HIDE DEF v
  <2>3. ASSUME possible PROVE MayWrite(v) /\ Here("facts", TRUE, v, TRUE)
    <3>1. v \in Volume /\ v.cap >= Item.cap
      BY <2>2, <2>3
    <3>2. Placed("facts") /\ ~check
      BY <1>2, Looking DEF CreateVolume, Placed, Removing, Making, Filling, Writing
    <3>3. MayWrite(v)
      BY <2>3, <3>1, <3>2 DEF MayWrite, Maybe, Has
    <3>4. Recorded("facts", TRUE, TRUE) /\ Met("facts", TRUE, v)
      BY <3>1, <3>2 DEF Recorded, Met, Untouched, Filling
    <3> QED
      BY <3>2, <3>3, <3>4 DEF Here
  <2>4. Call(possible, "facts", v) /\ pc # "pool"
    BY <1>2 DEF CreateVolume, v
  <2> HIDE DEF possible
  <2> QED
    BY <2>3, <2>4, CallStepped
<1> QED
  BY <1>1, <1>2

LEMMA ResizeStepped ==
  ASSUME Ready, ~ForIso, ReadInfo \/ \E locked : Resize(locked)
  PROVE  Stepped
<1> DEFINE old == vols[Item.name]
<1>0. /\ Item \in VolumeSpecs /\ old \in Maybe(Volume)
      /\ pc \in {"info", "resize"} => Item.resize
  BY ReadyTypes, Looking DEF ItemTyped, Placed, ReadInfo, Resize
<1>1. Item.cap \in Caps /\ Item.cap \in Nat
  BY <1>0, VolumeAssumption DEF VolumeSpecs
<1>2. CASE ReadInfo
  <2> DEFINE drifts == Has(Item.name) /\ Drifts
             to == IF drifts /\ ~check THEN "resize" ELSE "facts"
  <2>1. ASSUME VolumeUp(Item.name)
        PROVE  Here(to, drifts /\ check, old, moved)
    <3>1. old \in Volume /\ old.cap \in Nat
      BY <1>0, <2>1, VolumeIs DEF Maybe, VolumeUp, Has
    <3>2. Placed(to)
      BY <1>0, <1>2, Looking DEF ReadInfo, Placed, Removing, Making, Filling, Writing
    <3>3. Recorded(to, drifts /\ check, moved)
      BY <1>2, Looking DEF ReadInfo, Recorded, Untouched, Filling, Drifts, Has
    <3>4. Met(to, drifts /\ check, old)
      BY <1>1, <3>1, Looking DEF Met, Drifts, Has, Maybe
    <3> QED
      BY <3>2, <3>3, <3>4 DEF Here
  <2>2. Read(VolumeUp(Item.name), to, drifts /\ check) /\ pc # "pool"
    BY <1>2 DEF ReadInfo
  <2> HIDE DEF to, drifts
  <2> QED
    BY <2>1, <2>2, ReadStepped
<1>3. ASSUME NEW locked, Resize(locked)
      PROVE  Stepped
  <2> DEFINE v == [old EXCEPT !.cap = Item.cap]
             possible == /\ VolumeUp(Item.name)
                         /\ old.cap <= Item.cap /\ Item.name \notin locked
  <2>1. ASSUME possible PROVE MayWrite(v) /\ Here("facts", TRUE, v, TRUE)
    <3>1. old \in Volume
      BY <1>0, <2>1 DEF Maybe, VolumeUp, Has
    <3>2. v \in Volume /\ v.cap = Item.cap /\ v.data = old.data
      BY <1>1, <3>1 DEF Volume
    <3>3. Placed("facts") /\ ~check
      BY <1>3, Looking DEF Resize, Placed, Removing, Making, Filling, Writing
    <3>4. MayWrite(v)
      BY <2>1, <3>2, <3>3, VolumeIs DEF MayWrite, Maybe
    <3>5. Recorded("facts", TRUE, TRUE) /\ Met("facts", TRUE, v)
      BY <1>1, <3>2, <3>3 DEF Recorded, Met, Untouched, Filling
    <3> QED
      BY <3>3, <3>4, <3>5 DEF Here
  <2>2. Call(possible, "facts", v) /\ pc # "pool"
    BY <1>3 DEF Resize
  <2> HIDE DEF possible, v
  <2> QED
    BY <2>1, <2>2, CallStepped
<1> QED
  BY <1>2, <1>3

LEMMA RemovalStepped ==
  ASSUME Ready, Wipe \/ Delete
  PROVE  Stepped
<1> DEFINE old == vols[Item.name]
<1>0. /\ old \in Maybe(Volume) /\ Item.state = "absent" /\ ~check
      /\ pc = "wipe" => ~ForIso
  BY ReadyTypes, Looking DEF Placed, Removing, Writing, Wipe, Delete
<1>1. CASE Wipe
  <2> DEFINE v == [old EXCEPT !.data = "blank"]
  <2>1. ASSUME VolumeUp(Item.name) PROVE MayWrite(v) /\ Here("delete", TRUE, v, TRUE)
    <3>1. old \in Volume
      BY <1>0, <2>1 DEF Maybe, VolumeUp, Has
    <3>2. v \in Volume
      BY <3>1 DEF Volume, Contents
    <3>3. Placed("delete") /\ Recorded("delete", TRUE, TRUE) /\ Met("delete", TRUE, v)
      BY <1>0 DEF Placed, Recorded, Met, Removing, Making, Filling, Writing, Untouched
    <3> QED
      BY <1>0, <3>2, <3>3 DEF MayWrite, Maybe, Here
  <2>2. Call(VolumeUp(Item.name), "delete", v) /\ pc # "pool"
    BY <1>1 DEF Wipe
  <2> HIDE DEF v
  <2> QED
    BY <2>1, <2>2, CallStepped
<1>2. CASE Delete
  <2>1. MayWrite(None)
    BY <1>0 DEF MayWrite, Maybe
  <2>2. Here("done", TRUE, None, TRUE)
    BY <1>0 DEF Here, Placed, Recorded, Met, Removing, Making, Filling, Writing, Untouched
  <2>3. Call(VolumeUp(Item.name), "done", None) /\ pc # "pool"
    BY <1>2 DEF Delete
  <2> QED
    BY <2>1, <2>2, <2>3, CallStepped
<1> QED
  BY <1>1, <1>2

LEMMA FillingStepped ==
  ASSUME Ready, ForIso, CreateIso \/ Upload \/ Send \/ FinishStream
  PROVE  Stepped
<1> DEFINE old == vols[Item.name]
<1>0. /\ old \in Maybe(Volume) /\ Item.state = "present" /\ ~check
      /\ Recorded(pc, changed, moved) /\ Met(pc, changed, old)
      /\ pc # "pool"
  BY ReadyTypes, Looking DEF Placed, Making, Filling, Writing, CreateIso, Upload, Send,
     FinishStream
<1>1. CASE CreateIso
  <2> DEFINE v == [cap |-> IsoSize, data |-> "blank"]
             possible == HandleUp /\ ~Has(Item.name)
  <2>1. CASE Item.form = "malformed" /\ Return(Raised)
    BY <2>1, ReturnStepped, RaisedAnswers
  <2>2. CASE Item.form = "good" /\ Call(possible, "upload", v)
    <3>1. v \in Volume /\ v.data = "blank"
      BY IsoAssumption DEF Volume, Contents
    <3> HIDE DEF v
    <3>2. ASSUME possible PROVE MayWrite(v) /\ Here("upload", TRUE, v, TRUE)
      <4>1. MayWrite(v)
        BY <1>0, <3>1, <3>2 DEF MayWrite, Maybe, Has
      <4>2. Placed("upload") /\ Recorded("upload", TRUE, TRUE) /\ Met("upload", TRUE, v)
        BY <1>0, <3>1 DEF Placed, Recorded, Met, Removing, Making, Filling, Writing,
           Untouched
      <4> QED
        BY <4>1, <4>2 DEF Here
    <3> HIDE DEF possible
    <3> QED
      BY <1>0, <2>2, <3>2, CallStepped
  <2> QED
    BY <1>1, <2>1, <2>2 DEF CreateIso
<1>2. CASE Upload
  <2>1. Here("send", changed, old, moved)
    BY <1>0, <1>2 DEF Upload, Here, Placed, Recorded, Met, Removing, Making, Filling,
       Writing, Untouched
  <2> QED
    BY <1>0, <1>2, <2>1, ReadStepped DEF Upload
<1>3. CASE Send
  <2>0. ASSUME NEW d \in Contents, VolumeUp(Item.name)
        PROVE  MayWrite([old EXCEPT !.data = d]) /\ [old EXCEPT !.data = d].data = d
    <3>1. old \in Volume /\ old.data = "blank"
      BY <1>0, <1>3, <2>0 DEF Maybe, VolumeUp, Has, Send, Met
    <3>2. [old EXCEPT !.data = d] \in Volume /\ [old EXCEPT !.data = d].data = d
      BY <2>0, <3>1 DEF Volume
    <3> QED
      BY <1>0, <3>1, <3>2 DEF MayWrite, Maybe
  <2>1. CASE Call(VolumeUp(Item.name), "finish", [old EXCEPT !.data = "part"])
    <3> DEFINE v == [old EXCEPT !.data = "part"]
    <3>1. ASSUME VolumeUp(Item.name) PROVE MayWrite(v) /\ v.data = "part"
      BY <2>0, <3>1 DEF Contents
    <3> HIDE DEF v
    <3>2. ASSUME VolumeUp(Item.name) PROVE Here("finish", TRUE, v, TRUE)
      BY <1>0, <3>1, <3>2 DEF Here, Placed, Recorded, Met, Removing, Making, Filling,
         Writing, Untouched
    <3> QED
      BY <1>0, <2>1, <3>1, <3>2, CallStepped DEF v
  <2>2. CASE /\ VolumeUp(Item.name) /\ EndsRaised(TRUE)
             /\ vols' = [vols EXCEPT ![Item.name].data = "part"]
             /\ moved' = TRUE
             /\ UNCHANGED <<pool, cache, changed, alone>>
    <3>1. MayWrite([old EXCEPT !.data = "part"])
      BY <2>0, <2>2 DEF Contents
    <3>2. vols' = [vols EXCEPT ![Item.name] = [old EXCEPT !.data = "part"]]
      BY <2>2
    <3>3. /\ pc' = "next" /\ entries' = Append(entries, Raised) /\ Kept
      BY <2>2, EndsRaisedKeeps
    <3>4. Breaks([old EXCEPT !.data = "part"])
      BY <2>2, <3>1, <3>2, <3>3 DEF Breaks
    <3> QED
      BY <3>4 DEF Stepped
  <2> QED
    BY <1>3, <2>1, <2>2 DEF Send
<1>4. CASE FinishStream
  <2> DEFINE v == [old EXCEPT !.data = "full"]
  <2>1. ASSUME VolumeUp(Item.name) PROVE MayWrite(v) /\ v.data = "full"
    <3>1. old \in Volume /\ old.data = "part"
      BY <1>0, <1>4, <2>1 DEF Maybe, VolumeUp, Has, FinishStream, Met
    <3>2. v \in Volume /\ v.data = "full"
      BY <3>1 DEF Volume, Contents
    <3> QED
      BY <1>0, <3>1, <3>2 DEF MayWrite, Maybe
  <2>2. Call(VolumeUp(Item.name), "facts", v) /\ ForIso
    BY <1>4 DEF FinishStream
  <2> HIDE DEF v
  <2>3. ASSUME VolumeUp(Item.name) PROVE Here("facts", TRUE, v, TRUE)
    BY <1>0, <1>4, <2>1, <2>2, <2>3 DEF FinishStream, Here, Placed, Recorded, Met, Removing,
       Making, Filling, Writing, Untouched
  <2> QED
    BY <1>0, <2>1, <2>2, <2>3, CallStepped
<1> QED
  BY <1>1, <1>2, <1>3, <1>4

LEMMA VolumeStepped ==
  ASSUME Inv, Busy, play[t].op = "volumes", NEW locked, ReconcileVolume(locked)
  PROVE  Ready /\ Stepped
<1>1. Ready /\ ~ForIso
  BY InvReady DEF ForIso
<1> QED
  BY <1>1, GetPoolStepped, LookupVolumeStepped, AnswersStepped, CreateVolumeStepped,
     ResizeStepped, RemovalStepped DEF ReconcileVolume

LEMMA IsoStepped ==
  ASSUME Inv, Busy, play[t].op = "iso", ReconcileIso
  PROVE  Ready /\ Stepped
<1>1. Ready /\ ForIso
  BY InvReady DEF ForIso
<1> QED
  BY <1>1, GetPoolStepped, LookupIsoStepped, AnswersStepped, FillingStepped,
     RemovalStepped DEF ReconcileIso

-----------------------------------------------------------------------------
(* Plays and clients *)

HostTypes ==
  /\ vols \in [VolNames -> Maybe(Volume)] /\ pool \in Maybe(Pool)
  /\ dom \in [Names -> {"missing", "off", "on"}]
  /\ configured \in [Names -> {"never", "yes", "no"}]
  /\ \A n \in Names : dom[n] = "on" => configured[n] # "never"
  /\ cutShort \subseteq {n \in VolNames : vols[n] # None}

BoundTypes == faults \in 0..MaxFaults /\ meddle \in 0..MaxMeddle

LEMMA TypeParts ==
  ASSUME TypeOK
  PROVE  HostTypes /\ BoundTypes
  BY DEF TypeOK, VolumeTypes, RunTypes, HostTypes, BoundTypes

LEMMA BoundsKept ==
  ASSUME TypeOK, Fault \/ UNCHANGED bounds
  PROVE  BoundTypes'
<1>1. BoundTypes /\ MaxFaults \in Nat
  BY TypeParts, RunAssumption
<1> QED
  BY <1>1 DEF BoundTypes, Fault, bounds

LEMMA HostKept ==
  ASSUME TypeOK, UNCHANGED <<vols, pool, dom, configured, cutShort>>
  PROVE  HostTypes'
  BY TypeParts DEF HostTypes

LEMMA EndPlayInv ==
  ASSUME TypeOK, NEW result \in {"ok", "failed"}, EndPlayWith(result),
         HostTypes', BoundTypes'
  PROVE  Inv'
<1>1. /\ pc' = "idle" /\ check' = FALSE /\ entries' = <<>> /\ cache' = None
      /\ changed' = FALSE /\ alone' = TRUE /\ moved' = FALSE /\ outcome' = result
      /\ UNCHANGED <<play, t, quiet>>
  BY DEF EndPlayWith
<1>2. settled' \in BOOLEAN
  BY DEF EndPlayWith, TypeOK
<1>3. entries' \in Seq(Entry)
  BY <1>1
<1>4. VolumeTypes'
  BY <1>1, <1>3 DEF VolumeTypes, RunTypes, VolumePCs, Busy, Maybe, HostTypes, BoundTypes
<1>5. TypeOK'
  BY <1>1, <1>2, <1>4 DEF TypeOK, HostTypes
<1> QED
  BY <1>1, <1>5 DEF Inv

LEMMA NextTaskInv ==
  ASSUME TypeOK, t <= Len(play), NextTask, HostTypes', BoundTypes'
  PROVE  Inv'
<1>1. /\ pc' = "task" /\ t' = t + 1
      /\ UNCHANGED <<items, i, check, entries, cache, changed, alone, moved,
                     play, outcome, quiet, settled>>
  BY DEF NextTask
<1>2. t' \in 1..(Len(play') + 1)
  <2>1. Len(play) \in Nat /\ t \in 1..(Len(play) + 1)
    BY PlaysSound DEF TypeOK
  <2> QED
    BY <1>1, <2>1
<1>3. VolumeTypes'
  BY <1>1 DEF TypeOK, VolumeTypes, RunTypes, VolumePCs, Busy, HostTypes, BoundTypes
<1>4. TypeOK'
  BY <1>1, <1>2, <1>3 DEF TypeOK, HostTypes
<1> QED
  BY <1>1, <1>4 DEF Inv

LEMMA NextItemInv ==
  ASSUME Inv, NextItem, NotesCutShort, PlayKept
  PROVE  Inv'
<1>1. /\ pc = "next" /\ TypeOK /\ Running /\ i < Len(items)
      /\ pc' = IF cache = None THEN "pool" ELSE "lookup"
      /\ i' = i + 1 /\ changed' = FALSE /\ alone' = TRUE /\ moved' = FALSE
      /\ UNCHANGED <<vols, pool, cache, items, check, entries, bounds>>
  BY DEF NextItem, ItemUp, Inv, Busy
<1>2. i \in 1..Len(items) /\ Len(items) \in Nat /\ Len(entries) = i
  <2>1. t \in 1..Len(play) /\ Sound(play[t])
    BY <1>1, PlaysSound DEF TypeOK, Running
  <2>2. Len(items) \in Nat
    BY <1>1, <2>1 DEF Sound, Running
  <2> QED
    BY <1>1, <2>2 DEF TypeOK, VolumeTypes, RunTypes
<1>3. RunTypes'
  BY <1>1, <1>2 DEF TypeOK, VolumeTypes, RunTypes, bounds
<1>4. VolumeTypes'
  BY <1>1, <1>3 DEF TypeOK, VolumeTypes, VolumePCs, Busy
<1>5. cutShort' \subseteq {n \in VolNames : vols'[n] # None}
  BY <1>1, <1>4, CutShortIn DEF VolumeTypes
<1>6. TypeOK'
  BY <1>1, <1>4, <1>5 DEF TypeOK, PlayKept
<1>7. Running'
  BY <1>1 DEF Running, PlayKept
<1>8. Here(pc, changed, vols[Item.name], moved)'
  BY <1>1, <1>6 DEF Here, Placed, Recorded, Met, Removing, Making, Filling, Writing,
     Untouched, TypeOK, VolumeTypes, RunTypes
<1> QED
  BY <1>1, <1>6, <1>7, <1>8 DEF Inv, Busy

LEMMA ModuleInv ==
  ASSUME Inv, ModuleSteps
  PROVE  Inv'
<1>1. NotesCutShort /\ PlayKept
  BY DEF ModuleSteps, PlayKept
<1>2. CASE NextItem
  BY <1>1, <1>2, NextItemInv
<1>3. CASE ~NextItem
  <2>1. Ready /\ Stepped
    BY <1>3, VolumeStepped, IsoStepped DEF ModuleSteps
  <2> QED
    BY <1>1, <2>1, SteppedInv
<1> QED
  BY <1>2, <1>3

LEMMA BeginTaskInv ==
  ASSUME Inv, BeginTask
  PROVE  Inv'
<1>1. /\ TypeOK /\ t <= Len(play) /\ play[t].op \in {"volumes", "iso"}
      /\ items' = play[t].specs /\ UNCHANGED check
      /\ entries' = <<>> /\ cache' = None /\ i' = 1 /\ pc' = "pool"
      /\ changed' = FALSE /\ alone' = TRUE /\ moved' = FALSE
      /\ UNCHANGED <<vols, pool, bounds, dom, configured, play, t, outcome, quiet,
                     settled, cutShort>>
  BY DEF Inv, BeginTask, BeginRun, ItemUp, At, roles
<1>2. Sound(play[t])
  BY <1>1, PlaysSound DEF TypeOK
<1>3. Len(items') \in Nat /\ Len(items') > 0
  <2>1. \/ items' \in Seq(VolumeSpecs) /\ items' # <<>>
        \/ items' \in Seq(IsoSpecs) /\ items' # <<>>
    BY <1>1, <1>2 DEF Sound
  <2> QED
    BY <2>1
<1>4. entries' \in Seq(Entry) /\ Len(entries') = 0
  BY <1>1
<1>5. RunTypes'
  BY <1>1, <1>3, <1>4 DEF TypeOK, VolumeTypes, RunTypes, bounds
<1>6. VolumeTypes'
  BY <1>1, <1>5 DEF TypeOK, VolumeTypes, VolumePCs, Busy, Maybe
<1>7. TypeOK'
  BY <1>1, <1>6 DEF TypeOK
<1>8. Here(pc, changed, vols[Item.name], moved)'
  BY <1>1, <1>7 DEF Here, Placed, Recorded, Met, Removing, Making, Filling, Writing,
     Untouched, TypeOK, VolumeTypes, RunTypes
<1> QED
  BY <1>1, <1>7, <1>8 DEF Inv, Running, Busy

LEMMA PoolTaskInv ==
  ASSUME Inv, PoolTask
  PROVE  Inv'
<1>0. TypeOK /\ t <= Len(play) /\ pool \in Maybe(Pool) /\ check \in BOOLEAN
  BY DEF Inv, PoolTask, At, TypeOK, VolumeTypes, RunTypes
<1>1. pool # None => [pool EXCEPT !.active = @ \/ ~check] \in Pool
  BY <1>0 DEF Maybe, Pool
<1>2. pool' \in Maybe(Pool)
  BY <1>0, <1>1 DEF PoolTask, Maybe
<1>3. HostTypes'
  BY <1>0, <1>2, TypeParts DEF PoolTask, HostTypes
<1>4. BoundTypes'
  BY <1>0, BoundsKept DEF PoolTask
<1> QED
  BY <1>0, <1>3, <1>4, NextTaskInv, EndPlayInv DEF PoolTask

LEMMA EndTaskInv ==
  ASSUME Inv, EndTask \/ EndPlay
  PROVE  Inv'
<1>0. TypeOK
  BY DEF Inv
<1>1. HostTypes' /\ BoundTypes'
  BY <1>0, HostKept, BoundsKept DEF EndTask, EndPlay
<1>2. CASE EndTask
  <2>1. t <= Len(play)
    BY <1>2 DEF EndTask, Finishing, Inv, Running, Busy
  <2> QED
    BY <1>0, <1>1, <1>2, <2>1, NextTaskInv, EndPlayInv DEF EndTask
<1>3. CASE EndPlay
  BY <1>0, <1>1, <1>3, EndPlayInv DEF EndPlay
<1> QED
  BY <1>2, <1>3

LEMMA BecomesHost ==
  ASSUME TypeOK, NEW vm \in Instance, NEW d \in {"missing", "off", "on"},
         Becomes(vm, d), UNCHANGED <<pool, cutShort>>
  PROVE  HostTypes' /\ \A n \in VolNames : GuestKept(n)
<1> DEFINE starts == d = "on" /\ dom[vm.name] # "on"
<1>0. /\ HostTypes /\ vm.name \in Names
      /\ starts => Startable(vm)
      /\ dom' = [dom EXCEPT ![vm.name] = d]
      /\ configured' = IF starts /\ configured[vm.name] = "never"
                       THEN [configured EXCEPT ![vm.name] =
                               IF vols[vm.seed].data = "full" /\ vols[vm.os].data # "blank"
                               THEN "yes" ELSE "no"]
                       ELSE configured
      /\ vols' = [n \in VolNames |->
                    IF starts /\ n \in instance_disks(vm) \ {vm.seed}
                    THEN [vols[n] EXCEPT !.data = "guest"] ELSE vols[n]]
  BY TypeParts DEF Becomes, Instance
<1>1. ASSUME NEW n \in VolNames
      PROVE  /\ vols'[n] \in Maybe(Volume)
             /\ vols[n] # None => vols'[n] # None
             /\ GuestKept(n)
  <2>1. CASE starts /\ n \in instance_disks(vm) \ {vm.seed}
    <3>1. vols[n] \in Volume
      BY <1>0, <2>1 DEF HostTypes, Startable, Has, Maybe
    <3>2. vols'[n] = [vols[n] EXCEPT !.data = "guest"]
      BY <1>0, <2>1
    <3>3. vols'[n] \in Volume /\ vols'[n].data = "guest" /\ vols'[n].cap = vols[n].cap
      BY <3>1, <3>2 DEF Volume, Contents
    <3>4. vols'[n] # None /\ vols[n].cap \in Nat
      BY <3>1, <3>3, VolumeIs
    <3> QED
      BY <3>3, <3>4 DEF Maybe, GuestKept
  <2>2. CASE ~(starts /\ n \in instance_disks(vm) \ {vm.seed})
    <3>1. vols'[n] = vols[n]
      BY <1>0, <2>2
    <3> QED
      BY <1>0, <3>1, UntouchedKept DEF HostTypes
  <2> QED
    BY <2>1, <2>2
<1>2. vols' \in [VolNames -> Maybe(Volume)]
  BY <1>0, <1>1
<1>3. cutShort' \subseteq {n \in VolNames : vols'[n] # None}
  BY <1>0, <1>1 DEF HostTypes
<1>4. /\ dom' \in [Names -> {"missing", "off", "on"}]
      /\ configured' \in [Names -> {"never", "yes", "no"}]
  BY <1>0 DEF HostTypes
<1>5. ASSUME NEW n \in Names, dom'[n] = "on"
      PROVE  configured'[n] # "never"
  <2>1. CASE n = vm.name
    BY <1>0, <1>5, <2>1 DEF HostTypes
  <2>2. CASE n # vm.name
    BY <1>0, <1>5, <2>2 DEF HostTypes
  <2> QED
    BY <2>1, <2>2
<1> QED
  BY <1>0, <1>1, <1>2, <1>3, <1>4, <1>5 DEF HostTypes

LEMMA DomainTaskHost ==
  ASSUME TypeOK, DomainTask
  PROVE  HostTypes' /\ \A n \in VolNames : GuestKept(n)
<1> DEFINE vm == play[t].vm
           d == dom[vm.name]
<1>0. vm \in Instance
  <2>1. Sound(play[t]) /\ play[t].op = "domain"
    BY PlaysSound DEF DomainTask, At, TypeOK
  <2> QED
    BY <2>1 DEF Sound
<1>1. d \in {"missing", "off", "on"}
  BY <1>0, TypeParts DEF HostTypes, Instance
<1> HIDE DEF vm
<1>2. Driven(vm, d) \subseteq {"missing", "off", "on"}
  BY <1>1 DEF Driven
<1>3. UNCHANGED <<pool, cutShort>>
  BY DEF DomainTask
<1>4. CASE UNCHANGED <<vols, dom, configured>>
  BY <1>3, <1>4, HostKept, UntouchedKept
<1>5. ASSUME NEW to \in {d, IF d = "missing" THEN "off" ELSE d} \cup Driven(vm, d),
             Becomes(vm, to)
      PROVE  HostTypes' /\ \A n \in VolNames : GuestKept(n)
  <2>1. to \in {"missing", "off", "on"}
    BY <1>1, <1>2
  <2> QED
    BY <1>0, <1>3, <1>5, <2>1, BecomesHost
<1> QED
  BY <1>4, <1>5 DEF DomainTask, vm

LEMMA DomainTaskInv ==
  ASSUME Inv, DomainTask
  PROVE  Inv'
<1>0. TypeOK /\ t <= Len(play)
  BY DEF Inv, DomainTask, At
<1>1. HostTypes'
  BY <1>0, DomainTaskHost
<1>2. BoundTypes'
  BY <1>0, BoundsKept DEF DomainTask
<1> QED
  BY <1>0, <1>1, <1>2, NextTaskInv, EndPlayInv DEF DomainTask

LEMMA KillInv ==
  ASSUME Inv, Kill
  PROVE  Inv'
<1>0. TypeOK
  BY DEF Inv
<1>1. pc \in {"upload", "send", "finish", "delete"} => Item.name \in VolNames
  BY InvReady, ReadyTypes DEF Busy, ItemTyped
<1>2. cutShort' \subseteq {n \in VolNames : vols'[n] # None}
  BY <1>0, <1>1, CutShortIn, TypeParts DEF Kill, HostTypes
<1>3. HostTypes'
  BY <1>0, <1>2, TypeParts DEF Kill, HostTypes
<1>4. BoundTypes'
  BY <1>0, BoundsKept DEF Kill
<1> QED
  BY <1>0, <1>3, <1>4, EndPlayInv DEF Kill

LEMMA BeginPlayInv ==
  ASSUME Inv, NEW c \in BOOLEAN, BeginPlay(c)
  PROVE  Inv'
<1>0. TypeOK /\ pc = "idle"
  BY DEF Inv, BeginPlay
<1>1. /\ pc' = "task" /\ play' \in Plays /\ t' = 1 /\ check' = c
      /\ outcome' = "none" /\ quiet' = TRUE /\ settled' \in BOOLEAN
      /\ UNCHANGED <<vols, pool, dom, configured, cache, changed, alone, moved,
                     items, i, entries, bounds, cutShort>>
  BY <1>0 DEF BeginPlay, TypeOK
<1>2. t' \in 1..(Len(play') + 1)
  BY <1>1, PlaysSound
<1>3. VolumeTypes'
  BY <1>0, <1>1 DEF TypeOK, VolumeTypes, RunTypes, VolumePCs, Busy, bounds
<1>4. TypeOK'
  BY <1>0, <1>1, <1>2, <1>3 DEF TypeOK
<1> QED
  BY <1>1, <1>4 DEF Inv

LEMMA ClientsInv ==
  ASSUME Inv, Clients
  PROVE  Inv'
<1>0. TypeOK /\ HostTypes /\ MaxMeddle \in Nat
  BY TypeParts, RunAssumption DEF Inv
<1>1. /\ meddle < MaxMeddle /\ meddle' = meddle + 1
      /\ quiet' = FALSE /\ settled' = FALSE
      /\ UNCHANGED <<pc, items, i, check, entries, faults, cache, changed, moved,
                     configured, play, t, outcome>>
  BY DEF Clients, ClientMovesPool, ClientDeletes, GuestStops, Outside
<1>2. HostTypes' /\ alone' \in BOOLEAN
  <2>1. CASE ClientMovesPool
    BY <1>0, <1>1, <2>1 DEF ClientMovesPool, HostTypes, Maybe, TypeOK, VolumeTypes
  <2>2. ASSUME NEW n \in VolNames, ClientDeletes(n)
        PROVE  HostTypes' /\ alone' \in BOOLEAN
    <3>1. vols' \in [VolNames -> Maybe(Volume)]
      BY <1>0, <2>2 DEF ClientDeletes, HostTypes, Maybe
    <3>2. cutShort' \subseteq {m \in VolNames : vols'[m] # None}
      BY <1>0, <2>2 DEF ClientDeletes, HostTypes
    <3> QED
      BY <1>0, <1>1, <2>2, <3>1, <3>2 DEF ClientDeletes, HostTypes, TypeOK, VolumeTypes
  <2>3. ASSUME NEW n \in Names, GuestStops(n)
        PROVE  HostTypes' /\ alone' \in BOOLEAN
    <3>1. dom' = [dom EXCEPT ![n] = "off"] /\ UNCHANGED <<vols, pool, alone, cutShort>>
      BY <2>3 DEF GuestStops
    <3>2. \A m \in Names : dom'[m] = "on" => dom[m] = "on"
      BY <1>0, <3>1 DEF HostTypes
    <3> QED
      BY <1>0, <1>1, <3>1, <3>2 DEF HostTypes, TypeOK, VolumeTypes
  <2> QED
    BY <2>1, <2>2, <2>3 DEF Clients
<1>3. RunTypes'
  BY <1>0, <1>1 DEF TypeOK, VolumeTypes, RunTypes
<1>4. VolumeTypes'
  BY <1>0, <1>1, <1>2, <1>3 DEF TypeOK, VolumeTypes, HostTypes, Busy
<1>5. TypeOK'
  BY <1>0, <1>1, <1>2, <1>4 DEF TypeOK, HostTypes
<1>6. UNCHANGED <<Item, ForIso, Running>>
  BY <1>1 DEF Item, ForIso, Running
<1>7. CASE pc \in {"idle", "task"}
  BY <1>1, <1>5, <1>7 DEF Inv
<1>8. CASE pc \notin {"idle", "task"}
  <2>1. Running /\ ItemTyped
    BY <1>0, <1>8, InHand DEF Inv
  <2>2. \/ UNCHANGED <<vols, alone>>
        \/ vols'[Item.name] = None /\ alone' = FALSE
        \/ vols'[Item.name] = vols[Item.name] /\ UNCHANGED alone
    <3>1. ASSUME NEW n \in VolNames, ClientDeletes(n)
          PROVE  \/ vols'[Item.name] = None /\ alone' = FALSE
                 \/ vols'[Item.name] = vols[Item.name] /\ UNCHANGED alone
      <4>1. /\ vols' = [vols EXCEPT ![n] = None]
            /\ alone' = (alone /\ Item.name # n)
            /\ alone \in BOOLEAN /\ Item.name \in VolNames
        BY <1>0, <1>8, <2>1, <3>1 DEF ClientDeletes, Busy, TypeOK, VolumeTypes, ItemTyped
      <4> QED
        BY <1>0, <4>1 DEF HostTypes
    <3> QED
      BY <3>1 DEF Clients, ClientMovesPool, GuestStops
  <2>3. CASE pc = "next"
    <3>1. EntryExact
      BY <2>3 DEF Inv, Busy
    <3>2. EntryExact'
      BY <1>1, <1>6, <2>2, <3>1 DEF EntryExact, Reached, Has
    <3> QED
      BY <1>1, <1>5, <1>6, <2>1, <2>3, <3>2 DEF Inv
  <2>4. CASE pc # "next"
    <3>1. Busy /\ Here(pc, changed, vols[Item.name], moved)
      BY <1>8, <2>4 DEF Inv, Busy
    <3>2. Busy' /\ Here(pc, changed, vols[Item.name], moved)'
      BY <1>1, <1>6, <2>2, <3>1 DEF Busy, Here, Placed, Recorded, Met
    <3> QED
      BY <1>5, <1>6, <2>1, <3>2 DEF Inv
  <2> QED
    BY <2>3, <2>4
<1> QED
  BY <1>7, <1>8

LEMMA InitInv == Init => Inv
<1> SUFFICES ASSUME Init PROVE Inv
  OBVIOUS
<1>1. /\ vols \in [VolNames -> Maybe(Volume)] /\ pool \in Maybe(Pool)
  BY InstancesAssumption DEF Init
<1>2. /\ pc = "idle" /\ check = FALSE /\ cache = None
      /\ changed = FALSE /\ alone = TRUE /\ moved = FALSE
  BY DEF Init
<1>3. RunTypes
  <2>1. faults \in 0..MaxFaults /\ meddle \in 0..MaxMeddle
    BY RunAssumption DEF Init
  <2>2. entries \in Seq(Entry)
    BY DEF Init
  <2> QED
    BY <1>2, <2>1, <2>2 DEF RunTypes
<1>4. VolumeTypes
  BY <1>1, <1>2, <1>3 DEF VolumeTypes, VolumePCs, Busy, Maybe
<1>5. play \in Plays \cup {<<>>} /\ t \in 1..(Len(play) + 1)
  <2>1. play = <<>> /\ t = 1 /\ Len(play) = 0
    BY DEF Init
  <2> QED
    BY <2>1
<1>6. /\ dom \in [Names -> {"missing", "off", "on"}]
      /\ configured \in [Names -> {"never", "yes", "no"}]
      /\ \A n \in Names : dom[n] # "on"
  BY DEF Init
<1>7. /\ outcome \in {"none", "ok", "failed"} /\ quiet \in BOOLEAN /\ settled \in BOOLEAN
      /\ cutShort = {}
  BY DEF Init
<1>8. TypeOK
  BY <1>4, <1>5, <1>6, <1>7 DEF TypeOK
<1> QED
  BY <1>2, <1>8 DEF Inv

LEMMA NextInv ==
  ASSUME Inv, [Next]_vars
  PROVE  Inv'
<1>1. CASE UNCHANGED vars
  BY <1>1 DEF vars, Inv, TypeOK, VolumeTypes, RunTypes, Busy, Running, EntryExact,
     Reached, Has, Here, Placed, Recorded, Met, Item, ForIso, Plays
<1> QED
  BY <1>1, ModuleInv, PoolTaskInv, BeginTaskInv, EndTaskInv, DomainTaskInv, KillInv,
     BeginPlayInv, ClientsInv DEF Next, Steps

LEMMA Invariance == InstancesSpec => []Inv
  BY InitInv, NextInv, PTL DEF InstancesSpec

-----------------------------------------------------------------------------
(* Theorems *)

\* Whatever fails, and whatever guests and other clients do, the plays keep their
\* types, an item runs on only with a pool handle, and a running instance has booted
\* (libvirt_volume.py:183-226, roles/instances/tasks/instance.yml).
THEOREM TypeCorrect == InstancesSpec => []TypeOK
  BY Invariance, PTL DEF Inv

\* For any list of volumes or seeds, an item that does not fail says changed exactly
\* when it did something, nothing in a dry run, and the volume is as asked unless
\* somebody else removed it (libvirt_volume.py:228-307, libvirt_cloud_init_iso.py:194-243).
THEOREM EntriesExact == InstancesSpec => []EntryExact
<1>1. Inv => EntryExact
  BY DEF Inv, EntryExact, Busy
<1> QED
  BY <1>1, Invariance, PTL

LEMMA StepsKeep ==
  ASSUME Inv, Steps, NEW n \in VolNames
  PROVE  GuestKept(n)
<1>0. TypeOK
  BY DEF Inv
<1>1. CASE UNCHANGED vols
  BY <1>0, <1>1, UntouchedKept
<1>2. CASE DomainTask
  BY <1>0, <1>2, DomainTaskHost
<1>3. CASE ModuleSteps
  <2>1. CASE NextItem
    BY <1>1, <2>1 DEF NextItem
  <2>2. CASE ~NextItem
    BY <1>3, <2>2, VolumeStepped, IsoStepped, SteppedKeeps DEF ModuleSteps
  <2> QED
    BY <2>1, <2>2
<1> QED
  BY <1>1, <1>2, <1>3 DEF Steps, PoolTask, BeginTask, BeginRun, EndTask, EndPlay

\* Whatever fails half-way, and whoever else is at work, no step of a play loses what
\* guests have written, but in a volume that a task is told to remove
\* (libvirt_volume.py:240-245, 275-288).
THEOREM KeepsGuestData == InstancesSpec => GuestDataKept
<1>1. Inv /\ [Next]_vars =>
        [Steps => \A n \in VolNames :
           Has(n) /\ vols[n].data = "guest" =>
             \/ vols'[n] # None /\ vols'[n].data = "guest" /\ vols'[n].cap >= vols[n].cap
             \/ Busy /\ ~check /\ Item.name = n /\ Item.state = "absent"]_vars
  BY StepsKeep DEF GuestKept
<1> QED
  BY <1>1, Invariance, PTL DEF InstancesSpec, GuestDataKept
-----------------------------------------------------------------------------
(* What a first boot finds *)

\* What a step makes of the volume in hand.
Turns(v) ==
  \/ pc = "delete" /\ v = None /\ Has(Item.name)
  \/ /\ pc = "create" /\ ~ForIso /\ pc' = "facts" /\ ~Has(Item.name)
     /\ Item.clone # None => Has(Item.clone)
     /\ v = IF Item.clone = None THEN [cap |-> Item.cap, data |-> "blank"]
            ELSE Cloned(vols[Item.clone], Item.cap)
  \/ /\ pc = "create" /\ ForIso /\ pc' = "upload" /\ ~Has(Item.name) /\ Item.form = "good"
     /\ v = [cap |-> IsoSize, data |-> "blank"]
  \/ /\ pc = "resize" /\ pc' = "facts" /\ Has(Item.name)
     /\ v = [vols[Item.name] EXCEPT !.cap = Item.cap]
  \/ /\ pc = "wipe" /\ pc' = "delete" /\ Has(Item.name)
     /\ v = [vols[Item.name] EXCEPT !.data = "blank"]
  \/ /\ pc = "send" /\ pc' \in {"finish", "next"} /\ Has(Item.name)
     /\ v = [vols[Item.name] EXCEPT !.data = "part"]
  \/ /\ pc = "finish" /\ pc' = "facts" /\ Has(Item.name)
     /\ v = [vols[Item.name] EXCEPT !.data = "full"]

Turned ==
  \/ /\ UNCHANGED vols
     /\ pc \in {"upload", "send", "finish", "delete"} => pc' \in {"next", "send"}
  \/ \E v : vols' = [vols EXCEPT ![Item.name] = v] /\ Turns(v)

LEMMA ReadTurns ==
  ASSUME NEW possible, NEW to, NEW c, Read(possible, to, c),
         pc \in {"upload", "send", "finish", "delete"} => to \in {"next", "send"}
  PROVE  Turned /\ UNCHANGED <<items, i>>
  BY DEF Read, CallFails, EndsRaised, EndItem, Continue, Observe, Turned

LEMMA CallTurns ==
  ASSUME NEW possible, NEW to, NEW v, Call(possible, to, v),
         possible /\ pc' = to => Turns(v)
  PROVE  Turned /\ UNCHANGED <<items, i>>
  BY DEF Call, CallFails, EndsRaised, EndItem, Continue, Observe, Turned

LEMMA ReturnTurns ==
  ASSUME NEW e, Return(e)
  PROVE  Turned /\ UNCHANGED <<items, i>>
  BY DEF Return, EndItem, Observe, Turned

LEMMA VolumeTurns ==
  ASSUME ~ForIso, NEW locked, ReconcileVolume(locked)
  PROVE  Turned /\ UNCHANGED <<items, i>>
<1>1. CASE GetPool
  BY <1>1 DEF GetPool, CallFails, EndsRaised, EndItem, Continue, Observe, Turned
<1>2. CASE MalformedVolume \/ AlreadyAbsent \/ Would \/ Deleted \/ VolumeFacts
  BY <1>2, ReturnTurns DEF MalformedVolume, AlreadyAbsent, Would, Deleted, VolumeFacts,
     CallFails, EndsRaised, EndItem, Observe, Turned
<1>3. CASE LookupVolume \/ LookupSource \/ ReadInfo
  BY <1>3, ReadTurns DEF LookupVolume, LookupSource, ReadInfo
<1>4. CASE CreateVolume
  BY <1>4, CallTurns DEF CreateVolume, Turns
<1>5. CASE Resize(locked)
  BY <1>5, CallTurns DEF Resize, Turns, VolumeUp
<1>6. CASE Wipe
  BY <1>6, CallTurns DEF Wipe, Turns, VolumeUp
<1>7. CASE Delete
  BY <1>7, CallTurns DEF Delete, Turns, VolumeUp
<1> QED
  BY <1>1, <1>2, <1>3, <1>4, <1>5, <1>6, <1>7 DEF ReconcileVolume

LEMMA IsoTurns ==
  ASSUME ForIso, ReconcileIso
  PROVE  Turned /\ UNCHANGED <<items, i>>
<1>1. CASE GetPool
  BY <1>1 DEF GetPool, CallFails, EndsRaised, EndItem, Continue, Observe, Turned
<1>2. CASE AlreadyAbsent \/ Would \/ Deleted \/ VolumeFacts
  BY <1>2, ReturnTurns DEF AlreadyAbsent, Would, Deleted, VolumeFacts,
     CallFails, EndsRaised, EndItem, Observe, Turned
<1>3. CASE LookupIso \/ Upload
  BY <1>3, ReadTurns DEF LookupIso, Upload
<1>4. CASE CreateIso
  BY <1>4, CallTurns, ReturnTurns DEF CreateIso, Turns
<1>5. CASE Send
  <2>1. CASE Call(VolumeUp(Item.name), "finish", [vols[Item.name] EXCEPT !.data = "part"])
    BY <1>5, <2>1, CallTurns DEF Send, Turns, VolumeUp
  <2>2. CASE /\ VolumeUp(Item.name) /\ EndsRaised(TRUE)
             /\ vols' = [vols EXCEPT ![Item.name].data = "part"]
    BY <1>5, <2>2 DEF Send, Turns, Turned, VolumeUp, EndsRaised, EndItem
  <2> QED
    BY <1>5, <2>1, <2>2 DEF Send
<1>6. CASE Delete
  BY <1>6, CallTurns DEF Delete, Turns, VolumeUp
<1>7. CASE FinishStream
  BY <1>7, CallTurns DEF FinishStream, Turns, VolumeUp
<1> QED
  BY <1>1, <1>2, <1>3, <1>4, <1>5, <1>6, <1>7 DEF ReconcileIso

\* One step of the module that runs.
Reconciles ==
  \/ ~ForIso /\ ReconcileVolume(Locked)
  \/ ForIso /\ ReconcileIso

\* The call that comes next fills or removes n.
Underway(n) == pc \in {"upload", "send", "finish", "delete"} /\ Item.name = n

\* What v, the volume n, holds, unless it is being filled or removed or that has failed.
Fit(n, v, off) ==
  v # None =>
    /\ n \in Seeds => v.data # "guest"
    /\ n \in Images => v.data # "blank"
    /\ ~off /\ n \in Seeds => v.data = "full"
    /\ ~off /\ n \in OsDisks => v.data # "blank"

Holds(n) == Fit(n, vols[n], n \in cutShort \/ Underway(n))

Presenting == {"lookupSource", "create", "info", "resize"}

\* What of the item has been looked at.
Looked ==
  /\ pc \in Presenting /\ ~ForIso => Item.form = "good"
  /\ pc = "wipe" => Item.wipe

Stocked == (\A n \in VolNames : Holds(n)) /\ Looked

LEMMA ItemAsked ==
  ASSUME TypeOK, Running, pc \notin {"idle", "task"}
  PROVE  Item \in Asks(play[t].op) /\ play \in Plays
<1>1. t \in 1..Len(play) /\ play \in Plays \cup {<<>>} /\ Len(play) \in Nat
  BY PlaysSound DEF TypeOK, Running
<1>2. play \in Plays
  <2>1. Len(<<>>) = 0
    OBVIOUS
  <2> QED
    BY <1>1, <2>1
<1>3. i \in 1..Len(play[t].specs) /\ Item = play[t].specs[i]
  BY DEF TypeOK, VolumeTypes, RunTypes, Running, Item
<1> QED
  BY <1>1, <1>2, <1>3 DEF Asks

LEMMA DataKinds ==
  ASSUME TypeOK, NEW n \in VolNames, vols[n] # None
  PROVE  vols[n] \in Volume /\ vols[n].data \in {"blank", "part", "full", "guest"}
  BY VolumeIs DEF TypeOK, VolumeTypes, Maybe, Contents

\* Only a note takes a volume that is there out of hand.
LEMMA UntouchedHolds ==
  ASSUME TypeOK, NEW n \in VolNames, Holds(n), NotesCutShort, vols'[n] = vols[n],
         Underway(n) => Underway(n)' \/ pc' \in {"next", "idle"}
  PROVE  Holds(n)'
<1> SUFFICES ASSUME vols[n] # None
             PROVE  Fit(n, vols[n], (n \in cutShort \/ Underway(n))')
  BY DEF Holds, Fit
<1>1. /\ n \in cutShort => n \in cutShort'
      /\ n \in cutShort' \/ Underway(n)' \/ (Underway(n) => vols[n].data \notin {"blank", "part"})
  <2>1. cutShort' = {m \in cutShort \cup
                       (IF /\ pc \in {"upload", "send", "finish", "delete"} /\ pc' \in {"next", "idle"}
                           /\ vols'[Item.name] # None /\ vols'[Item.name].data \in {"blank", "part"}
                        THEN {Item.name} ELSE {}) : vols'[m] # None}
    BY DEF NotesCutShort
  <2>2. CASE Underway(n) /\ ~Underway(n)'
    <3>1. Item.name = n /\ pc \in {"upload", "send", "finish", "delete"} /\ pc' \in {"next", "idle"}
      BY <2>2 DEF Underway
    <3> QED
      BY <2>1, <3>1
  <2> QED
    BY <2>1, <2>2
<1> QED
  BY <1>1, DataKinds DEF Holds, Fit

LEMMA LeftHolds ==
  ASSUME NEW n \in VolNames, Holds(n), vols'[n] = vols[n], UNCHANGED cutShort, ~Underway(n)
  PROVE  Holds(n)'
  BY DEF Holds, Fit

\* A step of a module, on the volume in hand.
LEMMA TurnedHolds ==
  ASSUME Apart, Ready, Stocked, NotesCutShort, UNCHANGED <<items, i>>,
         NEW v, vols' = [vols EXCEPT ![Item.name] = v], Turns(v),
         NEW n \in VolNames, n = Item.name
  PROVE  Holds(n)'
<1> DEFINE old == vols[n]
<1>0. /\ TypeOK /\ vols \in [VolNames -> Maybe(Volume)]
      /\ vols'[n] = v /\ Item' = Item /\ Holds(n) /\ Looked
      /\ Item \in Asks(play[t].op) /\ play[t].op \in {"volumes", "iso"}
      /\ Placed(pc) /\ (~ForIso => Item \in VolumeSpecs)
  BY ReadyTypes, ItemAsked DEF Ready, ItemTyped, Stocked, Item, Busy, Running, Here
<1>1. v # None => (n \in cutShort => n \in cutShort')
  BY <1>0 DEF NotesCutShort
<1>2. old # None => old \in Volume /\ old.data \in {"blank", "part", "full", "guest"}
  BY <1>0, DataKinds
<1> HIDE DEF old
<1>3. CASE pc = "delete"
  BY <1>0, <1>3 DEF Turns, Holds, Fit
<1>4. CASE pc = "create" /\ ~ForIso
  <2>1. Item \in Makes("volumes")
    BY <1>0, <1>4 DEF Makes, Placed, Making, Looked, Presenting, ForIso
  <2>2. n \notin Seeds \cup Images
    BY <2>1 DEF Apart
  <2>3. CASE n \in OsDisks
    <3>1. Item.clone \in Images
      BY <2>1, <2>3 DEF Images
    <3>2. Item.clone # None /\ Item.clone \in VolNames
      BY <1>0, <1>4, <3>1 DEF Apart, VolumeSpecs, Maybe
    <3>3. vols[Item.clone] \in Volume /\ vols[Item.clone].data # "blank"
      BY <1>0, <1>4, <3>1, <3>2, DataKinds DEF Turns, Has, Stocked, Holds, Fit
    <3>4. v = Cloned(vols[Item.clone], Item.cap)
      BY <1>4, <3>2 DEF Turns
    <3>5. v.data = vols[Item.clone].data
      BY <3>3, <3>4 DEF Cloned, Volume
    <3> QED
      BY <1>0, <2>2, <3>3, <3>5 DEF Holds, Fit
  <2> QED
    BY <1>0, <2>2, <2>3 DEF Holds, Fit
<1>5. CASE pc = "create" /\ ForIso
  <2>1. pc' = "upload" /\ Item.form = "good" /\ v.data = "blank"
    BY <1>5 DEF Turns
  <2>2. Item \in Makes("iso")
    BY <1>0, <1>5, <2>1 DEF Makes, Placed, Making, ForIso
  <2>3. n \notin OsDisks \cup Images
    BY <2>2 DEF Apart
  <2>4. Underway(n)'
    BY <1>0, <2>1 DEF Underway
  <2> QED
    BY <1>0, <2>1, <2>3, <2>4 DEF Holds, Fit
<1>6. CASE pc = "resize"
  <2>1. old # None /\ v.data = old.data /\ ~Underway(n)
    BY <1>2, <1>6 DEF Turns, Has, Volume, Underway, old
  <2> QED
    BY <1>0, <1>1, <2>1 DEF Holds, Fit, old
<1>7. CASE pc = "wipe"
  <2>1. pc' = "delete" /\ v.data = "blank"
    BY <1>2, <1>7 DEF Turns, Has, Volume, old
  <2>2. n \notin Images
    BY <1>0, <1>7 DEF Apart, Placed, Removing, Looked, ForIso
  <2>3. Underway(n)'
    BY <1>0, <2>1 DEF Underway
  <2> QED
    BY <1>0, <2>1, <2>2, <2>3 DEF Holds, Fit
<1>8. CASE pc = "send"
  <2>1. CASE pc' = "finish"
    <3>1. v.data = "part"
      BY <1>2, <1>8, <2>1 DEF Turns, Has, Volume, old
    <3>2. Underway(n)'
      BY <1>0, <2>1 DEF Underway
    <3> QED
      BY <1>0, <3>1, <3>2 DEF Holds, Fit
  <2>2. CASE pc' = "next"
    <3>1. v.data = "part"
      BY <1>2, <1>8, <2>2 DEF Turns, Has, Volume, old
    <3>2. v # None => n \in cutShort'
      BY <1>0, <1>8, <2>2, <3>1 DEF NotesCutShort
    <3> QED
      BY <1>0, <3>1, <3>2 DEF Holds, Fit
  <2> QED
    BY <1>8, <2>1, <2>2 DEF Turns
<1>9. CASE pc = "finish"
  <2>1. v.data = "full"
    BY <1>2, <1>9 DEF Turns, Has, Volume, old
  <2> QED
    BY <1>0, <2>1 DEF Holds, Fit
<1> QED
  BY <1>3, <1>4, <1>5, <1>6, <1>7, <1>8, <1>9 DEF Turns

LEMMA LookedKept ==
  ASSUME Ready, Looked, UNCHANGED <<items, i, play, t>>, Reconciles
  PROVE  Looked'
<1>0. Item' = Item /\ ForIso' = ForIso /\ Placed(pc)
  BY Looking DEF Item, ForIso
<1>1. CASE ~ForIso /\ LookupVolume
  <2>1. /\ pc' \in {AfterLookup(Has(Item.name)), "next"}
        /\ Item.state = "present" => Item.form = "good"
    BY <1>1 DEF LookupVolume, Read, Continue, CallFails, EndsRaised, EndItem
  <2>2. AfterLookup(Has(Item.name)) \in Presenting => Item.state = "present"
    BY Looking DEF AfterLookup, Presenting
  <2>3. AfterLookup(Has(Item.name)) = "wipe" => Item.wipe
    BY DEF AfterLookup
  <2> HIDE DEF AfterLookup
  <2> QED
    BY <1>0, <2>1, <2>2, <2>3 DEF Looked, Presenting
<1>2. CASE ~ForIso /\ (LookupSource \/ ReadInfo)
  <2>1. /\ pc \in {"lookupSource", "info"}
        /\ pc' \in {"would", "create", "resize", "facts", "next"}
    BY <1>2 DEF LookupSource, ReadInfo, Read, Continue, CallFails, EndsRaised, EndItem
  <2> QED
    BY <1>0, <1>2, <2>1 DEF Looked, Presenting
<1>3. CASE pc' \notin Presenting \cup {"wipe"}
  BY <1>3 DEF Looked
<1>4. CASE ~ForIso /\ ReconcileVolume(Locked) /\ ~LookupVolume /\ ~LookupSource /\ ~ReadInfo
  <2>1. pc' \notin {"lookupSource", "create", "info", "resize", "wipe"}
    BY <1>4 DEF ReconcileVolume, GetPool, MalformedVolume, AlreadyAbsent, Would,
       CreateVolume, Resize, Wipe, Delete, Deleted, VolumeFacts, Read, Call,
       Continue, Return, CallFails, EndsRaised, EndItem
  <2> QED
    BY <2>1, <1>3 DEF Presenting
<1>5. CASE ForIso /\ ReconcileIso
  <2>1. pc' # "wipe"
    BY <1>5 DEF ReconcileIso, GetPool, LookupIso, AfterIsoLookup, AlreadyAbsent, Would,
       CreateIso, Upload, Send, FinishStream, Delete, Deleted, VolumeFacts, Read, Call,
       Continue, Return, CallFails, EndsRaised, EndItem
  <2> QED
    BY <1>0, <1>5, <2>1 DEF Looked
<1> QED
  BY <1>1, <1>2, <1>4, <1>5 DEF Reconciles

LEMMA ModuleStocked ==
  ASSUME Apart, Inv, Stocked, ModuleSteps
  PROVE  Stocked'
<1>1. NotesCutShort /\ PlayKept /\ TypeOK
  BY DEF ModuleSteps, PlayKept, Inv
<1>2. CASE NextItem
  <2>1. pc = "next" /\ pc' \in {"pool", "lookup"} /\ UNCHANGED vols
    BY <1>2 DEF NextItem, ItemUp
  <2>2. \A n \in VolNames : Holds(n)'
    BY <1>1, <2>1, UntouchedHolds DEF Stocked, Underway
  <2> QED
    BY <2>1, <2>2 DEF Stocked, Looked, Presenting
<1>3. CASE ~NextItem
  <2>1. Ready /\ Reconciles
    <3>1. Busy /\ Reconciles
      BY <1>3 DEF ModuleSteps, Reconciles, ForIso
    <3> QED
      BY <3>1, InvReady
  <2>2. Turned /\ UNCHANGED <<items, i>>
    BY <2>1, VolumeTurns, IsoTurns DEF Reconciles
  <2>3. Looked'
    BY <1>1, <2>1, <2>2, LookedKept DEF PlayKept, Stocked
  <2>4. CASE /\ UNCHANGED vols
             /\ pc \in {"upload", "send", "finish", "delete"} => pc' \in {"next", "send"}
    <3>1. Item' = Item
      BY <2>2 DEF Item
    <3>2. ASSUME NEW n \in VolNames PROVE Holds(n)'
      <4>1. Underway(n) => Underway(n)' \/ pc' \in {"next", "idle"}
        BY <2>4, <3>1 DEF Underway
      <4>2. vols'[n] = vols[n] /\ Holds(n)
        BY <2>4 DEF Stocked
      <4> QED
        BY <1>1, <4>1, <4>2, UntouchedHolds
    <3> QED
      BY <2>3, <3>2 DEF Stocked
  <2>5. ASSUME NEW v, vols' = [vols EXCEPT ![Item.name] = v], Turns(v), NEW n \in VolNames
        PROVE  Holds(n)'
    <3>1. CASE n = Item.name
      BY <1>1, <2>1, <2>2, <2>5, <3>1, TurnedHolds
    <3>2. CASE n # Item.name
      <4>1. vols'[n] = vols[n] /\ ~Underway(n)
        BY <1>1, <2>5, <3>2 DEF TypeOK, VolumeTypes, Underway
      <4> QED
        BY <1>1, <4>1, UntouchedHolds DEF Stocked
    <3> QED
      BY <3>1, <3>2
  <2> QED
    BY <2>2, <2>3, <2>4, <2>5 DEF Turned, Stocked
<1> QED
  BY <1>2, <1>3

\* Outside the modules nothing is in hand.
LEMMA OutsideStocked ==
  ASSUME Stocked, pc \in {"idle", "task", "next"}, pc' \in {"idle", "task", "next", "pool"},
         UNCHANGED <<vols, cutShort>>
  PROVE  Stocked'
  BY LeftHolds DEF Stocked, Underway, Looked, Presenting

LEMMA DomainTurns ==
  ASSUME TypeOK, DomainTask
  PROVE  \E d : Becomes(play[t].vm, d) \/ UNCHANGED <<vols, dom, configured>>
  BY DEF DomainTask

LEMMA DomainVm ==
  ASSUME TypeOK, DomainTask
  PROVE  play[t].vm \in AllVMs /\ play[t].vm \in Instance
<1>1. Sound(play[t]) /\ play[t].op = "domain"
  BY PlaysSound DEF DomainTask, At, TypeOK
<1> QED
  BY <1>1 DEF Sound

\* A domain that starts leaves seeds alone.
LEMMA DomainStocked ==
  ASSUME Apart, Inv, Stocked, DomainTask
  PROVE  Stocked'
<1>1. /\ TypeOK /\ pc = "task" /\ pc' \in {"idle", "task"} /\ UNCHANGED cutShort
  BY DEF DomainTask, At, Inv, NextTask, EndPlayWith
<1>2. CASE UNCHANGED vols
  BY <1>1, <1>2, OutsideStocked
<1>3. ASSUME NEW d, Becomes(play[t].vm, d)
      PROVE  Stocked'
  <2> DEFINE vm == play[t].vm
             starts == d = "on" /\ dom[vm.name] # "on"
  <2>1. vm \in AllVMs
    BY <1>1, DomainVm
  <2>2. /\ starts => Startable(vm)
        /\ vols' = [n \in VolNames |->
                      IF starts /\ n \in instance_disks(vm) \ {vm.seed}
                      THEN [vols[n] EXCEPT !.data = "guest"] ELSE vols[n]]
    BY <1>3 DEF Becomes
  <2> HIDE DEF vm
  <2>3. ASSUME NEW n \in VolNames PROVE Holds(n)'
    <3>1. CASE starts /\ n \in instance_disks(vm) \ {vm.seed}
      <4>1. n \notin Seeds
        BY <2>1, <3>1 DEF Apart, Seeds
      <4>2. vols[n] # None
        BY <2>2, <3>1 DEF Startable, Has
      <4>3. vols'[n].data = "guest"
        BY <1>1, <2>2, <3>1, <4>2, DataKinds DEF Volume
      <4> QED
        BY <4>1, <4>3 DEF Holds, Fit
    <3>2. CASE ~(starts /\ n \in instance_disks(vm) \ {vm.seed})
      <4>1. vols'[n] = vols[n] /\ ~Underway(n)
        BY <1>1, <2>2, <3>2 DEF Underway
      <4> QED
        BY <1>1, <4>1, LeftHolds DEF Stocked
    <3> QED
      BY <3>1, <3>2
  <2> QED
    BY <1>1, <2>3 DEF Stocked, Looked, Presenting
<1> QED
  BY <1>1, <1>2, <1>3, DomainTurns

LEMMA ClientsStocked ==
  ASSUME Inv, Stocked, Clients
  PROVE  Stocked'
<1>1. UNCHANGED <<pc, items, i, play, t>> /\ TypeOK
  BY DEF Clients, ClientMovesPool, ClientDeletes, GuestStops, Outside, Inv
<1>2. Item' = Item /\ ForIso' = ForIso
  BY <1>1 DEF Item, ForIso
<1>3. Looked' /\ \A n : Underway(n)' <=> Underway(n)
  BY <1>1, <1>2 DEF Stocked, Looked, Underway
<1>4. ASSUME NEW n \in VolNames PROVE Holds(n)'
  <2>1. CASE UNCHANGED <<vols, cutShort>>
    BY <1>3, <2>1 DEF Stocked, Holds, Fit
  <2>2. ASSUME NEW m \in VolNames, ClientDeletes(m) PROVE Holds(n)'
    <3>1. /\ vols' = [vols EXCEPT ![m] = None] /\ cutShort' = cutShort \ {m}
          /\ vols \in [VolNames -> Maybe(Volume)]
      BY <1>1, <2>2 DEF ClientDeletes, TypeOK, VolumeTypes
    <3>2. CASE n = m
      BY <3>1, <3>2 DEF Holds, Fit
    <3>3. CASE n # m
      <4>1. vols'[n] = vols[n] /\ (n \in cutShort' <=> n \in cutShort)
        BY <3>1, <3>3
      <4> QED
        BY <1>3, <4>1 DEF Stocked, Holds, Fit
    <3> QED
      BY <3>2, <3>3
  <2> QED
    BY <2>1, <2>2 DEF Clients, ClientMovesPool, GuestStops
<1> QED
  BY <1>3, <1>4 DEF Stocked

LEMMA NextStocked ==
  ASSUME Apart, Inv, Stocked, [Next]_vars
  PROVE  Stocked'
<1>1. CASE UNCHANGED vars
  <2>1. Item' = Item /\ ForIso' = ForIso
    BY <1>1 DEF vars, Item, ForIso
  <2> QED
    BY <1>1, <2>1 DEF vars, Stocked, Holds, Fit, Underway, Looked
<1>2. CASE Kill
  <2>1. TypeOK /\ NotesCutShort /\ UNCHANGED vols /\ pc' = "idle"
    BY <1>2 DEF Kill, EndPlayWith, Inv
  <2>2. \A n \in VolNames : Holds(n)'
    BY <2>1, UntouchedHolds DEF Stocked
  <2> QED
    BY <2>1, <2>2 DEF Stocked, Looked, Presenting
<1>3. ASSUME NEW c \in BOOLEAN, BeginPlay(c) PROVE Stocked'
  BY <1>3, OutsideStocked DEF BeginPlay
<1>4. CASE PoolTask \/ BeginTask \/ EndTask \/ EndPlay
  BY <1>4, OutsideStocked DEF PoolTask, BeginTask, BeginRun, ItemUp, EndTask, EndPlay,
     Finishing, At, NextTask, EndPlayWith, roles
<1> QED
  BY <1>1, <1>2, <1>3, <1>4, ModuleStocked, DomainStocked, ClientsStocked DEF Next, Steps

LEMMA InitStocked ==
  ASSUME Apart, Init
  PROVE  Stocked
<1>1. vols \in InitVols /\ pc = "idle"
  BY DEF Init
<1>2. ASSUME NEW n \in VolNames, vols[n] # None PROVE Fit(n, vols[n], FALSE)
  BY <1>1, <1>2 DEF Apart, Fit
<1> QED
  BY <1>1, <1>2 DEF Stocked, Holds, Fit, Looked, Presenting

\* Of a seed and a system disk that nothing has cut short, the first boot is complete.
LEMMA BootsComplete ==
  ASSUME Apart, Inv, Stocked, DomainTask, NEW n \in Names,
         configured'[n] = "no", configured[n] # "no"
  PROVE  {VmOf(n).seed, VmOf(n).os} \cap cutShort # {}
<1> DEFINE vm == play[t].vm
<1>1. TypeOK /\ pc = "task" /\ vm \in AllVMs /\ vm \in Instance
  BY DomainVm DEF Inv, DomainTask, At
<1>2. PICK d : Becomes(vm, d)
  BY <1>1, DomainTurns
<1>3. configured' = [configured EXCEPT ![vm.name] =
                       IF vols[vm.seed].data = "full" /\ vols[vm.os].data # "blank"
                       THEN "yes" ELSE "no"]
      /\ Startable(vm)
  BY <1>2 DEF Becomes
<1>4. n = vm.name /\ ~(vols[vm.seed].data = "full" /\ vols[vm.os].data # "blank")
  BY <1>1, <1>3 DEF TypeOK
<1>5. vm.seed \in VolNames /\ vm.os \in VolNames /\ vm.seed \in Seeds /\ vm.os \in OsDisks
  BY <1>1 DEF Instance, Seeds, OsDisks
<1>6. vols[vm.seed] # None /\ vols[vm.os] # None
  BY <1>3 DEF Startable, instance_disks, Has
<1>7. vm.seed \in cutShort \/ vm.os \in cutShort
  BY <1>1, <1>4, <1>5, <1>6 DEF Stocked, Holds, Fit, Underway
<1>8. VmOf(n).seed = vm.seed /\ VmOf(n).os = vm.os
  <2>1. VmOf(n) \in AllVMs /\ VmOf(n).name = n
    BY <1>1, <1>4 DEF VmOf
  <2> QED
    BY <1>1, <1>4, <2>1 DEF Apart
<1> QED
  BY <1>7, <1>8

\* For any instances whose disks, seeds and images are kept apart: when the role boots one
\* for the first time, its seed is complete and its system disk has an image on it, unless
\* making or removing one of them was cut short; whatever has failed or been removed
\* before, and whatever else the operator's plays do to volumes
\* (roles/instances/tasks/instance.yml:28-93).
THEOREM BootsWithSeed == Apart => (InstancesSpec => FirstBoot)
<1> SUFFICES ASSUME Apart PROVE InstancesSpec => FirstBoot
  OBVIOUS
<1>1. Init => Stocked
  BY InitStocked
<1>2. Inv /\ Stocked /\ [Next]_vars => Stocked'
  BY NextStocked
<1>3. Inv /\ Stocked /\ [Next]_vars =>
        [\A n \in Names : configured'[n] = "no" /\ configured[n] # "no" =>
           {VmOf(n).seed, VmOf(n).os} \cap cutShort # {}]_vars
  <2> SUFFICES ASSUME Inv, Stocked, Next, NEW n \in Names,
                      configured'[n] = "no", configured[n] # "no"
               PROVE  {VmOf(n).seed, VmOf(n).os} \cap cutShort # {}
    BY DEF vars
  <2>1. configured' # configured
    OBVIOUS
  <2>2. DomainTask
    BY <2>1 DEF Next, Steps, ModuleSteps, PoolTask, BeginTask, roles, EndTask, EndPlay,
       BeginPlay, Kill, Clients, ClientMovesPool, ClientDeletes, GuestStops, Outside
  <2> QED
    BY <2>2, BootsComplete
<1> QED
  BY <1>1, <1>2, <1>3, Invariance, PTL DEF InstancesSpec, FirstBoot
-----------------------------------------------------------------------------
(* A second play is silent *)

\* The volume that x names, v, is as x asks.
MetBy(op, x, v) ==
  IF x.state = "absent" THEN v = None
  ELSE v # None /\ (op = "volumes" /\ x.resize => v.cap = x.cap)

SpecMet(k, n) == MetBy(play[k].op, play[k].specs[n], vols[play[k].specs[n].name])

ItemMet == MetBy(play[t].op, Item, vols[Item.name])

\* The play has dealt with spec n of task k, and it has not failed.
Behind(k, n) ==
  \/ k < t
  \/ k = t /\ pc \notin {"idle", "task"} /\ n \in 1..Len(entries) /\ ~entries[n].failed

Resting == pc \in {"pool", "lookup", "info", "facts", "gone"} /\ changed = FALSE

\* A volume that is ready has its capacity.
Sized ==
  pc = "facts" /\ ~ForIso /\ Item.resize /\ Has(Item.name) => vols[Item.name].cap = Item.cap

\* Nobody makes what is cloned, so its capacity stays below what is asked of a clone.
Fixed ==
  \A s \in Makes("volumes") : s.clone # None /\ s.resize /\ Has(s.clone) =>
    vols[s.clone].cap <= s.cap

\* Somebody else at the item's volume is somebody else in the play.
Alone == pc = "idle" \/ quiet => alone

Settled ==
  settled =>
    /\ \A k \in 1..Len(play) : \A n \in 1..Len(play[k].specs) : SpecMet(k, n)
    /\ Busy => Resting
    /\ pc = "next" => ~entries[i].changed

Settling ==
  quiet /\ ~check /\ pc # "idle" =>
    /\ \A k \in 1..Len(play) : \A n \in 1..Len(play[k].specs) : Behind(k, n) => SpecMet(k, n)
    /\ Sized

Silent == Looked /\ Fixed /\ Alone /\ Settled /\ Settling

\* An item that finds its volume as it asks looks, and answers that nothing changed.
LEMMA RestingStays ==
  ASSUME Ready, Resting, ItemMet, Reconciles
  PROVE  /\ UNCHANGED vols
         /\ \/ pc' \in {"lookup", "info", "facts", "gone"} /\ changed' = FALSE
            \/ pc' = "next" /\ \E e : EndItem(e) /\ ~e.changed
<1>0. /\ Item.state = "absent" <=> ~Has(Item.name)
      /\ ~ForIso /\ Item.state = "present" /\ Item.resize => ~Drifts
      /\ Item.state \in {"present", "absent"}
  BY Looking DEF ItemMet, MetBy, Has, Drifts, ReadyTypes, Ready, Running, ForIso
<1>1. CASE GetPool
  BY <1>1 DEF GetPool, CallFails, EndsRaised, EndItem, Continue, Observe, Resting, Raised
<1>2. CASE AlreadyAbsent \/ MalformedVolume \/ VolumeFacts
  BY <1>2 DEF AlreadyAbsent, MalformedVolume, VolumeFacts, Return, CallFails, EndsRaised,
     EndItem, Observe, Resting, Raised, Ok
<1>3. ASSUME NEW possible, NEW to, NEW c, Read(possible, to, c),
             possible => to \in {"lookup", "info", "facts", "gone"} /\ c = FALSE
      PROVE  /\ UNCHANGED vols
             /\ \/ pc' \in {"lookup", "info", "facts", "gone"} /\ changed' = FALSE
                \/ pc' = "next" /\ \E e : EndItem(e) /\ ~e.changed
  BY <1>3 DEF Read, CallFails, EndsRaised, EndItem, Continue, Observe, Raised
<1>4. CASE ~ForIso /\ LookupVolume
  <2>1. AfterLookup(Has(Item.name)) \in {"info", "facts", "gone"}
    BY <1>0 DEF AfterLookup
  <2> QED
    BY <1>3, <1>4, <2>1 DEF LookupVolume, Resting
<1>5. CASE ForIso /\ LookupIso
  <2>1. AfterIsoLookup(Has(Item.name)) \in {"facts", "gone"}
    BY <1>0 DEF AfterIsoLookup
  <2> QED
    BY <1>3, <1>5, <2>1 DEF LookupIso, Resting
<1>6. CASE ~ForIso /\ ReadInfo
  <2>1. ~(Has(Item.name) /\ Drifts)
    BY <1>0, <1>6, Looking DEF ReadInfo, Placed, Making
  <2> QED
    BY <1>3, <1>6, <2>1 DEF ReadInfo
<1> QED
  BY <1>1, <1>2, <1>4, <1>5, <1>6 DEF Reconciles, ReconcileVolume, ReconcileIso, Resting,
     Would, LookupSource, CreateVolume, Resize, Wipe, Delete, Deleted, CreateIso, Upload,
     Send, FinishStream

\* An item that nobody disturbs and that does not fail leaves its volume as it asks.
LEMMA EndsMet ==
  ASSUME Ready, Reconciles, Sized, ~check, alone, pc' = "next"
  PROVE  \E e : EndItem(e) /\ (e.failed \/ (UNCHANGED vols /\ ItemMet))
<1>0. /\ Placed(pc) /\ Met(pc, changed, vols[Item.name]) /\ Running
      /\ Item.state \in {"present", "absent"}
  BY Looking, ReadyTypes
<1>1. ASSUME NEW possible, EndsRaised(possible)
      PROVE  \E e : EndItem(e) /\ (e.failed \/ (UNCHANGED vols /\ ItemMet))
  BY <1>1 DEF EndsRaised, Raised
<1>2. CASE AlreadyAbsent \/ Deleted
  <2>1. vols[Item.name] = None /\ Item.state = "absent"
    BY <1>0, <1>2 DEF AlreadyAbsent, Deleted, Met, Placed, Removing
  <2> QED
    BY <1>2, <2>1 DEF AlreadyAbsent, Deleted, Return, Observe, ItemMet, MetBy
<1>3. CASE VolumeFacts
  <2>1. CASE VolumeUp(Item.name) /\ Return(Ok(changed))
    <3>1. Has(Item.name) /\ pc = "facts" /\ Item.state = "present"
      BY <1>0, <1>3, <2>1 DEF VolumeFacts, VolumeUp, Placed, Making
    <3>2. ItemMet
      BY <1>0, <3>1 DEF ItemMet, MetBy, Sized, Has, Running, ForIso
    <3> QED
      BY <2>1, <3>2 DEF Return, Observe
  <2> QED
    BY <1>1, <1>3, <2>1 DEF VolumeFacts, CallFails
<1>4. CASE MalformedVolume \/ CreateIso
  BY <1>1, <1>4 DEF MalformedVolume, CreateIso, Return, Raised, Call, CallFails, Continue
<1>5. CASE Would
  BY <1>0, <1>5 DEF Would, Placed
<1> DEFINE Falls == \E possible : EndsRaised(possible)
<1>6. ASSUME NEW possible, NEW to, NEW c, Read(possible, to, c), to # "next"
      PROVE  Falls
  BY <1>6 DEF Read, Continue, CallFails
<1>7. ASSUME NEW possible, NEW to, NEW v, Call(possible, to, v), to # "next"
      PROVE  Falls
  BY <1>7 DEF Call, Continue, CallFails
<1> HIDE DEF Falls
<1>8. CASE GetPool \/ LookupVolume \/ LookupIso \/ LookupSource \/ ReadInfo \/ Upload
  <2>1. AfterLookup(Has(Item.name)) # "next" /\ AfterIsoLookup(Has(Item.name)) # "next"
    BY DEF AfterLookup, AfterIsoLookup
  <2>2. ASSUME GetPool PROVE Falls
    BY <2>2 DEF GetPool, Continue, CallFails, Falls
  <2>3. Falls
    BY <1>6, <1>8, <2>1, <2>2 DEF LookupVolume, LookupIso, LookupSource, ReadInfo, Upload
  <2> QED
    BY <1>1, <2>3 DEF Falls
<1>9. CASE CreateVolume \/ (\E locked : Resize(locked)) \/ Wipe \/ Delete \/ Send
           \/ FinishStream
  <2>1. Falls
    BY <1>7, <1>9 DEF CreateVolume, Resize, Wipe, Delete, Send, FinishStream, Falls
  <2> QED
    BY <1>1, <2>1 DEF Falls
<1> QED
  BY <1>2, <1>3, <1>4, <1>5, <1>8, <1>9 DEF Reconciles, ReconcileVolume, ReconcileIso

\* Where a volume is made, it is one that the plays make.
LEMMA ItemMade ==
  ASSUME Ready, Looked, pc \in Presenting, ~ForIso
  PROVE  Item \in Makes("volumes") /\ Item \in VolumeSpecs
<1>1. TypeOK /\ Running /\ Busy /\ Placed(pc) /\ ItemTyped
  BY Looking, ReadyTypes DEF Ready
<1>2. Item \in Asks("volumes")
  BY <1>1, ItemAsked DEF Busy, Running, ForIso
<1> QED
  BY <1>1, <1>2 DEF Makes, Placed, Making, Presenting, Looked, ItemTyped

LEMMA CapKinds ==
  ASSUME TypeOK, NEW n \in VolNames, Has(n)
  PROVE  vols[n] \in Volume /\ vols[n].cap \in Nat
  BY VolumeIs DEF TypeOK, VolumeTypes, Maybe, Has

LEMMA CreatedSized ==
  ASSUME Ready, Looked, Fixed, pc = "create", ~ForIso, Item.resize, NEW v, Turns(v)
  PROVE  v.cap = Item.cap
<1>1. Item \in Makes("volumes") /\ Item.cap \in Nat /\ Item.clone \in Maybe(VolNames) /\ TypeOK
  BY ItemMade, VolumeAssumption DEF Presenting, VolumeSpecs, Ready
<1>2. CASE Item.clone = None
  BY <1>2 DEF Turns
<1>3. CASE Item.clone # None
  <2>1. Has(Item.clone) /\ v = Cloned(vols[Item.clone], Item.cap) /\ Item.clone \in VolNames
    BY <1>1, <1>3 DEF Turns, Maybe
  <2>2. vols[Item.clone].cap <= Item.cap
    BY <1>1, <1>3, <2>1 DEF Fixed
  <2>3. vols[Item.clone] \in Volume /\ vols[Item.clone].cap \in Nat
    BY <1>1, <2>1, CapKinds
  <2>4. v.cap = Larger(vols[Item.clone].cap, Item.cap)
    BY <2>1, <2>3 DEF Cloned, Volume
  <2> QED
    BY <1>1, <2>2, <2>3, <2>4 DEF Larger
<1> QED
  BY <1>2, <1>3

LEMMA SizedNext ==
  ASSUME Ready, Looked, Fixed, Sized, Reconciles, ~check, UNCHANGED <<items, i, play, t>>
  PROVE  Sized'
<1>0. /\ Item' = Item /\ ForIso' = ForIso /\ vols \in [VolNames -> Maybe(Volume)]
      /\ Item.name \in VolNames
  BY ReadyTypes DEF Item, ForIso, ItemTyped
<1> SUFFICES ASSUME pc' = "facts", ~ForIso, Item.resize, vols'[Item.name] # None
             PROVE  vols'[Item.name].cap = Item.cap
  BY <1>0 DEF Sized, Has
<1>1. CASE ReadInfo
  <2>1. UNCHANGED vols /\ VolumeUp(Item.name) /\ ~Drifts
    BY <1>1 DEF ReadInfo, Read, Continue, Observe, CallFails, EndsRaised, EndItem, VolumeUp
  <2> QED
    BY <2>1 DEF Drifts
<1>2. CASE LookupVolume
  <2>1. AfterLookup(Has(Item.name)) = "facts"
    BY <1>2 DEF LookupVolume, Read, Continue, CallFails, EndsRaised, EndItem
  <2> QED
    BY <2>1 DEF AfterLookup
<1>3. CASE CreateVolume
  <2> DEFINE v == IF Item.clone = None THEN [cap |-> Item.cap, data |-> "blank"]
                  ELSE Cloned(vols[Item.clone], Item.cap)
  <2>1. /\ pc = "create" /\ HandleUp /\ ~Has(Item.name) /\ (Item.clone # None => Has(Item.clone))
        /\ vols' = [vols EXCEPT ![Item.name] = v]
    BY <1>3 DEF CreateVolume, Call, CallFails, EndsRaised, EndItem
  <2>2. Turns(v)
    BY <2>1 DEF Turns
  <2> HIDE DEF v
  <2>3. v.cap = Item.cap /\ vols'[Item.name] = v
    BY <1>0, <2>1, <2>2, CreatedSized
  <2> QED
    BY <2>3
<1>4. CASE Resize(Locked)
  <2>1. /\ Has(Item.name)
        /\ vols' = [vols EXCEPT ![Item.name] = [vols[Item.name] EXCEPT !.cap = Item.cap]]
    BY <1>4 DEF Resize, Call, CallFails, EndsRaised, EndItem, VolumeUp
  <2>2. vols[Item.name] \in Volume
    BY <1>0, <2>1, CapKinds DEF Ready
  <2> QED
    BY <1>0, <2>1, <2>2 DEF Volume
<1>5. CASE GetPool \/ MalformedVolume \/ AlreadyAbsent \/ Would \/ LookupSource \/ Wipe \/ Delete
           \/ Deleted \/ VolumeFacts
  BY <1>5 DEF GetPool, MalformedVolume, AlreadyAbsent, Would, LookupSource, Wipe, Delete,
     Deleted, VolumeFacts, Read, Call, Continue, Return, CallFails, EndsRaised, EndItem
<1> QED
  BY <1>1, <1>2, <1>3, <1>4, <1>5 DEF Reconciles, ReconcileVolume

\* What a step makes of the volume in hand is still what another spec of the play asks.
LEMMA TurnKeeps ==
  ASSUME Agreeing, Ready, NEW v, Turns(v), UNCHANGED play,
         NEW k \in 1..Len(play), NEW n \in 1..Len(play[k].specs),
         vols' = [vols EXCEPT ![Item.name] = v], SpecMet(k, n)
  PROVE  SpecMet(k, n)'
<1> DEFINE x == play[k].specs[n]
<1>0. /\ vols \in [VolNames -> Maybe(Volume)] /\ TypeOK /\ Placed(pc) /\ Running
      /\ Item.name \in VolNames /\ Item.state \in {"present", "absent"} /\ Busy
      /\ (~ForIso => Item \in VolumeSpecs)
  BY ReadyTypes, Looking DEF ItemTyped, Ready
<1>1. CASE x.name # Item.name
  BY <1>0, <1>1 DEF SpecMet
<1>2. CASE x.name = Item.name
  <2>1. vols'[x.name] = v
    BY <1>0, <1>2
  <2>2. play \in Plays /\ t \in 1..Len(play) /\ i \in 1..Len(play[t].specs)
        /\ Item = play[t].specs[i]
    BY <1>0, ItemAsked DEF Busy, TypeOK, VolumeTypes, RunTypes, Running, Item
  <2>3. /\ x.state = Item.state
        /\ play[k].op = "volumes" /\ play[t].op = "volumes" /\ x.resize /\ Item.resize =>
             x.cap = Item.cap
    BY <1>2, <2>2 DEF Agreeing
  <2>4. MetBy(play[k].op, x, vols[x.name])
    BY DEF SpecMet
  <2>5. vols[x.name] # None => vols[x.name] \in Volume
    BY <1>0, <1>2 DEF Maybe
  <2> HIDE DEF x
  <2>6. MetBy(play[k].op, x, v)
    <3>1. CASE Item.state = "absent"
      <4>1. ~Has(Item.name)
        BY <1>2, <2>3, <2>4, <3>1 DEF MetBy, Has
      <4> QED
        BY <1>0, <3>1, <4>1 DEF Turns, Placed, Making, Filling
    <3>2. CASE Item.state = "present"
      <4>1. Has(Item.name) /\ vols[x.name] \in Volume
        BY <1>2, <2>3, <2>4, <2>5, <3>2 DEF MetBy, Has
      <4>2. pc \in {"resize", "send", "finish"}
        BY <1>0, <3>2, <4>1 DEF Turns, Placed, Removing
      <4>3. x.state = "present"
        BY <2>3, <3>2
      <4>4. v # None /\ (play[k].op = "volumes" /\ x.resize => v.cap = x.cap)
        <5>1. CASE pc = "resize"
          <6>1. /\ v = [vols[x.name] EXCEPT !.cap = Item.cap]
                /\ Item.resize /\ play[t].op = "volumes" /\ Item \in VolumeSpecs
            BY <1>0, <1>2, <5>1 DEF Turns, Placed, ForIso, Running
          <6>2. v \in Volume /\ v.cap = Item.cap
            BY <4>1, <6>1 DEF Volume, VolumeSpecs
          <6> QED
            BY <2>3, <6>1, <6>2, VolumeAssumption
        <5>2. CASE pc \in {"send", "finish"}
          <6>1. \E d \in Contents : v = [vols[x.name] EXCEPT !.data = d]
            BY <1>2, <5>2 DEF Turns, Contents
          <6>2. v \in Volume /\ v.cap = vols[x.name].cap
            BY <4>1, <6>1 DEF Volume
          <6> QED
            BY <2>4, <4>3, <6>2, VolumeAssumption DEF MetBy
        <5> QED
          BY <4>2, <5>1, <5>2
      <4> QED
        BY <4>3, <4>4 DEF MetBy
    <3> QED
      BY <1>0, <3>1, <3>2
  <2> QED
    BY <2>1, <2>6 DEF SpecMet, x
<1> QED
  BY <1>1, <1>2
LEMMA MadeTypes ==
  ASSUME NEW s \in Makes("volumes")
  PROVE  s \in VolumeSpecs
<1>1. PICK p \in Plays : \E k \in 1..Len(p) :
        p[k].op = "volumes" /\ \E n \in 1..Len(p[k].specs) : s = p[k].specs[n]
  BY DEF Makes, Asks
<1>2. PICK k \in 1..Len(p) :
        p[k].op = "volumes" /\ \E n \in 1..Len(p[k].specs) : s = p[k].specs[n]
  BY <1>1
<1>3. Sound(p[k])
  BY <1>1, PlaysSound
<1>4. p[k].specs \in Seq(VolumeSpecs)
  BY <1>2, <1>3 DEF Sound
<1> QED
  BY <1>2, <1>4

LEMMA SpecNames ==
  ASSUME TypeOK, NEW k \in 1..Len(play), NEW n \in 1..Len(play[k].specs)
  PROVE  play[k].specs[n].name \in VolNames
<1> DEFINE specs == play[k].specs
<1>1. Sound(play[k])
  BY PlaysSound DEF TypeOK
<1>2. specs \in Seq(VolumeSpecs) \/ specs \in Seq(IsoSpecs) \/ Len(specs) = 0
  BY <1>1 DEF Sound
<1> HIDE DEF specs
<1>3. n \in 1..Len(specs)
  BY DEF specs
<1>4. specs[n] \in VolumeSpecs \/ specs[n] \in IsoSpecs
  BY <1>2, <1>3
<1> QED
  BY <1>4 DEF specs, VolumeSpecs, IsoSpecs

\* No step of a module makes a volume that is cloned.
LEMMA FixedTurned ==
  ASSUME Agreeing, Ready, Looked, Fixed, NEW v, Turns(v), vols' = [vols EXCEPT ![Item.name] = v]
  PROVE  Fixed'
<1>0. /\ vols \in [VolNames -> Maybe(Volume)] /\ TypeOK /\ Placed(pc) /\ Running /\ Busy
      /\ Item.name \in VolNames
  BY ReadyTypes, Looking DEF ItemTyped, Ready
<1>1. SUFFICES ASSUME NEW s \in Makes("volumes"), s.clone # None, s.resize, Has(s.clone)'
               PROVE  vols'[s.clone].cap <= s.cap
  BY DEF Fixed
<1>2. s.clone \in VolNames
  BY <1>1, MadeTypes DEF VolumeSpecs, Maybe
<1>3. CASE s.clone # Item.name
  BY <1>0, <1>1, <1>2, <1>3 DEF Fixed, Has
<1>4. CASE s.clone = Item.name
  <2>1. Item \notin Makes("volumes") \cup Makes("iso")
    BY <1>1, <1>4 DEF Agreeing
  <2>2. ~(pc \in Presenting /\ ~ForIso)
    BY <2>1, ItemMade
  <2>3. ~(pc = "create" /\ ForIso /\ Item.form = "good")
    <3>1. Item \in Asks(play[t].op)
      BY <1>0, ItemAsked DEF Busy
    <3> QED
      BY <1>0, <2>1, <3>1 DEF Makes, Placed, Making, ForIso
  <2>4. vols'[Item.name] = v /\ v # None
    BY <1>0, <1>1, <1>4 DEF Has
  <2>5. /\ Has(Item.name)
        /\ \E d \in Contents : v = [vols[Item.name] EXCEPT !.data = d]
    BY <1>0, <2>2, <2>3, <2>4 DEF Turns, Placed, Presenting, Contents
  <2>6. vols[Item.name] \in Volume
    BY <1>0, <2>5, CapKinds
  <2>7. v.cap = vols[Item.name].cap
    BY <2>5, <2>6 DEF Volume
  <2> QED
    BY <1>1, <1>4, <2>4, <2>5, <2>7 DEF Fixed
<1> QED
  BY <1>3, <1>4

\* The same volumes are there, of the same capacity.
SameVolumes ==
  \A n \in VolNames : (Has(n)' <=> Has(n)) /\ (Has(n) => vols'[n].cap = vols[n].cap)

LEMMA SameSpecMet ==
  ASSUME TypeOK, SameVolumes, UNCHANGED play,
         NEW k \in 1..Len(play), NEW n \in 1..Len(play[k].specs), SpecMet(k, n)
  PROVE  SpecMet(k, n)'
  BY SpecNames DEF SameVolumes, SpecMet, MetBy, Has

LEMMA SameFixed ==
  ASSUME SameVolumes, Fixed
  PROVE  Fixed'
<1>1. SUFFICES ASSUME NEW s \in Makes("volumes"), s.clone # None, s.resize, Has(s.clone)'
               PROVE  vols'[s.clone].cap <= s.cap
  BY DEF Fixed
<1>2. s.clone \in VolNames
  BY <1>1, MadeTypes DEF VolumeSpecs, Maybe
<1> QED
  BY <1>1, <1>2 DEF Fixed, SameVolumes

LEMMA DomainSame ==
  ASSUME TypeOK, DomainTask
  PROVE  SameVolumes
<1>1. CASE UNCHANGED vols
  BY <1>1 DEF SameVolumes, Has
<1>2. ASSUME NEW d, Becomes(play[t].vm, d), NEW n \in VolNames
      PROVE  (Has(n)' <=> Has(n)) /\ (Has(n) => vols'[n].cap = vols[n].cap)
  <2> DEFINE vm == play[t].vm
             starts == d = "on" /\ dom[vm.name] # "on"
  <2>1. /\ starts => Startable(vm)
        /\ vols' = [m \in VolNames |->
                      IF starts /\ m \in instance_disks(vm) \ {vm.seed}
                      THEN [vols[m] EXCEPT !.data = "guest"] ELSE vols[m]]
    BY <1>2 DEF Becomes
  <2> HIDE DEF vm
  <2>2. CASE starts /\ n \in instance_disks(vm) \ {vm.seed}
    <3>1. Has(n) /\ vols'[n] = [vols[n] EXCEPT !.data = "guest"]
      BY <2>1, <2>2 DEF Startable
    <3>2. vols[n] \in Volume
      BY <3>1, CapKinds
    <3>3. vols'[n] \in Volume /\ vols'[n].cap = vols[n].cap
      BY <3>1, <3>2 DEF Volume, Contents
    <3> QED
      BY <3>1, <3>3, VolumeAssumption DEF Has
  <2>3. CASE ~(starts /\ n \in instance_disks(vm) \ {vm.seed})
    BY <2>1, <2>3 DEF Has
  <2> QED
    BY <2>2, <2>3
<1> QED
  BY <1>1, <1>2, DomainTurns DEF SameVolumes

LEMMA MetKept ==
  ASSUME Agreeing, Ready, Turned, UNCHANGED play,
         NEW k \in 1..Len(play), NEW n \in 1..Len(play[k].specs), SpecMet(k, n)
  PROVE  SpecMet(k, n)'
<1>1. CASE UNCHANGED vols
  BY <1>1 DEF SpecMet
<1>2. ASSUME NEW v, vols' = [vols EXCEPT ![Item.name] = v], Turns(v)
      PROVE  SpecMet(k, n)'
  BY <1>2, TurnKeeps
<1> QED
  BY <1>1, <1>2 DEF Turned

LEMMA EntryAdded ==
  ASSUME Ready, NEW e, EndItem(e)
  PROVE  /\ Len(entries') = i /\ entries'[i] = e /\ UNCHANGED <<items, i>>
         /\ \A j \in 1..(i - 1) : entries'[j] = entries[j]
<1>1. /\ i \in 1..Len(items) /\ Len(entries) = i - 1 /\ entries \in Seq(Entry)
      /\ Len(items) \in Nat
  <2>1. Sound(play[t]) /\ items = play[t].specs /\ play[t].op \in {"volumes", "iso"}
    BY ReadyTypes, PlaysSound DEF Ready, TypeOK, Running
  <2>2. Len(items) \in Nat
    BY <2>1 DEF Sound
  <2> QED
    BY <2>2, ReadyTypes
<1>2. entries' = Append(entries, e) /\ UNCHANGED <<items, i>>
  BY DEF EndItem
<1> QED
  BY <1>1, <1>2

\* One step of a module, the facts about it that follow.
Steady ==
  /\ Ready /\ Reconciles /\ Turned /\ PlayKept
  /\ UNCHANGED <<items, i, check, alone>>
  /\ pc' \notin {"idle", "task"} /\ (pc' # "next" => Busy' /\ UNCHANGED entries)

LEMMA ModuleSteady ==
  ASSUME Inv, ModuleSteps, ~NextItem
  PROVE  Steady
<1>1. Ready /\ Reconciles /\ Stepped /\ PlayKept
  <2>1. Busy /\ Reconciles
    BY DEF ModuleSteps, Reconciles, ForIso
  <2> QED
    BY <2>1, InvReady, VolumeStepped, IsoStepped DEF ModuleSteps, PlayKept
<1>2. Turned
  BY <1>1, VolumeTurns, IsoTurns DEF Reconciles
<1>3. UNCHANGED <<items, i, check, alone>>
  BY <1>1 DEF Stepped, Kept, Quiet, Writes, Ends, Breaks
<1>4. pc' \notin {"idle", "task"} /\ (pc' # "next" => Busy' /\ UNCHANGED entries)
  BY <1>1, PlacedBusy DEF Stepped, Quiet, Writes, Ends, Breaks, Here, Busy
<1> QED
  BY <1>1, <1>2, <1>3, <1>4 DEF Steady

LEMMA TaskInHand ==
  ASSUME Ready
  PROVE  /\ t \in 1..Len(play) /\ i \in 1..Len(play[t].specs) /\ Item = play[t].specs[i]
         /\ ItemMet <=> SpecMet(t, i)
<1>1. t \in 1..Len(play) /\ Running /\ items = play[t].specs
  BY ReadyTypes DEF Ready, TypeOK, Running
<1> QED
  BY <1>1, ReadyTypes DEF Item, ItemMet, SpecMet

LEMMA SettledNext ==
  ASSUME Steady, Settled
  PROVE  Settled'
<1>1. SUFFICES ASSUME settled
               PROVE  /\ \A k \in 1..Len(play') : \A n \in 1..Len(play'[k].specs) : SpecMet(k, n)'
                      /\ Busy' => Resting'
                      /\ pc' = "next" => ~entries'[i'].changed
  BY DEF Settled, Steady, PlayKept
<1>2. Ready /\ Resting /\ ItemMet /\ Reconciles
  BY <1>1, TaskInHand DEF Settled, Steady, Ready
<1>3. UNCHANGED <<vols, play>>
  BY <1>2, RestingStays DEF Steady, PlayKept
<1>4. \A k, n : SpecMet(k, n)' <=> SpecMet(k, n)
  BY <1>3 DEF SpecMet
<1>5. Busy' => Resting'
  BY <1>2, RestingStays DEF Busy, Resting
<1>6. ASSUME pc' = "next" PROVE ~entries'[i'].changed
  <2>1. PICK e : EndItem(e) /\ ~e.changed
    BY <1>2, <1>6, RestingStays
  <2> QED
    BY <1>2, <2>1, EntryAdded
<1> QED
  BY <1>1, <1>3, <1>4, <1>5, <1>6 DEF Settled

LEMMA SettlingNext ==
  ASSUME Agreeing, Steady, Looked, Fixed, Alone, Settling
  PROVE  Settling'
<1>1. /\ Ready /\ Reconciles /\ Turned /\ PlayKept /\ UNCHANGED <<items, i, check, alone>>
      /\ pc' \notin {"idle", "task"} /\ pc \notin {"idle", "task"}
  BY DEF Steady, Ready, Busy
<1>2. SUFFICES ASSUME quiet, ~check
               PROVE  /\ \A k \in 1..Len(play) : \A n \in 1..Len(play[k].specs) :
                           Behind(k, n)' => SpecMet(k, n)'
                      /\ Sized'
  BY <1>1 DEF Settling, PlayKept
<1>3. alone /\ Sized
  BY <1>1, <1>2 DEF Alone, Settling
<1>4. Sized'
  BY <1>1, <1>2, <1>3, SizedNext DEF PlayKept
<1>5. ASSUME NEW k \in 1..Len(play), NEW n \in 1..Len(play[k].specs), Behind(k, n)
      PROVE  SpecMet(k, n)'
  <2>1. SpecMet(k, n)
    BY <1>1, <1>2, <1>5 DEF Settling
  <2> QED
    BY <1>1, <1>5, <2>1, MetKept DEF PlayKept
<1>6. ASSUME NEW k \in 1..Len(play), NEW n \in 1..Len(play[k].specs), Behind(k, n)',
             ~Behind(k, n)
      PROVE  SpecMet(k, n)'
  <2>1. pc' = "next"
    BY <1>1, <1>6 DEF Behind, Steady, PlayKept
  <2>2. PICK e : EndItem(e) /\ (e.failed \/ (UNCHANGED vols /\ ItemMet))
    BY <1>1, <1>2, <1>3, <2>1, EndsMet
  <2>3. /\ Len(entries') = i /\ entries'[i] = e /\ i \in Nat /\ Len(entries) = i - 1
        /\ \A j \in 1..(i - 1) : entries'[j] = entries[j]
    BY <1>1, <2>2, EntryAdded, ReadyTypes
  <2>4. k = t /\ n = i /\ ~e.failed
    BY <1>1, <1>6, <2>3 DEF Behind, PlayKept
  <2>5. SpecMet(t, i) /\ UNCHANGED <<vols, play>>
    BY <1>1, <2>2, <2>4, TaskInHand DEF PlayKept
  <2> QED
    BY <2>4, <2>5 DEF SpecMet
<1> QED
  BY <1>4, <1>5, <1>6

LEMMA ModuleSilent ==
  ASSUME Agreeing, Inv, Silent, ModuleSteps, ~NextItem
  PROVE  Silent'
<1>1. Steady
  BY ModuleSteady
<1>2. /\ Ready /\ Reconciles /\ Turned /\ UNCHANGED <<items, i, play, t, alone, quiet>>
      /\ pc' # "idle" /\ Looked /\ Fixed /\ Alone /\ Settled /\ Settling
  BY <1>1 DEF Steady, PlayKept, Silent
<1>3. Looked'
  BY <1>2, LookedKept
<1>4. Fixed'
  <2>1. CASE UNCHANGED vols
    BY <1>2, <2>1 DEF Fixed, Has
  <2> QED
    BY <1>2, <2>1, FixedTurned DEF Turned
<1>5. Alone'
  BY <1>2 DEF Alone
<1> QED
  BY <1>1, <1>2, <1>3, <1>4, <1>5, SettledNext, SettlingNext DEF Silent

LEMMA NextItemSilent ==
  ASSUME Silent, NextItem, PlayKept
  PROVE  Silent'
<1>1. /\ pc = "next" /\ UNCHANGED <<vols, check, entries, play, t, quiet, settled>>
      /\ pc' \in {"pool", "lookup"} /\ changed' = FALSE /\ alone' = TRUE
  BY DEF NextItem, ItemUp, PlayKept
<1>2. \A k, n : (SpecMet(k, n)' <=> SpecMet(k, n)) /\ (Behind(k, n)' => Behind(k, n))
  BY <1>1 DEF SpecMet, Behind
<1>3. Looked' /\ Fixed' /\ Alone' /\ Sized' /\ Resting'
  BY <1>1 DEF Silent, Looked, Presenting, Fixed, Has, Alone, Sized, Resting
<1>4. Settled'
  BY <1>1, <1>2, <1>3 DEF Silent, Settled
<1>5. Settling'
  BY <1>1, <1>2, <1>3 DEF Silent, Settling
<1> QED
  BY <1>3, <1>4, <1>5 DEF Silent

\* A task starts: the play is where it was, and nothing of the task is dealt with.
LEMMA BeginTaskSilent ==
  ASSUME Silent, BeginTask
  PROVE  Silent'
<1>1. /\ pc = "task" /\ UNCHANGED <<vols, check, play, t, quiet, settled>>
      /\ pc' = "pool" /\ changed' = FALSE /\ alone' = TRUE /\ entries' = <<>>
  BY DEF BeginTask, BeginRun, ItemUp, At, roles
<1>2. \A k, n : (SpecMet(k, n)' <=> SpecMet(k, n)) /\ (Behind(k, n)' => Behind(k, n))
  BY <1>1 DEF SpecMet, Behind
<1>3. Looked' /\ Fixed' /\ Alone' /\ Sized' /\ Resting'
  BY <1>1 DEF Silent, Looked, Presenting, Fixed, Has, Alone, Sized, Resting
<1>4. Settled'
  BY <1>1, <1>2, <1>3 DEF Silent, Settled
<1>5. Settling'
  BY <1>1, <1>2, <1>3 DEF Silent, Settling
<1> QED
  BY <1>3, <1>4, <1>5 DEF Silent

\* The play goes on: the task that it leaves behind has left its specs met.
LEMMA NextTaskSilent ==
  ASSUME Inv, Silent, pc \in {"task", "next"}, NextTask, SameVolumes, t <= Len(play),
         quiet /\ ~check => \A n \in 1..Len(play[t].specs) : SpecMet(t, n)
  PROVE  Silent'
<1>1. /\ pc' = "task" /\ t' = t + 1 /\ t \in 1..Len(play) /\ Len(play) \in Nat /\ TypeOK
      /\ UNCHANGED <<check, play, alone, quiet, settled>>
  BY PlaysSound DEF NextTask, Inv, TypeOK
<1>2. ASSUME NEW k \in 1..Len(play), NEW n \in 1..Len(play[k].specs), SpecMet(k, n)
      PROVE  SpecMet(k, n)'
  BY <1>1, <1>2, SameSpecMet
<1>3. Looked' /\ Fixed' /\ Alone' /\ Sized'
  BY <1>1, SameFixed DEF Silent, Looked, Presenting, Alone, Sized
<1>4. Settled'
  BY <1>1, <1>2 DEF Silent, Settled, Busy
<1>5. ASSUME quiet, ~check, NEW k \in 1..Len(play), NEW n \in 1..Len(play[k].specs),
             Behind(k, n)'
      PROVE  SpecMet(k, n)
  <2>1. k < t + 1
    BY <1>1, <1>5 DEF Behind
  <2>2. CASE k = t
    BY <1>5, <2>2
  <2>3. CASE k < t
    BY <1>5, <2>3 DEF Silent, Settling, Behind
  <2> QED
    BY <1>1, <2>1, <2>2, <2>3
<1>6. Settling'
  BY <1>1, <1>2, <1>3, <1>5 DEF Settling
<1> QED
  BY <1>3, <1>4, <1>6 DEF Silent

LEMMA FailedSilent ==
  ASSUME Silent, EndPlayWith("failed"), SameVolumes
  PROVE  Silent'
<1>1. pc' = "idle" /\ ~settled' /\ alone' = TRUE
  BY DEF EndPlayWith
<1> QED
  BY <1>1, SameFixed DEF Silent, Looked, Presenting, Alone, Settled, Settling

LEMMA EndPlaySilent ==
  ASSUME Inv, Silent, EndPlay
  PROVE  Silent'
<1>1. /\ pc = "task" /\ pc' = "idle" /\ t > Len(play) /\ UNCHANGED <<vols, play>>
      /\ alone' = TRUE
      /\ check => settled' = settled
      /\ ~check => settled' = quiet
  <2>1. pc = "task" /\ t > Len(play) /\ EndPlayWith("ok") /\ UNCHANGED vols /\ quiet \in BOOLEAN
    BY DEF EndPlay, Inv, TypeOK
  <2>2. pc' = "idle" /\ UNCHANGED play /\ alone' = TRUE
    BY <2>1 DEF EndPlayWith
  <2>3. settled' = IF check /\ "ok" = "ok" THEN settled ELSE "ok" = "ok" /\ quiet
    BY <2>1 DEF EndPlayWith
  <2>4. ("ok" = "ok" /\ quiet) = quiet
    BY <2>1
  <2> QED
    BY <2>1, <2>2, <2>3, <2>4
<1>2. ASSUME settled', NEW k \in 1..Len(play), NEW n \in 1..Len(play[k].specs)
      PROVE  SpecMet(k, n)
  <2>1. k < t
    BY <1>1, PlaysSound DEF Inv, TypeOK
  <2> QED
    BY <1>1, <1>2, <2>1 DEF Silent, Settled, Settling, Behind
<1>3. \A k, n : SpecMet(k, n)' <=> SpecMet(k, n)
  BY <1>1 DEF SpecMet
<1>4. Settled'
  BY <1>1, <1>2, <1>3 DEF Settled, Busy
<1> QED
  BY <1>1, <1>4 DEF Silent, Looked, Presenting, Fixed, Has, Alone, Settling

LEMMA EndTaskSilent ==
  ASSUME Inv, Silent, EndTask
  PROVE  Silent'
<1>1. pc = "next" /\ i = Len(items) /\ Running /\ SameVolumes /\ TypeOK
  BY DEF EndTask, Finishing, Inv, Busy, SameVolumes, Has
<1>2. CASE AllOk /\ NextTask
  <2>1. items = play[t].specs /\ t \in 1..Len(play)
    BY <1>1, PlaysSound DEF Running, TypeOK
  <2>2. Len(entries) = i /\ entries \in Seq(Entry)
    BY <1>1 DEF TypeOK, VolumeTypes, RunTypes
  <2>3. \A n \in 1..Len(play[t].specs) : Behind(t, n)
    BY <1>1, <1>2, <2>1, <2>2 DEF Behind, AllOk
  <2>4. quiet /\ ~check => \A n \in 1..Len(play[t].specs) : SpecMet(t, n)
    BY <1>1, <2>1, <2>3 DEF Silent, Settling
  <2> QED
    BY <1>1, <1>2, <2>4, NextTaskSilent DEF Running
<1> QED
  BY <1>1, <1>2, FailedSilent DEF EndTask

\* Pool and domain tasks ask for no volumes.
LEMMA OtherTasksSilent ==
  ASSUME Inv, Silent, PoolTask \/ DomainTask
  PROVE  Silent'
<1>1. pc = "task" /\ t <= Len(play) /\ play[t].op \in {"pool", "domain"} /\ TypeOK
  BY DEF PoolTask, DomainTask, At, Inv
<1>2. Len(play[t].specs) = 0
  BY <1>1, PlaysSound DEF TypeOK, Sound
<1>3. SameVolumes
  <2>1. CASE PoolTask
    BY <2>1 DEF PoolTask, SameVolumes, Has
  <2> QED
    BY <1>1, <2>1, DomainSame
<1>4. \A n \in 1..Len(play[t].specs) : SpecMet(t, n)
  BY <1>2
<1>5. NextTask \/ EndPlayWith("failed")
  BY DEF PoolTask, DomainTask
<1> QED
  BY <1>1, <1>3, <1>4, <1>5, NextTaskSilent, FailedSilent

LEMMA ClientsSilent ==
  ASSUME Inv, Silent, Clients
  PROVE  Silent'
<1>1. /\ UNCHANGED <<pc, items, i, play, t>> /\ ~quiet' /\ ~settled'
      /\ pc = "idle" => alone' = alone
      /\ vols \in [VolNames -> Maybe(Volume)]
  BY DEF Clients, ClientMovesPool, ClientDeletes, GuestStops, Outside, Inv, TypeOK,
     VolumeTypes, Busy
<1>2. Looked'
  BY <1>1 DEF Silent, Looked, Item, ForIso
<1>3. Fixed'
  <2>1. CASE UNCHANGED vols
    BY <2>1 DEF Silent, Fixed, Has
  <2>2. ASSUME NEW m \in VolNames, ClientDeletes(m) PROVE Fixed'
    <3>1. vols' = [vols EXCEPT ![m] = None]
      BY <2>2 DEF ClientDeletes
    <3>2. SUFFICES ASSUME NEW s \in Makes("volumes"), s.clone # None, s.resize, Has(s.clone)'
                   PROVE  vols'[s.clone].cap <= s.cap
      BY DEF Fixed
    <3>3. s.clone \in VolNames
      BY <3>2, MadeTypes DEF VolumeSpecs, Maybe
    <3> QED
      BY <1>1, <3>1, <3>2, <3>3 DEF Silent, Fixed, Has
  <2> QED
    BY <2>1, <2>2 DEF Clients, ClientMovesPool, GuestStops
<1> QED
  BY <1>1, <1>2, <1>3 DEF Silent, Alone, Settled, Settling

LEMMA BeginPlaySilent ==
  ASSUME Silent, NEW c \in BOOLEAN, BeginPlay(c)
  PROVE  Silent'
<1>1. /\ pc = "idle" /\ pc' = "task" /\ t' = 1 /\ UNCHANGED <<vols, alone>>
      /\ settled' => settled /\ UNCHANGED play
  BY DEF BeginPlay
<1>2. \A k \in 1..Len(play') : \A n : ~Behind(k, n)'
  BY <1>1 DEF Behind
<1>3. UNCHANGED play => \A k, n : SpecMet(k, n)' <=> SpecMet(k, n)
  BY <1>1 DEF SpecMet
<1>4. Looked' /\ Fixed' /\ Alone' /\ Sized'
  BY <1>1 DEF Silent, Looked, Presenting, Fixed, Has, Alone, Sized
<1>5. Settled'
  BY <1>1, <1>3 DEF Silent, Settled, Busy
<1>6. Settling'
  BY <1>2, <1>4 DEF Settling
<1> QED
  BY <1>4, <1>5, <1>6 DEF Silent

LEMMA NextSilent ==
  ASSUME Agreeing, Inv, Silent, [Next]_vars
  PROVE  Silent'
<1>1. CASE UNCHANGED vars
  <2>1. Item' = Item /\ ForIso' = ForIso
        /\ \A k, n : (SpecMet(k, n)' <=> SpecMet(k, n)) /\ (Behind(k, n)' <=> Behind(k, n))
    BY <1>1 DEF vars, Item, ForIso, SpecMet, Behind
  <2>2. Looked' /\ Fixed' /\ Alone'
    BY <1>1, <2>1 DEF vars, Silent, Looked, Fixed, Has, Alone
  <2>3. Settled'
    BY <1>1, <2>1 DEF vars, Silent, Settled, Busy, Resting
  <2>4. Settling'
    BY <1>1, <2>1 DEF vars, Silent, Settling, Sized, Has
  <2> QED
    BY <2>2, <2>3, <2>4 DEF Silent
<1>2. CASE Kill
  <2>1. EndPlayWith("failed") /\ SameVolumes
    BY <1>2 DEF Kill, SameVolumes, Has
  <2> QED
    BY <2>1, FailedSilent
<1>3. CASE ModuleSteps
  <2>1. CASE NextItem
    BY <1>3, <2>1, NextItemSilent DEF ModuleSteps, PlayKept
  <2> QED
    BY <1>3, <2>1, ModuleSilent
<1> QED
  BY <1>1, <1>2, <1>3, BeginPlaySilent, BeginTaskSilent, EndTaskSilent, EndPlaySilent,
     OtherTasksSilent, ClientsSilent DEF Next, Steps

LEMMA InitSilent ==
  ASSUME Agreeing, Init
  PROVE  Silent
<1>1. vols \in InitVols /\ pc = "idle" /\ alone = TRUE /\ settled = FALSE
  BY DEF Init
<1>2. Fixed
  BY <1>1 DEF Agreeing, Fixed, Has
<1> QED
  BY <1>1, <1>2 DEF Silent, Looked, Presenting, Alone, Settled, Settling

\* For any instances whose plays agree on every volume: a play that succeeds right after
\* it succeeded undisturbed, dry or not, reports no change.  Every task leaves what it
\* names as asked, no later task takes that back, and a volume that is as asked gives its
\* module nothing to do (libvirt_volume.py:228-307, libvirt_cloud_init_iso.py:194-243,
\* roles/instances/tasks/instance.yml:28-93).
THEOREM RerunsSilently == Agreeing => (InstancesSpec => []PlayIdempotent)
<1> SUFFICES ASSUME Agreeing PROVE InstancesSpec => []PlayIdempotent
  OBVIOUS
<1>1. Init => Silent
  BY InitSilent
<1>2. Inv /\ Silent /\ [Next]_vars => Silent'
  BY NextSilent
<1>3. Silent => PlayIdempotent
  BY DEF Silent, Settled, PlayIdempotent
<1> QED
  BY <1>1, <1>2, <1>3, Invariance, PTL DEF InstancesSpec
=============================================================================
