------------------------- MODULE StorageRolesProofs -------------------------
(***************************************************************************)
(* Proofs about StorageRoles for any number of pools, images, plays, items *)
(* and failures: it is well typed, libvirt lists only volumes that are on  *)
(* disk, dry runs touch neither libvirt nor the file system, and every     *)
(* libvirt_pool task of the plays implements Reconciler.  The module's     *)
(* steps are in DefineOnceProofs; here is what pools add to them, and the  *)
(* plays around them.                                                      *)
(***************************************************************************)
EXTENDS StorageRoles, DefineOnceProofs

\* Every active pool has its directory, and listed volumes are files in it.
Rooted == \A u \in UUIDs : host[u] # None /\ host[u].active => HasDir(u)

Listing ==
  /\ known \in [UUIDs -> SUBSET Images]
  /\ \A u \in UUIDs : known[u] # {} =>
       host[u] # None /\ host[u].active /\ HasDir(u) /\ known[u] \subseteq disk[DirOf(u)]

\* A module runs for a task of the play.
Running ==
  /\ t <= Len(play) /\ play[t].op \in {"path", "pools", "refresh"}
  /\ items = play[t].specs

Inv ==
  /\ TypeOK
  /\ Rooted
  /\ \/ pc \in {"idle", "task"}
     \/ pc = "next" /\ Running
     \/ pc \in Working /\ Running /\ Here(pc, loc, host, moved)

PlayTasks == [op: {"mkdir", "pools", "path", "download", "refresh"},
              specs: Seq(PoolSpecs)]

LEMMA TaskType ==
  ASSUME NEW op \in {"mkdir", "pools", "path", "download", "refresh"},
         NEW specs \in Seq(PoolSpecs)
  PROVE  /\ Task(op, specs) \in PlayTasks
         /\ Task(op, specs).op = op /\ Task(op, specs).specs = specs
  BY DEF Task, PlayTasks

LEMMA AskType ==
  ASSUME NEW r \in BOOLEAN
  PROVE  Ask("active", r) \in PoolSpecs
  BY StorageAssumption DEF Ask, PoolSpecs, States, Maybe

LEMMA Single ==
  ASSUME NEW S, NEW x \in S
  PROVE  <<x>> \in Seq(S) /\ <<x>> # <<>>
<1>1. <<x>> \in Seq(S) /\ Len(<<x>>) = 1 /\ Len(<<>>) = 0
  OBVIOUS
<1> QED
  BY <1>1

LEMMA PlaysType ==
  ASSUME NEW p \in Plays
  PROVE  /\ p \in Seq(PlayTasks) /\ Len(p) \in Nat
         /\ \A k \in 1..Len(p) :
              p[k].op \in {"path", "pools", "refresh"} => p[k].specs # <<>>
<1>1. CASE p = StoragePlay
  <2> DEFINE x == Task("mkdir", StoragePools)
             y == Task("pools", StoragePools)
  <2>1. x \in PlayTasks /\ y \in PlayTasks /\ x.op = "mkdir" /\ y.specs # <<>>
    BY TaskType, StorageAssumption
  <2>2. p = <<x, y>>
    BY <1>1 DEF StoragePlay
  <2> HIDE DEF x, y
  <2>3. p \in Seq(PlayTasks) /\ Len(p) = 2 /\ p[1] = x /\ p[2] = y
    BY <2>1, <2>2
  <2>4. \A k \in 1..2 : k = 1 \/ k = 2
    OBVIOUS
  <2> QED
    BY <2>1, <2>3, <2>4
<1>2. CASE p = ImagesPlay
  <2> DEFINE f == <<Ask("active", FALSE)>>
             g == <<Ask("active", TRUE)>>
             x == Task("path", f)
             y == Task("download", <<>>)
             z == Task("refresh", g)
  <2>0. Ask("active", FALSE) \in PoolSpecs /\ Ask("active", TRUE) \in PoolSpecs
    BY AskType
  <2>1. f \in Seq(PoolSpecs) /\ f # <<>> /\ g \in Seq(PoolSpecs) /\ g # <<>>
    BY <2>0, Single
  <2> HIDE DEF f, g
  <2>a. <<>> \in Seq(PoolSpecs)
    OBVIOUS
  <2>2. /\ x \in PlayTasks /\ y \in PlayTasks /\ z \in PlayTasks
        /\ x.specs # <<>> /\ y.op = "download" /\ z.specs # <<>>
    BY <2>1, <2>a, TaskType
  <2>3. p = <<x, y, z>>
    BY <1>2 DEF ImagesPlay, f, g
  <2> HIDE DEF x, y, z
  <2>4. /\ p \in Seq(PlayTasks) /\ Len(p) = 3 /\ p[1] = x /\ p[2] = y /\ p[3] = z
    BY <2>2, <2>3
  <2>5. \A k \in 1..3 : k = 1 \/ k = 2 \/ k = 3
    OBVIOUS
  <2> QED
    BY <2>2, <2>4, <2>5
<1>3. CASE p \in UserPlays
  <2> DEFINE T == [op: {"pools"}, specs: Seq(PoolSpecs) \ {<<>>}]
  <2>1. p \in Seq(T)
    BY <1>3, StorageAssumption
  <2>2. \A x \in T : x \in PlayTasks /\ x.specs # <<>>
    BY DEF PlayTasks
  <2> HIDE DEF T
  <2> QED
    BY <2>1, <2>2
<1> QED
  BY <1>1, <1>2, <1>3 DEF Plays

LEMMA InHand ==
  ASSUME TypeOK, Running, pc \notin {"idle", "task"}
  PROVE  Item \in PoolSpecs
<1>1. play \in Seq(PlayTasks) /\ t \in 1..Len(play) /\ Len(play) \in Nat
  BY PlaysType DEF TypeOK, Running
<1>2. play[t] \in PlayTasks
  BY <1>1
<1>3. play[t].specs \in Seq(PoolSpecs)
  BY <1>2 DEF PlayTasks
<1>4. items = play[t].specs /\ i \in 1..Len(items)
  BY DEF TypeOK, ModuleTypes, RunTypes, Running
<1> QED
  BY <1>3, <1>4 DEF Item

LEMMA InvReady ==
  ASSUME Inv, pc \notin {"idle", "task", "next"}
  PROVE  Ready /\ Item \in PoolSpecs /\ Running
<1>1. pc \in Working /\ Here(pc, loc, host, moved) /\ Running
  BY DEF Inv
<1>2. Item \in PoolSpecs
  BY <1>1, InHand DEF Inv, Working
<1> QED
  BY <1>1, <1>2 DEF Inv, TypeOK, Ready, PoolSpecs

-----------------------------------------------------------------------------
(* The steps that pools have and networks have not *)

LEMMA DefinePoolStepped ==
  ASSUME Ready, Item \in PoolSpecs, NoTargetPath \/ DefinePool
  PROVE  Stepped
<1>1. CASE NoTargetPath
  BY <1>1, ReturnEnds, RaisedEnds, WorkingHere DEF NoTargetPath
<1>2. CASE DefinePool
  <2>1. Item.cfg \in Cfgs
    BY <1>2 DEF DefinePool, PoolSpecs, Maybe
  <2> QED
    BY <1>2, <2>1, DefineStepped DEF DefinePool
<1> QED
  BY <1>1, <1>2

LEMMA BuildStepped ==
  ASSUME Ready, Build
  PROVE  Stepped
<1>1. Here("autostart", loc, host, moved)
  BY WorkingHere DEF Build, Here, Placed, Held, Recorded, Met, Removing, Settling,
     Reporting, Writing, Untouched
<1>2. CASE Continue("autostart") /\ Observe /\ UNCHANGED loc
  BY <1>1, <1>2, QuietStepped DEF Quiet
<1>3. CASE \E possible : CallFails(possible)
  BY <1>3, CallFailsStepped
<1> QED
  BY <1>2, <1>3 DEF Build

LEMMA RefreshStepped ==
  ASSUME Ready, RefreshIsActive \/ Refresh \/ FactPath
  PROVE  Stepped
<1> DEFINE d == host[loc.it]
<1>0. /\ pc \in {"refreshActive", "refresh", "factName"} /\ Here(pc, loc, host, moved)
      /\ loc \in Locals /\ loc.changed \in BOOLEAN /\ moved \in BOOLEAN
      /\ check \in BOOLEAN /\ SaneHost(host) /\ Item.state # "absent"
  BY WorkingHere DEF RefreshIsActive, Refresh, FactPath, Here, Placed, Settling, Reporting
<1>1. CASE RefreshIsActive
  <2> DEFINE active == Exists(loc.it) /\ d.active
             to == IF active /\ ~check THEN "refresh" ELSE "factName"
             new == [loc EXCEPT !.changed = loc.changed \/ (active /\ check)]
  <2>1. /\ new \in Locals /\ new.it = loc.it
        /\ ~check => new.changed = loc.changed
        /\ check /\ ~new.changed => ~loc.changed
    BY <1>0 DEF Locals
  <2>2. to \in {"refresh", "factName"} /\ (to = "refresh" => ~check)
    OBVIOUS
  <2>3. Read(to, new)
    BY <1>1 DEF RefreshIsActive
  <2> HIDE DEF to, new
  <2>4. Here(to, new, host, moved)
    BY <1>0, <1>1, <2>1, <2>2 DEF RefreshIsActive, Here, Placed, Held, Recorded, Met,
       Removing, Settling, Reporting, Writing, Untouched
  <2> QED
    BY <2>3, <2>4, ReadStepped
<1>2. CASE Refresh
  <2> DEFINE new == [loc EXCEPT !.changed = TRUE]
             g == [host EXCEPT ![loc.it] = d]
  <2>1. ASSUME Exists(loc.it)
        PROVE  MayChange(loc.it, d) /\ Here("factName", new, g, TRUE)
    <3>1. ~check
      BY <1>0, <1>2 DEF Refresh, Here, Placed, Writing
    <3>2. d \in Resource /\ loc.it \in UUIDs /\ Replaces(d, d)
      BY <2>1, HeldResource DEF Replaces, Maybe
    <3>3. g = host
      BY <1>0, <3>2 DEF SaneHost
    <3>4. new \in Locals /\ new.it = loc.it /\ new.changed = TRUE
      BY <1>0 DEF Locals
    <3> HIDE DEF new, g
    <3>5. MayChange(loc.it, d)
      BY <2>1, <3>1, <3>2, HeldMayChange
    <3>6. Here("factName", new, g, TRUE)
      BY <1>0, <1>2, <3>1, <3>3, <3>4 DEF Refresh, Here, Placed, Held, Recorded, Met,
         Removing, Settling, Reporting, Writing, Untouched
    <3> QED
      BY <3>5, <3>6
  <2> QED
    BY <1>2, <2>1, CallStepped DEF Refresh
<1>3. CASE FactPath
  <2> DEFINE new == [loc EXCEPT !.path = DirOf(loc.it)]
  <2>1. ASSUME Exists(loc.it)
        PROVE  Here("factActive", new, host, moved)
    <3>1. DirOf(loc.it) \in Cfgs
      BY <2>1, HeldResource DEF DirOf, Resource
    <3>2. new \in Locals /\ new.it = loc.it /\ new.changed = loc.changed
      BY <1>0, <3>1 DEF Locals, Maybe
    <3> HIDE DEF new
    <3> QED
      BY <1>0, <1>3, <3>2 DEF FactPath, Here, Placed, Held, Recorded, Met, Removing,
         Settling, Reporting, Writing, Untouched
  <2> QED
    BY <1>3, <2>1, ReadStepped DEF FactPath
<1> QED
  BY <1>1, <1>2, <1>3

LEMMA ReconcileStepped ==
  ASSUME Inv, ReconcilePool
  PROVE  Stepped /\ Ready /\ Running
<1>1. pc \notin {"idle", "task", "next"}
  BY DEF ReconcilePool, Lookup, AlreadyAbsent, WouldUndefine, AbsentIsActive,
     AbsentDestroy, AbsentUndefine, AbsentReturn, NoTargetPath, DefinePool, Build,
     ReadAutostart, SetAutostart, ApplyRunState, ReadActive, Start, Stop,
     RefreshIsActive, Refresh, FactPath, FactActive, FactAutostart, FactPersistent
<1>2. Ready /\ Item \in PoolSpecs /\ Running
  BY <1>1, InvReady
<1>3. ASSUME ApplyRunState PROVE Stepped
  BY <1>2, <1>3, RunStateStepped DEF ApplyRunState, AfterRunState
<1> QED
  BY <1>2, <1>3, LookupStepped, RemovalStepped, AutostartStepped, FactsStepped,
     DefinePoolStepped, BuildStepped, RefreshStepped DEF ReconcilePool

-----------------------------------------------------------------------------
(* Directories and listed volumes *)

\* The host h2 has no active pool that was not active before, or had no directory.
Backed(h2) ==
  \A u \in UUIDs : h2[u] # None /\ h2[u].active =>
    /\ host[u] # None /\ h2[u].name = host[u].name /\ h2[u].cfg = host[u].cfg
    /\ host[u].active \/ HasDir(u)

LEMMA SameBacked ==
  ASSUME UNCHANGED host
  PROVE  Backed(host')
  BY DEF Backed

\* Of the changes to one pool, only a start could violate that.
LEMMA ChangeBacked ==
  ASSUME SaneHost(host), NEW u \in UUIDs, NEW d, host' = [host EXCEPT ![u] = d],
         d # None /\ d.active =>
           /\ host[u] # None /\ d.name = host[u].name /\ d.cfg = host[u].cfg
           /\ host[u].active \/ HasDir(u)
  PROVE  Backed(host')
  BY DEF Backed, SaneHost

LEMMA EffectsBacked ==
  ASSUME SaneHost(host), NEW u \in UUIDs, host[u] # None,
         NEW d, \/ d \in {Stopped(host[u]), Undefined(host[u]), host[u]}
                \/ \E b \in BOOLEAN : d = [host[u] EXCEPT !.autostart = b]
                \/ HasDir(u) /\ d = [host[u] EXCEPT !.active = TRUE],
         host' = [host EXCEPT ![u] = d]
  PROVE  Backed(host')
<1>1. host[u] \in Resource
  BY DEF SaneHost, Maybe
<1>2. d # None /\ d.active =>
        /\ host[u] # None /\ d.name = host[u].name /\ d.cfg = host[u].cfg
        /\ host[u].active \/ HasDir(u)
  BY <1>1 DEF Stopped, Undefined, Resource
<1> QED
  BY <1>2, ChangeBacked

LEMMA DefinesBacked ==
  ASSUME SaneHost(host), NEW u \in UUIDs, NEW n, NEW cfg,
         host' = [host EXCEPT ![u] = Defined(n, cfg)]
  PROVE  Backed(host')
  BY ChangeBacked DEF Defined

\* A read of a pool, or a call that changes the one in hand.
LEMMA ReadBacked ==
  ASSUME NEW to, NEW new, Read(to, new)
  PROVE  Backed(host')
  BY SameBacked DEF Read, CallFails, Observe

LEMMA CallBacked ==
  ASSUME Ready, NEW to, NEW possible, NEW d, NEW new, Call(to, possible, d, new),
         Exists(loc.it) /\ possible =>
           \/ d \in {Stopped(host[loc.it]), Undefined(host[loc.it]), host[loc.it]}
           \/ \E b \in BOOLEAN : d = [host[loc.it] EXCEPT !.autostart = b]
           \/ HasDir(loc.it) /\ d = [host[loc.it] EXCEPT !.active = TRUE]
  PROVE  Backed(host')
<1>1. CASE Exists(loc.it) /\ possible /\ Mutate(loc.it, d)
  BY <1>1, HeldResource, EffectsBacked, WorkingHere DEF Mutate
<1> QED
  BY <1>1, SameBacked DEF Call, CallFails, Observe

LEMMA ReconcileBacked ==
  ASSUME Ready, ReconcilePool
  PROVE  Backed(host')
<1>0. /\ loc \in Locals /\ SaneHost(host)
      /\ pc = "setAutostart" => Item.autostart \in BOOLEAN
  BY WorkingHere DEF Here, Placed, Maybe
<1>1. CASE \/ Lookup \/ AlreadyAbsent \/ WouldUndefine \/ AbsentReturn
           \/ NoTargetPath \/ Build
  BY <1>1, SameBacked DEF Lookup, AlreadyAbsent, WouldUndefine, AbsentReturn,
     NoTargetPath, Build, Return, CallFails, Observe
<1>2. CASE \/ AbsentIsActive \/ ReadAutostart \/ FactActive \/ FactAutostart
           \/ RefreshIsActive \/ FactPath \/ \E to : ReadActive(to)
  BY <1>2, ReadBacked, SameBacked DEF AbsentIsActive, ReadAutostart, FactActive,
     FactAutostart, RefreshIsActive, FactPath, ReadActive, Observe
<1>3. CASE FactPersistent
  BY <1>3, SameBacked DEF FactPersistent, Return, CallFails, Observe
<1>4. CASE AbsentDestroy
  BY <1>4, CallBacked DEF AbsentDestroy
<1>5. CASE AbsentUndefine
  BY <1>5, CallBacked DEF AbsentUndefine
<1>6. CASE SetAutostart
  BY <1>0, <1>6, CallBacked DEF SetAutostart
<1>7. CASE ApplyRunState
  <2>1. CASE ReadActive(AfterRunState)
    BY <1>2, <2>1
  <2>2. CASE Start(Exists(loc.it) /\ HasDir(loc.it), AfterRunState)
    BY <2>2, CallBacked DEF Start
  <2>3. CASE Stop(AfterRunState)
    BY <2>3, CallBacked DEF Stop
  <2> QED
    BY <1>7, <2>1, <2>2, <2>3 DEF ApplyRunState
<1>8. CASE Refresh
  BY <1>8, CallBacked DEF Refresh
<1>9. CASE DefinePool
  <2>1. CASE UNCHANGED host
    BY <2>1, SameBacked
  <2>2. CASE \E u \in Free(Item.name, Item.uuid, Item.cfg) :
               Mutate(u, Defined(Item.name, Item.cfg))
    <3>1. PICK u \in UUIDs : host' = [host EXCEPT ![u] = Defined(Item.name, Item.cfg)]
      BY <2>2 DEF Free, Mutate
    <3> QED
      BY <1>0, <3>1, DefinesBacked
  <2> QED
    BY <1>9, <2>1, <2>2 DEF DefinePool, WouldDefine, Define, Return, CallFails, Observe
<1> QED
  BY <1>1, <1>2, <1>3, <1>4, <1>5, <1>6, <1>7, <1>8, <1>9 DEF ReconcilePool

LEMMA ClientsBacked ==
  ASSUME SaneHost(host), NEW u \in UUIDs,
         ClientDrives(u, HasDir(u)) \/ ClientDefines(u)
  PROVE  Backed(host')
<1>1. CASE ClientDrives(u, HasDir(u))
  <2>1. host[u] # None /\ host[u] \in Resource
    BY <1>1 DEF ClientDrives, Exists, SaneHost, Maybe
  <2>2. PICK d : /\ host' = [host EXCEPT ![u] = d]
                 /\ \/ d \in {Stopped(host[u]), Undefined(host[u])}
                    \/ d = [host[u] EXCEPT !.autostart = ~host[u].autostart]
                    \/ HasDir(u) /\ d = [host[u] EXCEPT !.active = TRUE]
    BY <1>1 DEF ClientDrives, Outside
  <2>3. (~host[u].autostart) \in BOOLEAN
    OBVIOUS
  <2> QED
    BY <2>1, <2>2, <2>3, EffectsBacked
<1>2. CASE ClientDefines(u)
  BY <1>2, DefinesBacked DEF ClientDefines, Outside
<1> QED
  BY <1>1, <1>2

\* Directories stay, and so do the files in them.
Kept(d2) ==
  /\ d2 \in Disks
  /\ \A p \in Cfgs : disk[p] # None => d2[p] # None /\ disk[p] \subseteq d2[p]

LEMMA KeptNow ==
  ASSUME disk \in Disks, UNCHANGED disk
  PROVE  Kept(disk')
  BY DEF Kept

\* What libvirt lists after any such step.
LEMMA RegistersListing ==
  ASSUME SaneHost(host), SaneHost(host'), disk \in Disks, Rooted,
         Listing, Backed(host'), Kept(disk'),
         NEW R, Registers(R)
  PROVE  Rooted' /\ Listing'
<1>1. \A u \in UUIDs : host[u] # None => host[u] \in Resource
  BY DEF SaneHost, Maybe
<1>2. \A u \in UUIDs : host'[u] # None => host'[u] \in Resource
  BY DEF SaneHost, Maybe
<1>3. ASSUME NEW u \in UUIDs, host'[u] # None, host'[u].active
      PROVE  /\ host'[u].cfg \in Cfgs
             /\ disk[host'[u].cfg] # None /\ disk[host'[u].cfg] \subseteq Images
             /\ disk'[host'[u].cfg] # None
             /\ disk[host'[u].cfg] \subseteq disk'[host'[u].cfg]
  <2>1. host[u] # None /\ host'[u].cfg = host[u].cfg /\ host[u].cfg \in Cfgs
    BY <1>1, <1>3 DEF Backed, Resource
  <2>2. disk[host[u].cfg] # None
    BY <1>3, <2>1 DEF Backed, HasDir, DirOf, Rooted
  <2> QED
    BY <2>1, <2>2 DEF Kept, Disks, Maybe
<1>4. Rooted'
  BY <1>3, DefineOnceAssumption DEF Rooted, HasDir, DirOf
<1>5. ASSUME NEW u \in UUIDs
      PROVE  /\ known'[u] \in SUBSET Images
             /\ known'[u] # {} =>
                  /\ host'[u] # None /\ host'[u].active
                  /\ known'[u] \subseteq disk[host'[u].cfg]
  <2>1. CASE host'[u] = None \/ ~host'[u].active
    BY <2>1 DEF Registers
  <2>2. CASE /\ host'[u] # None /\ host'[u].active
             /\ host[u] = None \/ ~host[u].active \/ u \in R
    BY <1>3, <2>2 DEF Registers
  <2>3. CASE /\ host'[u] # None /\ host'[u].active
             /\ ~(host[u] = None \/ ~host[u].active \/ u \in R)
    <3>1. known'[u] = known[u] /\ host'[u].cfg = host[u].cfg
      BY <2>3 DEF Registers, Backed
    <3> QED
      BY <2>3, <3>1 DEF Listing, DirOf
  <2> QED
    BY <2>1, <2>2, <2>3
<1>6. known' \in [UUIDs -> SUBSET Images]
  BY <1>5 DEF Registers
<1>7. Listing'
  BY <1>3, <1>5, <1>6, DefineOnceAssumption DEF Listing, HasDir, DirOf
<1> QED
  BY <1>4, <1>7

\* A step that leaves libvirt alone lists nothing new.
LEMMA QuietRegisters ==
  ASSUME Listing, UNCHANGED host, Registers({})
  PROVE  UNCHANGED known
  BY DEF Registers, Listing

LEMMA ReconcileKept ==
  ASSUME Ready, ReconcilePool, disk \in Disks
  PROVE  Kept(disk') /\ \E R : Registers(R)
<1>1. CASE Build
  <2>1. CASE UNCHANGED disk
    BY <1>1, <2>1, KeptNow DEF Build
  <2>2. CASE /\ Exists(loc.it) /\ ~HasDir(loc.it)
             /\ disk' = [disk EXCEPT ![DirOf(loc.it)] = {}]
    <3>1. DirOf(loc.it) \in Cfgs
      BY <2>2, HeldResource DEF DirOf, Resource
    <3>2. disk[DirOf(loc.it)] = None
      BY <2>2, <3>1, DefineOnceAssumption DEF HasDir
    <3>3. Kept(disk')
      BY <2>2, <3>1, <3>2, StorageAssumption DEF Kept, Disks, Maybe
    <3> QED
      BY <1>1, <3>3 DEF Build
  <2> QED
    BY <1>1, <2>1, <2>2 DEF Build
<1>2. CASE Refresh
  BY <1>2, KeptNow DEF Refresh
<1>3. CASE Plain
  BY <1>3, KeptNow DEF Plain
<1> QED
  BY <1>1, <1>2, <1>3 DEF ReconcilePool, NoTargetPath, DefinePool, ApplyRunState,
     RefreshIsActive, FactPath

-----------------------------------------------------------------------------
(* The plays *)

LEMMA TypeListing ==
  ASSUME TypeOK
  PROVE  /\ ModuleTypes /\ RunTypes /\ SaneHost(host) /\ disk \in Disks /\ Listing
         /\ play \in Plays /\ t \in 1..(Len(play) + 1) /\ Len(play) \in Nat
  BY PlaysType DEF TypeOK, ModuleTypes, Listing

LEMMA ReconcileInv ==
  ASSUME Inv, ReconcilePool, UNCHANGED roles
  PROVE  Inv'
<1>0. /\ TypeOK /\ Rooted /\ Listing /\ SaneHost(host) /\ disk \in Disks
      /\ Ready /\ Running /\ Stepped
  BY TypeListing, ReconcileStepped DEF Inv
<1>1. /\ ModuleTypes' /\ UNCHANGED <<items, i, check>>
      /\ \/ pc' = "next"
         \/ pc' \in Working /\ Here(pc, loc, host, moved)'
  BY <1>0, SteppedInv
<1>2. PICK R : Registers(R)
  BY <1>0, ReconcileKept
<1>3. Backed(host') /\ Kept(disk')
  BY <1>0, ReconcileBacked, ReconcileKept
<1>4. Rooted' /\ Listing'
  BY <1>0, <1>1, <1>2, <1>3, RegistersListing DEF ModuleTypes
<1>5. TypeOK'
  BY <1>0, <1>1, <1>3, <1>4 DEF TypeOK, Listing, Kept, roles
<1>6. Running'
  BY <1>0, <1>1 DEF Running, roles
<1> QED
  BY <1>1, <1>4, <1>5, <1>6 DEF Inv

\* The host keeps still while a play ends, or goes on to its next task.
LEMMA PlayListing ==
  ASSUME TypeOK, Rooted, UNCHANGED host, Kept(disk'), Registers({})
  PROVE  Rooted' /\ Listing'
<1>1. SaneHost(host')
  BY TypeListing
<1> QED
  BY <1>1, TypeListing, SameBacked, RegistersListing

LEMMA UnseenType == Unseen' \subseteq BaseImages
  BY DEF Unseen

LEMMA EndPlayInv ==
  ASSUME TypeOK, Rooted, Kept(disk'), faults' \in 0..MaxFaults, UNCHANGED meddle,
         NEW result \in {"ok", "failed"}, EndPlayWith(result)
  PROVE  Inv'
<1>1. /\ UNCHANGED <<host, play, t, quiet>> /\ Registers({}) /\ pc' = "idle"
      /\ outcome' \in {"ok", "dry", "failed"} /\ settled' \in BOOLEAN
      /\ poolPath' = None /\ downloaded' = FALSE
      /\ orphaned' \subseteq BaseImages
  BY UnseenType DEF EndPlayWith, TypeOK
<1>2. ModuleTypes'
  BY TypeListing, GoneTypes DEF EndPlayWith
<1>3. Rooted' /\ Listing'
  BY <1>1, PlayListing
<1>4. TypeOK'
  BY <1>1, <1>2, <1>3 DEF TypeOK, Listing, Kept, Maybe
<1> QED
  BY <1>1, <1>3, <1>4 DEF Inv

LEMMA NextTaskInv ==
  ASSUME TypeOK, Rooted, Kept(disk'), UNCHANGED bounds, t <= Len(play), NextTask,
         poolPath' \in Maybe(Cfgs), downloaded' \in BOOLEAN
  PROVE  Inv'
<1>1. /\ UNCHANGED <<host, items, i, check, loc, entries, alone, moved, faults, meddle,
                     play, outcome, quiet, settled, orphaned>>
      /\ Registers({}) /\ pc' = "task" /\ t' = t + 1
  BY DEF NextTask, process, bounds
<1>2. ModuleTypes'
  BY <1>1, TypeListing DEF ModuleTypes, RunTypes, PCs
<1>3. Rooted' /\ Listing'
  BY <1>1, PlayListing
<1>4. t' \in 1..(Len(play') + 1)
  BY <1>1, TypeListing
<1>5. TypeOK'
  BY <1>1, <1>2, <1>3, <1>4 DEF TypeOK, Listing, Kept
<1> QED
  BY <1>1, <1>3, <1>5 DEF Inv

LEMMA FaultType ==
  ASSUME TypeOK, Fault
  PROVE  faults' \in 0..MaxFaults /\ UNCHANGED meddle
  BY RunAssumption, TypeListing DEF Fault, RunTypes

LEMMA BoundsType ==
  ASSUME TypeOK, UNCHANGED bounds
  PROVE  faults' \in 0..MaxFaults /\ UNCHANGED meddle
  BY TypeListing DEF bounds, RunTypes

LEMMA MakeDirsInv ==
  ASSUME Inv, MakeDirs
  PROVE  Inv'
<1>0. TypeOK /\ Rooted /\ disk \in Disks
  BY TypeListing DEF Inv
<1> DEFINE missing == {p \in TargetDirs : disk[p] = None}
<1>1. PICK made \in (IF check THEN {{}} ELSE SUBSET missing) :
        /\ disk' = [p \in Cfgs |-> IF p \in made THEN {} ELSE disk[p]]
        /\ \/ /\ check \/ made = missing
              /\ NextTask /\ UNCHANGED <<bounds, poolPath, downloaded>>
           \/ Fault /\ EndPlayWith("failed")
  BY DEF MakeDirs
<1>2. \A p \in made : disk[p] = None
  BY <1>1
<1>3. Kept(disk')
  BY <1>0, <1>1, <1>2, StorageAssumption DEF Kept, Disks, Maybe
<1>4. t <= Len(play) /\ poolPath \in Maybe(Cfgs) /\ downloaded \in BOOLEAN
  BY <1>0 DEF MakeDirs, At, TypeOK
<1> QED
  BY <1>0, <1>1, <1>3, <1>4, NextTaskInv, EndPlayInv, FaultType

LEMMA BeginTaskInv ==
  ASSUME Inv, BeginTask
  PROVE  Inv'
<1>0. TypeOK /\ Rooted /\ disk \in Disks /\ ModuleTypes
  BY TypeListing DEF Inv
<1>1. /\ t <= Len(play) /\ play[t].op \in {"path", "pools", "refresh"}
      /\ BeginRun(play[t].specs, check) /\ UNCHANGED roles /\ Plain
  BY DEF BeginTask, At
<1>2. /\ play \in Seq(PlayTasks) /\ t \in 1..Len(play) /\ play[t].specs # <<>>
  BY <1>0, <1>1, TypeListing, PlaysType
<1>3. play[t] \in PlayTasks
  BY <1>2
<1>4. play[t].specs \in Seq(PoolSpecs)
  BY <1>3 DEF PlayTasks
<1>5. /\ items' = play[t].specs /\ check' = check /\ entries' = <<>> /\ ItemUp(1)
      /\ UNCHANGED <<host, bounds>>
  BY <1>1 DEF BeginRun
<1>6. /\ 1 \in 1..Len(items') /\ entries' \in Seq(Entry) /\ Len(entries') = 1 - 1
  BY <1>2, <1>4, <1>5, NoEntriesType
<1>7. check' \in BOOLEAN
  BY <1>0, <1>5 DEF ModuleTypes, RunTypes
<1>8. ModuleTypes' /\ pc' \in Working /\ Here(pc, loc, host, moved)'
  BY <1>0, <1>5, <1>6, <1>7, ItemUpInv
<1>9. Rooted' /\ Listing' /\ Kept(disk')
  BY <1>0, <1>1, <1>5, PlayListing, KeptNow DEF Plain
<1>10. TypeOK' /\ Running'
  BY <1>0, <1>1, <1>5, <1>8, <1>9 DEF TypeOK, Listing, Kept, roles, Running
<1> QED
  BY <1>8, <1>9, <1>10 DEF Inv

LEMMA NextItemInv ==
  ASSUME Inv, NextItem, UNCHANGED roles, Plain
  PROVE  Inv'
<1>0. /\ TypeOK /\ Rooted /\ disk \in Disks /\ ModuleTypes /\ RunTypes
      /\ pc = "next" /\ Running
  BY TypeListing DEF Inv, NextItem, Working
<1>1. /\ ItemUp(i + 1) /\ UNCHANGED <<host, items, check, entries, bounds>>
      /\ i < Len(items)
  BY DEF NextItem
<1>2. /\ i \in 1..Len(items) /\ Len(entries) = i
      /\ check \in BOOLEAN /\ entries \in Seq(Entry)
  BY <1>0 DEF RunTypes
<1>3. i + 1 \in 1..Len(items') /\ Len(entries') = (i + 1) - 1
  BY <1>1, <1>2
<1>4. ModuleTypes' /\ pc' \in Working /\ Here(pc, loc, host, moved)'
  BY <1>0, <1>1, <1>2, <1>3, ItemUpInv
<1>5. Rooted' /\ Listing' /\ Kept(disk')
  BY <1>0, <1>1, PlayListing, KeptNow DEF Plain
<1>6. TypeOK' /\ Running'
  BY <1>0, <1>1, <1>4, <1>5 DEF TypeOK, Listing, Kept, roles, Running
<1> QED
  BY <1>4, <1>5, <1>6 DEF Inv

LEMMA EndTaskInv ==
  ASSUME Inv, EndTask
  PROVE  Inv'
<1>0. /\ TypeOK /\ Rooted /\ Kept(disk') /\ Running
      /\ faults' \in 0..MaxFaults /\ UNCHANGED meddle /\ UNCHANGED bounds
  BY TypeListing, KeptNow, BoundsType DEF Inv, EndTask, Finishing, Working
<1>1. loc.path \in Maybe(Cfgs) /\ poolPath \in Maybe(Cfgs) /\ downloaded \in BOOLEAN
  BY <1>0 DEF TypeOK, ModuleTypes, Locals
<1>2. CASE NextTask /\ poolPath' \in {loc.path, poolPath} /\ UNCHANGED downloaded
  BY <1>0, <1>1, <1>2, NextTaskInv DEF Running
<1>3. CASE EndPlayWith("failed")
  BY <1>0, <1>3, EndPlayInv
<1> QED
  BY <1>2, <1>3 DEF EndTask

LEMMA DownloadInv ==
  ASSUME Inv, Download
  PROVE  Inv'
<1>0. /\ TypeOK /\ Rooted /\ disk \in Disks /\ t <= Len(play)
      /\ poolPath \in Maybe(Cfgs)
  BY TypeListing DEF Inv, Download, At, TypeOK
<1>1. CASE UNCHANGED <<disk, bounds>> /\ EndPlayWith("failed")
  BY <1>0, <1>1, KeptNow, BoundsType, EndPlayInv
<1>2. CASE disk[poolPath] # None /\
           \E got \in SUBSET (BaseImages \ disk[poolPath]) :
             /\ disk' = IF check THEN disk ELSE [disk EXCEPT ![poolPath] = @ \cup got]
             /\ \/ /\ got = BaseImages \ disk[poolPath]
                   /\ NextTask
                   /\ downloaded' = (got # {})
                   /\ UNCHANGED <<bounds, poolPath>>
                \/ Fault /\ EndPlayWith("failed")
  <2> PICK got \in SUBSET BaseImages :
        /\ disk' = IF check THEN disk ELSE [disk EXCEPT ![poolPath] = @ \cup got]
        /\ \/ /\ NextTask
              /\ downloaded' \in BOOLEAN
              /\ UNCHANGED <<bounds, poolPath>>
           \/ Fault /\ EndPlayWith("failed")
    BY <1>2
  <2>1. got \subseteq Images
    BY StorageAssumption
  <2>2. Kept([disk EXCEPT ![poolPath] = @ \cup got])
    BY <1>0, <1>2, <2>1, StorageAssumption DEF Kept, Disks, Maybe
  <2>3. Kept(disk')
    BY <1>0, <2>2, KeptNow
  <2> QED
    BY <1>0, <2>3, NextTaskInv, EndPlayInv, FaultType
<1> QED
  BY <1>1, <1>2 DEF Download

LEMMA StepsInv ==
  ASSUME Inv, Steps
  PROVE  Inv'
<1>0. TypeOK /\ Rooted /\ disk \in Disks
  BY TypeListing DEF Inv
<1>1. CASE SkipRefresh
  BY <1>0, <1>1, KeptNow, NextTaskInv DEF SkipRefresh, At, TypeOK
<1>2. CASE EndPlay
  BY <1>0, <1>2, KeptNow, BoundsType, EndPlayInv DEF EndPlay
<1> QED
  BY <1>1, <1>2, ReconcileInv, NextItemInv, MakeDirsInv, BeginTaskInv, EndTaskInv,
     DownloadInv DEF Steps

LEMMA KillInv ==
  ASSUME Inv, Kill
  PROVE  Inv'
  BY TypeListing, KeptNow, FaultType, EndPlayInv DEF Inv, Kill

LEMMA BeginPlayInv ==
  ASSUME Inv, NEW c \in BOOLEAN, BeginPlay(c)
  PROVE  Inv'
<1>0. TypeOK /\ Rooted /\ disk \in Disks /\ ModuleTypes
  BY TypeListing DEF Inv
<1>1. /\ UNCHANGED <<host, items, i, loc, entries, alone, moved, faults, meddle,
                     poolPath, downloaded, orphaned>>
      /\ pc' = "task" /\ check' = c /\ play' \in Plays /\ t' = 1
      /\ outcome' = "none" /\ quiet' = TRUE /\ settled' = (settled /\ play' = play)
      /\ Plain
  BY DEF BeginPlay, bounds
<1>2. ModuleTypes'
  BY <1>0, <1>1 DEF ModuleTypes, RunTypes, PCs
<1>3. Rooted' /\ Listing' /\ Kept(disk')
  BY <1>0, <1>1, PlayListing, KeptNow DEF Plain
<1>4. t' \in 1..(Len(play') + 1)
  BY <1>1, PlaysType
<1>5. TypeOK'
  BY <1>0, <1>1, <1>2, <1>3, <1>4 DEF TypeOK, Listing, Kept
<1> QED
  BY <1>1, <1>3, <1>5 DEF Inv

LEMMA ClientsInv ==
  ASSUME Inv, Clients
  PROVE  Inv' /\ Abstract!Others
<1>0. TypeOK /\ Rooted /\ disk \in Disks /\ ModuleTypes /\ SaneHost(host) /\ Listing
  BY TypeListing DEF Inv
<1>1. PICK u \in UUIDs : ClientDrives(u, HasDir(u)) \/ ClientDefines(u)
  BY DEF Clients, ClientActs
<1>2. /\ UNCHANGED <<pc, items, play, t, poolPath, downloaded, outcome, orphaned>>
      /\ quiet' = FALSE /\ settled' = FALSE /\ Plain
  BY <1>1 DEF Clients, ClientActs, ClientDrives, ClientDefines, Outside
<1>3. Busy => Item.name \in Names /\ Item.state \in States
  BY InvReady DEF Busy, PoolSpecs
<1>4. ModuleTypes' /\ Abstract!Others
  BY <1>0, <1>1, <1>3, ClientMaps
<1>5. Backed(host') /\ Kept(disk')
  BY <1>0, <1>1, <1>2, ClientsBacked, KeptNow DEF Plain
<1>6. Rooted' /\ Listing'
  BY <1>0, <1>2, <1>4, <1>5, RegistersListing DEF Plain, ModuleTypes
<1>7. pc \notin {"idle", "task", "next"} => Here(pc, loc, host, moved)'
  BY <1>1, InvReady, ClientHere
<1>8. TypeOK' /\ (Running => Running')
  BY <1>0, <1>2, <1>4, <1>5, <1>6 DEF TypeOK, Listing, Kept, Running
<1> QED
  BY <1>2, <1>4, <1>6, <1>7, <1>8 DEF Inv, Working

LEMMA InitInv == Init => Inv
<1> SUFFICES ASSUME Init PROVE Inv
  OBVIOUS
<1>1. SaneHost(host) /\ disk \in Disks
  BY StorageAssumption DEF Init
<1>2. faults \in 0..MaxFaults /\ meddle \in 0..MaxMeddle
  BY RunAssumption DEF Init
<1>3. RunTypes
  BY <1>2, NoEntriesType DEF Init, RunTypes
<1>4. ModuleTypes
  BY <1>1, <1>3, NoLocalsType DEF Init, ModuleTypes, PCs
<1>5. Rooted
  BY DEF Init, Rooted
<1>6. ASSUME NEW u \in UUIDs
      PROVE  /\ known[u] \in SUBSET Images
             /\ known[u] # {} => /\ host[u] # None /\ host[u].active /\ HasDir(u)
                                 /\ known[u] \subseteq disk[DirOf(u)]
  <2>1. CASE host[u] # None /\ host[u].active
    <3>1. host[u].cfg \in Cfgs /\ DirOf(u) = host[u].cfg /\ HasDir(u)
      BY <1>1, <1>5, <2>1 DEF SaneHost, Maybe, Resource, DirOf, Rooted
    <3>2. known[u] = disk[DirOf(u)]
      BY <2>1, <3>1 DEF Init
    <3> QED
      BY <1>1, <2>1, <3>1, <3>2 DEF HasDir, Disks, Maybe
  <2>2. CASE ~(host[u] # None /\ host[u].active)
    BY <2>2 DEF Init
  <2> QED
    BY <2>1, <2>2
<1>7. known \in [UUIDs -> SUBSET Images]
  BY <1>6 DEF Init
<1>8. StoragePlay \in Plays
  BY DEF Plays
<1>9. play \in Plays /\ t \in 1..(Len(play) + 1)
  BY <1>8, PlaysType DEF Init
<1> QED
  BY <1>1, <1>4, <1>5, <1>6, <1>7, <1>9 DEF Init, Inv, TypeOK, Maybe

LEMMA NextInv ==
  ASSUME Inv, [Next]_vars
  PROVE  Inv'
<1>1. CASE UNCHANGED vars
  BY <1>1 DEF vars, Inv, TypeOK, ModuleTypes, RunTypes, Rooted, HasDir, DirOf, Running,
     Here, Placed, Held, Recorded, Met, Item
<1> QED
  BY <1>1, StepsInv, KillInv, BeginPlayInv, ClientsInv DEF Next

LEMMA Invariance == RolesSpec => []Inv
  BY InitInv, NextInv, PTL DEF RolesSpec

-----------------------------------------------------------------------------
(* Theorems *)

\* Whatever fails and whoever edits the pools, the state stays well typed, and what
\* libvirt lists of a pool is on disk (libvirt_pool.py:231-346).
THEOREM TypeCorrect == RolesSpec => []TypeOK
  BY Invariance, PTL DEF Inv

\* A module in check mode neither builds nor refreshes.
LEMMA CheckPlain ==
  ASSUME Ready, ReconcilePool, check
  PROVE  UNCHANGED disk /\ Registers({})
<1>1. pc \notin {"build", "refresh"}
  BY WorkingHere DEF Here, Placed, Writing
<1> QED
  BY <1>1 DEF ReconcilePool, Plain, NoTargetPath, DefinePool, Build, ApplyRunState,
     RefreshIsActive, Refresh, FactPath

LEMMA CheckSteps ==
  ASSUME Inv, Steps, check
  PROVE  UNCHANGED <<host, disk, known>>
<1>0. TypeOK /\ disk \in Disks /\ Listing
  BY TypeListing DEF Inv
<1>1. UNCHANGED host
  BY ReconcileStepped, SteppedInert DEF Steps, NextItem, MakeDirs, BeginTask, BeginRun,
     SkipRefresh, EndTask, Download, EndPlay, EndPlayWith, NextTask
<1>2. UNCHANGED disk /\ Registers({})
  <2>1. CASE ReconcilePool
    BY <2>1, ReconcileStepped, CheckPlain
  <2>2. CASE MakeDirs
    <3>1. disk' = [p \in Cfgs |-> disk[p]] /\ Registers({})
      BY <2>2 DEF MakeDirs, NextTask, EndPlayWith
    <3> QED
      BY <1>0, <3>1 DEF Disks
  <2>3. CASE Download
    BY <2>3 DEF Download, NextTask, EndPlayWith
  <2> QED
    BY <2>1, <2>2, <2>3 DEF Steps, Plain, BeginTask, SkipRefresh, EndTask, EndPlay,
       EndPlayWith, NextTask
<1> QED
  BY <1>0, <1>1, <1>2, QuietRegisters

\* However long the plays, a dry run changes neither the pools nor a directory nor
\* what libvirt lists (libvirt_pool.py:247, 297-329).
THEOREM CheckModeInert == RolesSpec => CheckInert
<1>1. Inv /\ [Next]_vars => [Steps /\ check => UNCHANGED <<host, disk, known>>]_vars
  BY CheckSteps
<1> QED
  BY <1>1, Invariance, PTL DEF RolesSpec, CheckInert

LEMMA NextMaps ==
  ASSUME Inv, [Next]_vars
  PROVE  [Abstract!Next]_(Abstract!vars)
<1>1. CASE ReconcilePool
  BY <1>1, ReconcileStepped, SteppedMaps DEF Abstract!Next
<1>2. CASE Clients
  BY <1>2, ClientsInv DEF Abstract!Next
<1>3. CASE NextItem \/ BeginTask
  <2>1. /\ ~Busy /\ pc' = "lookup" /\ UNCHANGED host /\ alone' = TRUE /\ moved' = FALSE
    BY <1>3 DEF NextItem, BeginTask, BeginRun, ItemUp, At, Busy
  <2>2. Inv'
    BY NextInv
  <2>3. (Running /\ TypeOK)'
    BY <2>1, <2>2 DEF Inv
  <2>4. /\ play' \in Seq(PlayTasks) /\ t' \in 1..Len(play') /\ items' = play'[t'].specs
        /\ i' \in 1..Len(items') /\ check' \in BOOLEAN
    BY <2>1, <2>3, PlaysType DEF Running, TypeOK, ModuleTypes, RunTypes
  <2>5. play'[t'] \in PlayTasks
    BY <2>4
  <2>6. items' \in Seq(PoolSpecs)
    BY <2>4, <2>5 DEF PlayTasks
  <2>7. Item' \in PoolSpecs
    BY <2>4, <2>6 DEF Item
  <2> QED
    BY <2>1, <2>4, <2>7, TakesItem DEF Abstract!Next, PoolSpecs
<1>4. CASE \/ MakeDirs \/ SkipRefresh \/ EndTask \/ Download \/ EndPlay \/ Kill
           \/ \E c \in BOOLEAN : BeginPlay(c)
  <2>1. pc' \in {"idle", "task"} /\ UNCHANGED host
    BY <1>4 DEF MakeDirs, SkipRefresh, EndTask, Download, EndPlay, Kill, BeginPlay,
       EndPlayWith, NextTask
  <2> QED
    BY <2>1, LeavesItem DEF Abstract!Next
<1>5. CASE UNCHANGED vars
  <2>1. \A n \in Names : Level(n)' = Level(n)
    BY <1>5 DEF vars, Level, Named
  <2> QED
    BY <1>5, <2>1 DEF vars, Abstract!vars, Busy, Item
<1> QED
  BY <1>1, <1>2, <1>3, <1>4, <1>5 DEF Next, Steps

\* For every play, list of pools and failure, each item does to its pool, and says
\* of it, what Reconciler promises: building and refreshing included
\* (libvirt_pool.py:231-266, 288-346).
THEOREM KeepsPromise == RolesSpec => Promised
<1>1. Init => Abstract!Init
  BY IdleMaps DEF Init
<1>2. Inv /\ [Next]_vars => [Abstract!Next]_(Abstract!vars)
  BY NextMaps
<1> QED
  BY <1>1, <1>2, InitInv, Invariance, PTL DEF RolesSpec, Promised, Abstract!Spec
-----------------------------------------------------------------------------
(* The images of base_images.  Unseen images have been written off by a play that *)
(* failed (orphaned), but while the play that downloaded them is on its way to the *)
(* refresh; and what the play knows of its pool is still so, if it is undisturbed. *)

Early == Working \ {"factName", "factActive", "factAutostart", "factPersistent"}

\* Images have been downloaded, and the refresh is not done yet.
Pending ==
  /\ play = ImagesPlay /\ t = 3 /\ downloaded /\ ~check
  /\ pc \in {"task"} \cup Early \/ (pc = "next" /\ ~AllOk)

Seen == Unseen \subseteq orphaned \/ Pending

\* The pool of the images is active, with the target path p.
Target(p) == \E u \in Named(ImagePool) : host[u].active /\ DirOf(u) = p

Found ==
  play = ImagesPlay /\ ~check /\ quiet /\ pc # "idle" =>
    /\ pc \in Working => alone
    /\ t = 1 /\ pc \in {"factActive", "factAutostart", "factPersistent"} /\ Exists(loc.it)
         => loc.path = DirOf(loc.it)
    /\ t = 1 /\ pc = "next" /\ AllOk => Target(loc.path)
    /\ t >= 2 => Target(poolPath)
    /\ t >= 3 => BaseImages \subseteq disk[poolPath]

\* Directories get no new files.
NoNew(d2) == \A p \in Cfgs : disk[p] # None => d2[p] \subseteq disk[p]

\* Whatever happens but a download, no image becomes unseen; and there is none after
\* a refresh of the pool.
LEMMA UnseenShrinks ==
  ASSUME SaneHost(host), Rooted, Backed(host'), NoNew(disk'), NEW R, Registers(R)
  PROVE  /\ Unseen' \subseteq Unseen
         /\ Named(ImagePool)' \subseteq R => Unseen' = {}
<1> SUFFICES ASSUME NEW f \in Unseen'
             PROVE  f \in Unseen /\ ~(Named(ImagePool)' \subseteq R)
  OBVIOUS
<1>1. PICK u \in UUIDs :
        /\ host'[u] # None /\ host'[u].name = ImagePool /\ host'[u].active
        /\ f \in disk'[host'[u].cfg] /\ f \notin known'[u]
  BY DEF Unseen, Named, DirOf
<1>2. /\ host[u] # None /\ host[u].name = ImagePool /\ host'[u].cfg = host[u].cfg
      /\ host[u].active \/ HasDir(u)
  BY <1>1 DEF Backed
<1>3. host[u].cfg \in Cfgs /\ DirOf(u) = host[u].cfg
  BY <1>2 DEF SaneHost, Maybe, Resource, DirOf
<1>4. disk[host[u].cfg] # None
  BY <1>2, <1>3 DEF Rooted, HasDir
<1>5. f \in disk[host[u].cfg]
  BY <1>1, <1>2, <1>3, <1>4 DEF NoNew
<1>6. host[u].active /\ u \notin R /\ known'[u] = known[u]
  BY <1>1, <1>2, <1>5 DEF Registers
<1>7. f \in Unseen
  BY <1>1, <1>2, <1>3, <1>5, <1>6 DEF Unseen, Named
<1>8. u \in Named(ImagePool)'
  BY <1>1 DEF Named
<1> QED
  BY <1>6, <1>7, <1>8

LEMMA NothingNew ==
  ASSUME UNCHANGED disk
  PROVE  NoNew(disk')
  BY DEF NoNew

LEMMA ReconcileNoNew ==
  ASSUME Ready, ReconcilePool, disk \in Disks
  PROVE  NoNew(disk')
<1>1. CASE UNCHANGED disk
  BY <1>1, NothingNew
<1>2. CASE /\ Exists(loc.it) /\ ~HasDir(loc.it)
           /\ disk' = [disk EXCEPT ![DirOf(loc.it)] = {}]
  <2>1. DirOf(loc.it) \in Cfgs
    BY <1>2, HeldResource DEF DirOf, Resource
  <2>2. disk[DirOf(loc.it)] = None
    BY <1>2, <2>1, DefineOnceAssumption DEF HasDir
  <2> QED
    BY <1>2, <2>1, <2>2 DEF NoNew, Disks
<1> QED
  BY <1>1, <1>2 DEF ReconcilePool, Plain, Build, Refresh, NoTargetPath, DefinePool,
     ApplyRunState, RefreshIsActive, FactPath

\* A step of the play itself: libvirt keeps still.
LEMMA PlayUnseen ==
  ASSUME TypeOK, Rooted, UNCHANGED host, NoNew(disk'), Registers({})
  PROVE  Unseen' \subseteq Unseen
  BY TypeListing, SameBacked, UnseenShrinks

LEMMA ImagesPlayIs ==
  /\ Len(ImagesPlay) = 3
  /\ ImagesPlay[1].op = "path" /\ ImagesPlay[1].specs = <<Ask("active", FALSE)>>
  /\ ImagesPlay[2].op = "download"
  /\ ImagesPlay[3].op = "refresh" /\ ImagesPlay[3].specs = <<Ask("active", TRUE)>>
  BY DEF ImagesPlay, Task

\* Only base_images downloads and refreshes.
LEMMA OtherPlays ==
  ASSUME NEW p \in Plays, p # ImagesPlay, NEW k \in 1..Len(p)
  PROVE  p[k].op \in {"mkdir", "pools"}
<1>1. CASE p = StoragePlay
  BY <1>1 DEF StoragePlay, Task
<1>2. CASE p \in UserPlays
  <2> DEFINE T == [op: {"pools"}, specs: Seq(PoolSpecs) \ {<<>>}]
  <2>1. p \in Seq(T)
    BY <1>2, StorageAssumption
  <2>2. \A x \in T : x.op = "pools"
    OBVIOUS
  <2> HIDE DEF T
  <2> QED
    BY <2>1, <2>2
<1> QED
  BY <1>1, <1>2 DEF Plays

\* The one item of its module runs.
LEMMA ImagesItem ==
  ASSUME Inv, Running, pc \notin {"idle", "task"}, play = ImagesPlay
  PROVE  /\ t \in {1, 3} /\ Len(items) = 1 /\ i = 1
         /\ Item = Ask("active", t = 3)
         /\ Item.name = ImagePool /\ Item.state = "active" /\ Item.cfg = None
         /\ Item.refresh = (t = 3)
<1>1. t \in 1..3 /\ play[t].op \in {"path", "pools", "refresh"} /\ items = play[t].specs
  BY TypeListing, ImagesPlayIs DEF Inv, Running
<1>2. t \in {1, 3}
  BY <1>1, ImagesPlayIs
<1>3. items = <<Ask("active", t = 3)>>
  BY <1>1, <1>2, ImagesPlayIs
<1>4. Len(items) = 1 /\ i = 1
  BY <1>3, TypeListing DEF Inv, RunTypes
<1>5. Item = Ask("active", t = 3)
  BY <1>3, <1>4 DEF Item
<1> QED
  BY <1>2, <1>4, <1>5 DEF Ask

LEMMA FailsNotOk ==
  ASSUME ModuleTypes, pc' = "next", entries' = Append(entries, Raised)
  PROVE  ~AllOk'
<1>1. entries \in Seq(Entry)
  BY DEF ModuleTypes, RunTypes
<1>2. /\ Len(entries) + 1 \in DOMAIN entries'
      /\ entries'[Len(entries) + 1] = Raised
  BY <1>1 DEF Raised, Entry
<1> QED
  BY <1>2 DEF AllOk, Raised

LEMMA CallNotOk ==
  ASSUME ModuleTypes, NEW possible, CallFails(possible)
  PROVE  pc' = "next" /\ ~AllOk'
  BY FailsNotOk DEF CallFails, EndsRaised, EndItem

LEMMA ReadGoes ==
  ASSUME ModuleTypes, NEW to, NEW new, Read(to, new)
  PROVE  \/ Exists(loc.it) /\ pc' = to /\ loc' = new /\ UNCHANGED host
         \/ pc' = "next" /\ ~AllOk'
  BY CallNotOk DEF Read, Continue, Observe

LEMMA CallGoes ==
  ASSUME ModuleTypes, NEW to, NEW possible, NEW d, NEW new, Call(to, possible, d, new)
  PROVE  \/ /\ Exists(loc.it) /\ possible /\ pc' = to /\ loc' = new
            /\ host' = [host EXCEPT ![loc.it] = d]
         \/ pc' = "next" /\ ~AllOk'
  BY CallNotOk DEF Call, Continue, Mutate

\* Where a module run of base_images, which asks for an active pool, goes.
LEMMA ImagesGo ==
  ASSUME Inv, ReconcilePool, play = ImagesPlay, ~check
  PROVE  \/ RefreshIsActive \/ Refresh
         \/ FactPath \/ FactActive \/ FactAutostart \/ FactPersistent
         \/ pc' \in Early \cup (IF t = 3 THEN {} ELSE {"factName"})
         \/ pc' = "next" /\ ~AllOk'
<1>0. /\ Ready /\ Running /\ Stepped /\ ModuleTypes
      /\ pc \in Working /\ Here(pc, loc, host, moved)
  BY ReconcileStepped, WorkingHere DEF Inv
<1>1. Item.state = "active" /\ Item.cfg = None /\ Item.refresh = (t = 3)
  BY <1>0, ImagesItem DEF Working
<1>2. pc \notin Removing
  BY <1>0, <1>1 DEF Here, Placed
<1>3. CASE Lookup
  BY <1>0, <1>1, <1>3, CallNotOk DEF Lookup, AfterLookup, Continue, Early, Working, PCs
<1>4. CASE \/ AlreadyAbsent \/ WouldUndefine \/ AbsentIsActive \/ AbsentDestroy
           \/ AbsentUndefine \/ AbsentReturn
  BY <1>2, <1>4 DEF AlreadyAbsent, WouldUndefine, AbsentIsActive, AbsentDestroy,
     AbsentUndefine, AbsentReturn, Removing
<1>5. CASE NoTargetPath \/ DefinePool
  BY <1>0, <1>1, <1>5, FailsNotOk DEF NoTargetPath, DefinePool, Return, EndItem
<1>6. CASE Build
  BY <1>0, <1>6, CallNotOk DEF Build, Continue, Early, Working, PCs
<1>7. CASE ReadAutostart
  BY <1>0, <1>7, ReadGoes DEF ReadAutostart, Continue, Early, Working, PCs
<1>8. CASE SetAutostart
  BY <1>0, <1>8, CallGoes DEF SetAutostart, Early, Working, PCs
<1>9. CASE ApplyRunState
  <2>1. CASE ReadActive(AfterRunState)
    BY <1>0, <1>1, <2>1, ReadGoes DEF ReadActive, AfterRunState, Operation, Early,
       Working, PCs
  <2>2. CASE Start(Exists(loc.it) /\ HasDir(loc.it), AfterRunState)
    BY <1>0, <1>1, <2>2, CallGoes DEF Start, AfterRunState, Early, Working, PCs
  <2>3. CASE Stop(AfterRunState)
    BY <1>0, <1>1, <2>3, CallGoes DEF Stop, AfterRunState, Early, Working, PCs
  <2> QED
    BY <1>9, <2>1, <2>2, <2>3 DEF ApplyRunState
<1> QED
  BY <1>3, <1>4, <1>5, <1>6, <1>7, <1>8, <1>9 DEF ReconcilePool

\* The refresh task fails, refreshes, or finds the pool stopped and has nothing to.
LEMMA RefreshGoes ==
  ASSUME Inv, ReconcilePool, play = ImagesPlay, t = 3, ~check, pc \in Early
  PROVE  \/ pc' \in Early
         \/ pc' = "next" /\ ~AllOk'
         \/ Unseen' = {}
<1>0. /\ Ready /\ Running /\ Rooted /\ SaneHost(host) /\ ModuleTypes
  BY ReconcileStepped, TypeListing DEF Inv
<1>1. Item.name = ImagePool
  BY <1>0, ImagesItem DEF Early, Working
<1>2. CASE RefreshIsActive
  <2>1. CASE pc' \in {"refresh", "next"}
    BY <1>0, <1>2, <2>1, ReadGoes DEF RefreshIsActive, Early, Working, PCs
  <2>2. CASE Exists(loc.it) /\ ~host[loc.it].active /\ UNCHANGED host /\ Plain
    <3>1. NamedIn(host, ImagePool) = {loc.it}
      BY <1>0, <1>1, <2>2, HeldResource
    <3>2. Unseen = {}
      BY <2>2, <3>1, LevelNow DEF Unseen
    <3>3. Unseen' \subseteq Unseen
      BY <1>0, <2>2, NothingNew, PlayUnseen DEF Plain, Inv
    <3> QED
      BY <3>2, <3>3
  <2>3. \/ pc' \in {"refresh", "next"}
        \/ Exists(loc.it) /\ ~host[loc.it].active /\ UNCHANGED host /\ Plain
    BY <1>0, <1>2, ReadGoes DEF RefreshIsActive
  <2> QED
    BY <2>1, <2>2, <2>3
<1>3. CASE Refresh
  <2>1. \/ pc' = "next" /\ ~AllOk'
        \/ /\ Exists(loc.it) /\ pc' = "factName"
           /\ host' = [host EXCEPT ![loc.it] = host[loc.it]]
    BY <1>0, <1>3, CallGoes DEF Refresh
  <2>2. CASE /\ Exists(loc.it) /\ pc' = "factName"
             /\ host' = [host EXCEPT ![loc.it] = host[loc.it]]
    <3>1. UNCHANGED host
      BY <1>0, <2>2 DEF SaneHost
    <3>2. NamedIn(host, ImagePool) = {loc.it}
      BY <1>0, <1>1, <2>2, HeldResource
    <3>3. Named(ImagePool)' = {loc.it}
      BY <3>1, <3>2 DEF Named, NamedIn
    <3>4. Registers({loc.it}) /\ NoNew(disk')
      BY <1>3, <2>2, NothingNew DEF Refresh
    <3> QED
      BY <1>0, <3>1, <3>3, <3>4, SameBacked, UnseenShrinks
  <2> QED
    BY <2>1, <2>2
<1>4. ~(FactPath \/ FactActive \/ FactAutostart \/ FactPersistent)
  BY DEF FactPath, FactActive, FactAutostart, FactPersistent, Early
<1> QED
  BY <1>2, <1>3, <1>4, ImagesGo

LEMMA ReconcileSeen ==
  ASSUME Inv, Seen, ReconcilePool, UNCHANGED roles
  PROVE  Seen'
<1>0. /\ Ready /\ Running /\ Stepped /\ Rooted /\ SaneHost(host) /\ disk \in Disks
  BY ReconcileStepped, TypeListing DEF Inv
<1>1. PICK R : Registers(R)
  BY <1>0, ReconcileKept
<1>2. Unseen' \subseteq Unseen
  BY <1>0, <1>1, ReconcileBacked, ReconcileNoNew, UnseenShrinks
<1>3. UNCHANGED <<play, t, downloaded, orphaned, check>>
  BY <1>0, SteppedInv DEF roles
<1>4. CASE Pending
  <2>1. pc \in Early
    BY <1>0, <1>4 DEF Pending, Ready, Working
  <2> QED
    BY <1>3, <1>4, <2>1, RefreshGoes DEF Pending, Seen
<1> QED
  BY <1>2, <1>3, <1>4 DEF Seen

LEMMA StillSeen ==
  ASSUME Inv, Unseen \subseteq orphaned, UNCHANGED <<host, orphaned>>, NoNew(disk'),
         Registers({})
  PROVE  Seen'
  BY PlayUnseen DEF Inv, Seen

LEMMA EndPlaySeen ==
  ASSUME Inv, NEW result \in {"ok", "failed"}, EndPlayWith(result),
         result = "ok" => Unseen \subseteq orphaned /\ NoNew(disk')
  PROVE  Seen'
<1>1. CASE result = "failed"
  BY <1>1 DEF EndPlayWith, Seen
<1>2. CASE result = "ok"
  <2>1. Unseen' \subseteq Unseen /\ orphaned' = orphaned \cap Unseen'
    BY <1>2, PlayUnseen DEF EndPlayWith, Inv
  <2> QED
    BY <1>2, <2>1 DEF Seen
<1> QED
  BY <1>1, <1>2

LEMMA TaskOp ==
  ASSUME Inv, NEW ops, At(ops)
  PROVE  /\ pc = "task" /\ t \in 1..Len(play) /\ play[t].op \in ops /\ play \in Plays
         /\ "refresh" \notin ops => ~Pending
<1>1. /\ pc = "task" /\ t \in 1..Len(play) /\ play[t].op \in ops /\ play \in Plays
  BY TypeListing DEF At, Inv
<1> QED
  BY <1>1, ImagesPlayIs DEF Pending

LEMMA PoolTask ==
  ASSUME Inv, t <= Len(play), play[t].op = "download" \/ play[t].op = "refresh" \/ play[t].op = "path"
  PROVE  /\ play = ImagesPlay
         /\ t = IF play[t].op = "path" THEN 1 ELSE IF play[t].op = "download" THEN 2 ELSE 3
<1>1. t \in 1..Len(play) /\ play \in Plays
  BY TypeListing DEF Inv
<1>2. play = ImagesPlay
  BY <1>1, OtherPlays
<1> QED
  BY <1>1, <1>2, ImagesPlayIs

LEMMA MakeDirsSeen ==
  ASSUME Inv, Seen, MakeDirs
  PROVE  Seen'
<1>1. Unseen \subseteq orphaned /\ disk \in Disks
  BY TaskOp, TypeListing DEF MakeDirs, Seen, Inv
<1>2. NoNew(disk')
  BY <1>1 DEF MakeDirs, NoNew
<1>3. CASE EndPlayWith("failed")
  BY <1>3, EndPlaySeen
<1>4. CASE NextTask
  BY <1>1, <1>2, <1>4, StillSeen DEF NextTask
<1> QED
  BY <1>3, <1>4 DEF MakeDirs

LEMMA DownloadSeen ==
  ASSUME Inv, Seen, Download
  PROVE  Seen'
<1>1. /\ Unseen \subseteq orphaned /\ disk \in Disks /\ pc = "task"
      /\ play = ImagesPlay /\ t = 2
  BY TaskOp, PoolTask, TypeListing DEF Download, Seen, Inv
<1>2. CASE EndPlayWith("failed")
  BY <1>2, EndPlaySeen
<1>3. ASSUME NEW got, NextTask, downloaded' = (got # {}),
             disk' = IF check THEN disk ELSE [disk EXCEPT ![poolPath] = @ \cup got]
      PROVE  Seen'
  <2>1. /\ pc' = "task" /\ t' = 3 /\ UNCHANGED <<host, play, check, orphaned>>
        /\ Registers({})
    BY <1>1, <1>3 DEF NextTask, process
  <2>2. CASE check \/ got = {}
    <3>1. UNCHANGED disk
      BY <1>1, <1>3, <2>2 DEF Disks
    <3> QED
      BY <1>1, <2>1, <3>1, NothingNew, StillSeen
  <2>3. CASE ~check /\ got # {}
    BY <1>1, <1>3, <2>1, <2>3 DEF Seen, Pending
  <2> QED
    BY <2>2, <2>3
<1> QED
  BY <1>2, <1>3 DEF Download

LEMMA StepsSeen ==
  ASSUME Inv, Seen, Steps
  PROVE  Seen'
<1>1. CASE NextItem /\ UNCHANGED roles /\ Plain
  <2>1. ~Pending
    <3>1. pc = "next" /\ i < Len(items) /\ Running
      BY <1>1 DEF NextItem, Inv, Working
    <3>2. ASSUME play = ImagesPlay PROVE FALSE
      <4>1. Len(items) = 1 /\ i = 1
        BY <3>1, <3>2, ImagesItem
      <4> QED
        BY <3>1, <4>1
    <3> QED
      BY <3>2 DEF Pending
  <2> QED
    BY <1>1, <2>1, NothingNew, StillSeen DEF NextItem, Plain, roles, Seen
<1>2. CASE BeginTask
  <2>1. /\ UNCHANGED <<host, roles, check>> /\ pc' = "lookup" /\ UNCHANGED disk
        /\ Registers({})
    BY <1>2 DEF BeginTask, BeginRun, ItemUp, Plain
  <2>2. CASE Pending
    BY <2>1, <2>2 DEF Pending, Seen, roles, Early, Working, PCs
  <2> QED
    BY <2>1, <2>2, NothingNew, StillSeen DEF Seen, roles
<1>3. CASE SkipRefresh
  <2>1. ~Pending
    BY <1>3 DEF SkipRefresh, Pending
  <2> QED
    BY <1>3, <2>1, NothingNew, StillSeen DEF SkipRefresh, NextTask, Seen
<1>4. CASE EndTask
  <2>1. CASE EndPlayWith("failed")
    BY <2>1, EndPlaySeen
  <2>2. CASE AllOk /\ NextTask
    <3>1. ~Pending
      BY <1>4, <2>2 DEF EndTask, Finishing, Pending, Early, Working
    <3> QED
      BY <1>4, <2>2, <3>1, NothingNew, StillSeen DEF EndTask, NextTask, Seen
  <2> QED
    BY <1>4, <2>1, <2>2 DEF EndTask
<1>5. CASE EndPlay
  <2>1. ~Pending
    BY <1>5, ImagesPlayIs DEF EndPlay, Pending
  <2> QED
    BY <1>5, <2>1, NothingNew, EndPlaySeen DEF EndPlay, Seen
<1> QED
  BY <1>1, <1>2, <1>3, <1>4, <1>5, ReconcileSeen, MakeDirsSeen, DownloadSeen DEF Steps

LEMMA NextSeen ==
  ASSUME Inv, Seen, [Next]_vars
  PROVE  Seen'
<1>1. CASE UNCHANGED vars
  BY <1>1 DEF vars, Seen, Pending, Unseen, Named, DirOf, AllOk
<1>2. CASE Kill
  BY <1>2, EndPlaySeen DEF Kill
<1>3. ASSUME NEW c \in BOOLEAN, BeginPlay(c) PROVE Seen'
  <2>1. ~Pending
    BY <1>3 DEF BeginPlay, Pending, Early, Working
  <2> QED
    BY <1>3, <2>1, NothingNew, StillSeen DEF BeginPlay, Plain, Seen
<1>4. CASE Clients
  <2>1. PICK u \in UUIDs : ClientDrives(u, HasDir(u)) \/ ClientDefines(u)
    BY <1>4 DEF Clients, ClientActs
  <2>2. /\ UNCHANGED <<pc, check, entries, play, t, downloaded, orphaned, disk>>
        /\ Registers({})
    BY <1>4, <2>1 DEF Clients, ClientActs, ClientDrives, ClientDefines, Outside, Plain
  <2>3. Unseen' \subseteq Unseen
    <3>1. Backed(host') /\ NoNew(disk') /\ SaneHost(host) /\ Rooted
      BY <2>1, <2>2, ClientsBacked, NothingNew, TypeListing DEF Inv
    <3> QED
      BY <2>2, <3>1, UnseenShrinks
  <2>4. Pending => Pending'
    BY <2>2 DEF Pending, AllOk
  <2> QED
    BY <2>2, <2>3, <2>4 DEF Seen
<1> QED
  BY <1>1, <1>2, <1>3, <1>4, StepsSeen DEF Next

\* A run that asks for an active pool takes none down.
LEMMA KeepsActive ==
  ASSUME Ready, ReconcilePool, Item.state = "active", Item.cfg = None,
         NEW u \in UUIDs, host[u] # None, host[u].active
  PROVE  /\ host'[u] # None /\ host'[u].active
         /\ host'[u].name = host[u].name /\ host'[u].cfg = host[u].cfg
<1>0. /\ SaneHost(host) /\ Here(pc, loc, host, moved) /\ ModuleTypes
      /\ \A v \in UUIDs : host[v] # None => host[v] \in Resource
  BY WorkingHere DEF SaneHost, Maybe
<1>1. CASE UNCHANGED host
  BY <1>1
<1>2. CASE SetAutostart
  <2>1. \/ UNCHANGED host
        \/ /\ Exists(loc.it)
           /\ host' = [host EXCEPT ![loc.it] = [host[loc.it] EXCEPT !.autostart = Item.autostart]]
    BY <1>2 DEF SetAutostart, Call, Mutate, CallFails, Observe
  <2>2. Item.autostart \in BOOLEAN
    BY <1>0, <1>2, WorkingHere DEF SetAutostart, Here, Placed, Maybe
  <2> DEFINE d == [host[u] EXCEPT !.autostart = Item.autostart]
  <2>3. /\ d \in Resource /\ d.active
        /\ d.name = host[u].name /\ d.cfg = host[u].cfg
    BY <1>0, <2>2 DEF Resource
  <2>4. host' = host \/ host'[u] = host[u] \/ host'[u] = d
    BY <1>0, <2>1 DEF SaneHost
  <2> HIDE DEF d
  <2> QED
    BY <2>3, <2>4, DefineOnceAssumption
<1>3. CASE ApplyRunState
  <2>1. CASE Start(Exists(loc.it) /\ HasDir(loc.it), AfterRunState)
    <3>1. \/ UNCHANGED host
          \/ /\ ~host[loc.it].active
             /\ host' = [host EXCEPT ![loc.it] = [host[loc.it] EXCEPT !.active = TRUE]]
      BY <2>1 DEF Start, Call, Mutate, CallFails, Observe
    <3> QED
      BY <1>0, <3>1 DEF SaneHost
  <2>2. ~Stop(AfterRunState)
    BY <1>0 DEF Stop, Here, Placed
  <2> QED
    BY <1>1, <1>3, <2>1, <2>2 DEF ApplyRunState, ReadActive, Read, CallFails, Observe
<1>4. CASE Refresh
  <2>1. UNCHANGED host
    BY <1>0, <1>4 DEF Refresh, Call, Mutate, CallFails, Observe, SaneHost
  <2> QED
    BY <1>1, <2>1
<1>5. pc \notin Removing
  BY <1>0 DEF Here, Placed
<1>6. UNCHANGED host \/ SetAutostart \/ ApplyRunState \/ Refresh
  BY <1>5 DEF ReconcilePool, Lookup, AlreadyAbsent, WouldUndefine, AbsentIsActive,
     AbsentDestroy, AbsentUndefine, AbsentReturn, Removing, ReadAutostart, FactActive,
     FactAutostart, FactPersistent, NoTargetPath, DefinePool, Build, RefreshIsActive,
     FactPath, Read, Return, CallFails, Observe
<1> QED
  BY <1>1, <1>2, <1>3, <1>4, <1>6

LEMMA SteppedAlone ==
  ASSUME Stepped
  PROVE  UNCHANGED alone
  BY DEF Stepped, QuietStep, ChangingStep, EndingStep, Quiet, Changing, Ends, Observe, Mutate

\* The active pool of the images stays where it is.
LEMMA TargetKept ==
  ASSUME Ready, ReconcilePool, Item.state = "active", Item.cfg = None, NEW p,
         Target(p)
  PROVE  \E u \in UUIDs : /\ host'[u] # None /\ host'[u].name = ImagePool
                          /\ host'[u].active /\ host'[u].cfg = p
<1>1. PICK u \in UUIDs : /\ host[u] # None /\ host[u].name = ImagePool
                         /\ host[u].active /\ host[u].cfg = p
  BY DEF Target, Named, DirOf
<1> QED
  BY <1>1, KeepsActive

\* The facts of a base_images run are those of its pool, which is active at the end.
LEMMA PathFound ==
  ASSUME Inv, Found, ReconcilePool, UNCHANGED roles, play = ImagesPlay, quiet, ~check
  PROVE  /\ alone'
         /\ t = 1 /\ pc' \in {"factActive", "factAutostart", "factPersistent"}
              /\ Exists(loc.it)' => loc'.path = DirOf(loc.it)'
         /\ t = 1 /\ pc' = "next" /\ AllOk' => Target(loc.path)'
<1>0. /\ Ready /\ Running /\ Stepped /\ ModuleTypes /\ loc \in Locals
      /\ pc \in Working /\ Here(pc, loc, host, moved)
  BY ReconcileStepped, WorkingHere DEF Inv
<1>1. Item.name = ImagePool /\ Item.state = "active"
  BY <1>0, ImagesItem DEF Working
<1>2. alone /\ alone'
  BY <1>0, SteppedAlone DEF Found, Working
<1>3. CASE RefreshIsActive \/ Refresh
  <2>1. pc' \in {"refresh", "factName"} \/ (pc' = "next" /\ ~AllOk')
    BY <1>0, <1>3, ReadGoes, CallGoes DEF RefreshIsActive, Refresh
  <2> QED
    BY <1>2, <2>1
<1>4. CASE FactPath
  <2>1. \/ /\ Exists(loc.it) /\ pc' = "factActive" /\ UNCHANGED host
           /\ loc' = [loc EXCEPT !.path = DirOf(loc.it)]
        \/ pc' = "next" /\ ~AllOk'
    BY <1>0, <1>4, ReadGoes DEF FactPath
  <2>2. ASSUME loc' = [loc EXCEPT !.path = DirOf(loc.it)], UNCHANGED host
        PROVE  loc'.path = DirOf(loc.it)'
    BY <1>0, <2>2 DEF Locals, DirOf
  <2> QED
    BY <1>2, <2>1, <2>2
<1>5. CASE FactActive \/ FactAutostart
  <2>1. \/ /\ Exists(loc.it) /\ UNCHANGED <<host, loc>>
           /\ pc' \in {"factAutostart", "factPersistent"}
        \/ pc' = "next" /\ ~AllOk'
    BY <1>0, <1>5, ReadGoes DEF FactActive, FactAutostart
  <2>2. t = 1 /\ Exists(loc.it) => loc.path = DirOf(loc.it)
    BY <1>0, <1>5 DEF Found, FactActive, FactAutostart
  <2>3. UNCHANGED <<host, loc>> => UNCHANGED <<loc.path, DirOf(loc.it)>>
    BY DEF DirOf
  <2> QED
    BY <1>2, <2>1, <2>2, <2>3
<1>6. CASE FactPersistent
  <2>1. \/ Exists(loc.it) /\ UNCHANGED <<host, loc>> /\ pc' = "next"
        \/ pc' = "next" /\ ~AllOk'
    BY <1>0, <1>6, CallNotOk DEF FactPersistent, Return, Observe, EndItem
  <2>2. CASE t = 1 /\ Exists(loc.it) /\ UNCHANGED <<host, loc>>
    <3>1. loc.path = DirOf(loc.it)
      BY <1>0, <1>6, <2>2 DEF Found, FactPersistent
    <3>2. host[loc.it].active /\ loc.it \in Named(ImagePool)
      BY <1>0, <1>1, <1>2, <1>6, <2>2, HeldResource DEF FactPersistent, Here, Met,
         Reporting, Exists, Named
    <3>3. Target(loc.path)
      BY <3>1, <3>2 DEF Target
    <3> QED
      BY <1>2, <2>1, <2>2, <3>3 DEF Target, Named, DirOf
  <2> QED
    BY <1>2, <2>1, <2>2
<1>7. CASE \/ pc' \in Early \cup {"factName"}
           \/ pc' = "next" /\ ~AllOk'
  BY <1>2, <1>7 DEF Early, Working
<1> QED
  BY <1>3, <1>4, <1>5, <1>6, <1>7, ImagesGo

LEMMA ReconcileFound ==
  ASSUME Inv, Found, ReconcilePool, UNCHANGED roles
  PROVE  Found'
<1> SUFFICES ASSUME play = ImagesPlay, ~check, quiet
             PROVE  /\ alone'
                    /\ t = 1 /\ pc' \in {"factActive", "factAutostart", "factPersistent"}
                         /\ Exists(loc.it)' => loc'.path = DirOf(loc.it)'
                    /\ t = 1 /\ pc' = "next" /\ AllOk' => Target(loc.path)'
                    /\ t >= 2 => Target(poolPath)'
                    /\ t >= 3 => BaseImages \subseteq disk'[poolPath]
  <2>1. UNCHANGED <<play, quiet, t, poolPath>> /\ check' = check
    BY ReconcileStepped, SteppedInv DEF roles
  <2> QED
    BY <2>1 DEF Found
<1>0. /\ Ready /\ Running /\ disk \in Disks /\ pc \in Working /\ UNCHANGED poolPath
      /\ SaneHost(host) /\ Rooted
  BY ReconcileStepped, WorkingHere, TypeListing DEF Inv, roles
<1>1. Item.state = "active" /\ Item.cfg = None /\ t \in {1, 3}
  BY <1>0, ImagesItem DEF Working
<1>2. t = 3 => Target(poolPath) /\ BaseImages \subseteq disk[poolPath]
  BY <1>0 DEF Found, Working
<1>3. t = 3 => Target(poolPath)'
  <2>1. ASSUME t = 3
        PROVE  \E u \in UUIDs : /\ host'[u] # None /\ host'[u].name = ImagePool
                                /\ host'[u].active /\ host'[u].cfg = poolPath
    BY <1>0, <1>1, <1>2, <2>1, TargetKept
  <2> QED
    BY <1>0, <2>1 DEF Target, Named, DirOf
<1>4. ASSUME t = 3 PROVE BaseImages \subseteq disk'[poolPath]
  <2>1. Kept(disk')
    BY <1>0, ReconcileKept
  <2>2. poolPath \in Cfgs /\ disk[poolPath] # None
    <3>1. PICK u \in UUIDs : host[u] # None /\ host[u].active /\ DirOf(u) = poolPath
      BY <1>2, <1>4 DEF Target, Named
    <3> QED
      BY <1>0, <3>1 DEF Rooted, HasDir, DirOf, SaneHost, Maybe, Resource
  <2> QED
    BY <1>2, <1>4, <2>1, <2>2 DEF Kept
<1> QED
  BY <1>1, <1>3, <1>4, PathFound

\* From one task to the next.
LEMMA NextTaskFound ==
  ASSUME Inv, NextTask,
         play = ImagesPlay /\ quiet /\ ~check =>
           Target(poolPath') /\ (t >= 2 => BaseImages \subseteq disk'[poolPath'])
  PROVE  Found'
<1>1. /\ UNCHANGED <<host, play, quiet, check>> /\ pc' = "task" /\ t' = t + 1
      /\ t \in Nat
  BY TypeListing DEF NextTask, process, Inv
<1>2. \A p : Target(p) => \E u \in UUIDs : /\ host'[u] # None /\ host'[u].name = ImagePool
                                           /\ host'[u].active /\ host'[u].cfg = p
  BY <1>1 DEF Target, Named, DirOf
<1>3. play = ImagesPlay /\ quiet /\ ~check => Target(poolPath)'
  BY <1>2 DEF Target, Named, DirOf
<1> QED
  BY <1>1, <1>3 DEF Found, Working

LEMMA EndTaskFound ==
  ASSUME Inv, Found, EndTask
  PROVE  Found'
<1>0. /\ Running /\ pc = "next" /\ UNCHANGED disk /\ t \in 1..Len(play) /\ play \in Plays
  BY TypeListing DEF Inv, EndTask, Finishing, Working, Running
<1>1. CASE EndPlayWith("failed")
  BY <1>1 DEF EndPlayWith, Found
<1>2. CASE /\ AllOk /\ NextTask
           /\ poolPath' = IF play[t].op = "path" THEN loc.path ELSE poolPath
  <2>1. ASSUME play = ImagesPlay, quiet, ~check
        PROVE  Target(poolPath') /\ (t >= 2 => BaseImages \subseteq disk'[poolPath'])
    <3>1. t \in {1, 3} /\ (t = 1 <=> play[t].op = "path")
      BY <1>0, <2>1, ImagesPlayIs, PoolTask DEF Running
    <3>2. t = 1 => Target(loc.path)
      BY <1>0, <1>2, <2>1 DEF Found
    <3>3. t = 3 => Target(poolPath) /\ BaseImages \subseteq disk[poolPath]
      BY <1>0, <2>1 DEF Found
    <3> QED
      BY <1>0, <1>2, <3>1, <3>2, <3>3
  <2> QED
    BY <1>2, <2>1, NextTaskFound
<1> QED
  BY <1>1, <1>2 DEF EndTask

LEMMA DownloadFound ==
  ASSUME Inv, Found, Download
  PROVE  Found'
<1>0. /\ pc = "task" /\ play = ImagesPlay /\ t = 2 /\ disk \in Disks /\ SaneHost(host)
  BY TaskOp, PoolTask, TypeListing DEF Download, Inv
<1>1. CASE EndPlayWith("failed")
  BY <1>1 DEF EndPlayWith, Found
<1>2. ASSUME NEW got, got = BaseImages \ disk[poolPath],
             disk' = IF check THEN disk ELSE [disk EXCEPT ![poolPath] = @ \cup got],
             NextTask, UNCHANGED poolPath
      PROVE  Found'
  <2>1. ASSUME quiet, ~check
        PROVE  Target(poolPath) /\ BaseImages \subseteq disk'[poolPath]
    <3>1. Target(poolPath)
      BY <1>0, <2>1 DEF Found
    <3>2. poolPath \in Cfgs
      BY <1>0, <3>1 DEF Target, Named, DirOf, SaneHost, Maybe, Resource
    <3>3. disk'[poolPath] = disk[poolPath] \cup got
      BY <1>0, <1>2, <2>1, <3>2 DEF Disks
    <3> QED
      BY <1>2, <3>1, <3>3
  <2> QED
    BY <1>2, <2>1, NextTaskFound
<1> QED
  BY <1>1, <1>2 DEF Download

LEMMA StepsFound ==
  ASSUME Inv, Found, Steps
  PROVE  Found'
<1>1. CASE NextItem /\ UNCHANGED roles /\ Plain
  <2>1. pc = "next" /\ i < Len(items) /\ Running
    BY <1>1 DEF NextItem, Inv, Working
  <2>2. ASSUME play = ImagesPlay PROVE FALSE
    <3>1. Len(items) = 1 /\ i = 1
      BY <2>1, <2>2, ImagesItem
    <3> QED
      BY <2>1, <3>1
  <2> QED
    BY <1>1, <2>2 DEF roles, Found
<1>2. CASE BeginTask
  <2>1. /\ UNCHANGED <<host, disk, play, t, poolPath, quiet, check>>
        /\ pc = "task" /\ pc' = "lookup" /\ alone' = TRUE
    BY <1>2 DEF BeginTask, BeginRun, ItemUp, Plain, roles, At
  <2>2. Target(poolPath) => Target(poolPath)'
    BY <2>1 DEF Target, Named, DirOf
  <2> QED
    BY <2>1, <2>2 DEF Found
<1>3. CASE SkipRefresh
  <2>1. /\ UNCHANGED <<disk, poolPath>> /\ NextTask /\ pc = "task"
        /\ play = ImagesPlay /\ t = 3
    BY <1>3, TaskOp, PoolTask DEF SkipRefresh
  <2>2. ASSUME quiet, ~check
        PROVE  Target(poolPath) /\ BaseImages \subseteq disk[poolPath]
    BY <2>1, <2>2 DEF Found
  <2> QED
    BY <2>1, <2>2, NextTaskFound
<1>4. CASE MakeDirs
  <2>1. play # ImagesPlay /\ UNCHANGED play
    BY <1>4, TaskOp, ImagesPlayIs DEF MakeDirs, NextTask, EndPlayWith
  <2> QED
    BY <2>1 DEF Found
<1>5. CASE EndPlay
  BY <1>5 DEF EndPlay, EndPlayWith, Found
<1> QED
  BY <1>1, <1>2, <1>3, <1>4, <1>5, ReconcileFound, EndTaskFound, DownloadFound DEF Steps

LEMMA NextFound ==
  ASSUME Inv, Found, [Next]_vars
  PROVE  Found'
<1>1. CASE UNCHANGED vars
  BY <1>1 DEF vars, Found, Target, Named, DirOf, AllOk, Exists
<1>2. CASE Kill
  BY <1>2 DEF Kill, EndPlayWith, Found
<1>3. ASSUME NEW c \in BOOLEAN, BeginPlay(c) PROVE Found'
  BY <1>3 DEF BeginPlay, Found, Working
<1>4. CASE Clients
  BY <1>4 DEF Clients, Found
<1> QED
  BY <1>1, <1>2, <1>3, <1>4, StepsFound DEF Next

\* At the end the images are in the directory of the active pool, and what libvirt has
\* not listed of them is orphaned.
LEMMA EndPlayLists ==
  ASSUME Inv, Seen, Found, EndPlay
  PROVE  ImagesListed'
<1>0. /\ TypeOK /\ Rooted /\ pc = "task" /\ EndPlayWith("ok") /\ UNCHANGED disk /\ t > Len(play)
      /\ UNCHANGED <<host, play, quiet>> /\ Registers({}) /\ Listing
  BY TypeListing DEF EndPlay, EndPlayWith, Inv
<1> SUFFICES ASSUME ~check, quiet, play = ImagesPlay, NEW f \in BaseImages \ orphaned'
             PROVE  Listed(f)'
  BY <1>0 DEF ImagesListed, Finished, EndPlayWith
<1>1. t >= 2 /\ t >= 3 /\ t # 3
  BY <1>0, TypeListing, ImagesPlayIs
<1>2. Target(poolPath) /\ BaseImages \subseteq disk[poolPath]
  BY <1>0, <1>1 DEF Found
<1>3. PICK u \in Named(ImagePool) : host[u].active /\ DirOf(u) = poolPath
  BY <1>2 DEF Target
<1>4. f \in disk[DirOf(u)] /\ u \in UUIDs
  BY <1>2, <1>3 DEF Named
<1>5. UNCHANGED known
  BY <1>0, QuietRegisters
<1>6. Unseen \subseteq orphaned /\ Unseen' = Unseen
  BY <1>0, <1>1, <1>5 DEF Seen, Pending, Unseen, Named, DirOf
<1>7. f \notin Unseen
  BY <1>0, <1>6 DEF EndPlayWith
<1>8. f \in known[u]
  BY <1>3, <1>4, <1>7 DEF Unseen
<1> QED
  BY <1>0, <1>3, <1>4, <1>5, <1>8 DEF Listed, Named

LEMMA NextLists ==
  ASSUME Inv, Seen, Found, ImagesListed, [Next]_vars
  PROVE  ImagesListed'
<1>1. CASE UNCHANGED vars
  BY <1>1 DEF vars, ImagesListed, Finished, Listed, Named
<1>2. CASE EndPlay
  BY <1>2, EndPlayLists
<1>3. CASE Clients
  BY <1>3 DEF Clients, ImagesListed
<1>4. CASE EndPlayWith("failed")
  BY <1>4 DEF EndPlayWith, ImagesListed, Finished
<1>5. CASE pc' # "idle"
  BY <1>5 DEF ImagesListed, Finished
<1>6. ASSUME ReconcilePool PROVE pc' # "idle"
  BY <1>6, ReconcileStepped, SteppedInv DEF Working
<1> QED
  BY <1>1, <1>2, <1>3, <1>4, <1>5, <1>6 DEF Next, Steps, Kill, BeginPlay, NextItem,
     ItemUp, MakeDirs, NextTask, BeginTask, BeginRun, SkipRefresh, EndTask, Download

LEMMA InitSeen == Init => Seen /\ Found /\ ImagesListed
<1> SUFFICES ASSUME Init PROVE Seen /\ Found /\ ImagesListed
  OBVIOUS
<1>1. Inv
  BY InitInv
<1>2. ASSUME NEW u \in UUIDs, host[u] # None, host[u].active
      PROVE  known[u] = disk[DirOf(u)]
  BY <1>2 DEF Init, DirOf
<1>3. Unseen = {}
  BY <1>2 DEF Unseen, Named
<1> QED
  BY <1>3 DEF Init, Seen, Found, ImagesListed, Finished

\* After an undisturbed base_images play that succeeds libvirt lists every image but
\* those an earlier play has left behind, for any images, pools and failures
\* (roles/base_images/tasks/configure.yml:16-36).
THEOREM ListsImages == RolesSpec => []ImagesListed
<1>1. Init => Inv /\ Seen /\ Found /\ ImagesListed
  BY InitInv, InitSeen
<1>2. Inv /\ Seen /\ Found /\ ImagesListed /\ [Next]_vars
        => (Inv /\ Seen /\ Found /\ ImagesListed)'
  BY NextInv, NextSeen, NextFound, NextLists
<1> QED
  BY <1>1, <1>2, PTL DEF RolesSpec

-----------------------------------------------------------------------------
(* A second play is silent *)

AllMet(specs, h) == \A j \in 1..Len(specs) : SpecMet(specs[j], h)

Resting == RestsAt(pc, loc, Item.refresh)
Nearing == alone /\ NearsAt(pc, loc, host)

\* The play has dealt with the n-th spec of its k-th task.
Behind(k, n) ==
  \/ k < t
  \/ k = t /\ pc \in Working \cup {"next"} /\ n \in 1..Len(entries) /\ ~entries[n].failed

\* The pool of the item in hand has been dealt with before.
Repeats ==
  \E k \in PoolTasks(play) : \E n \in 1..Len(play[k].specs) :
    Behind(k, n) /\ play[k].specs[n].name = Item.name

\* Every spec that an undisturbed play has dealt with is met, and after it all of them.
Silent ==
  /\ settled =>
       /\ \A k \in PoolTasks(play) : AllMet(play[k].specs, host)
       /\ pc \in Working => Resting
       /\ pc = "next" /\ entries[i].changed => Item.refresh
  /\ quiet /\ ~check /\ pc # "idle" =>
       /\ \A k \in PoolTasks(play) : \A n \in 1..Len(play[k].specs) :
            Behind(k, n) => SpecMet(play[k].specs[n], host)
       /\ pc \in Working => Nearing /\ (Repeats => Resting)

LEMMA PoolRests ==
  ASSUME Inv, ReconcilePool, Resting, SpecMet(Item, host)
  PROVE  Rests(Item.refresh)
<1> DEFINE x == Item.refresh
<1>0. Ready /\ RestsAt(pc, loc, x) /\ loc \in Locals /\ loc.changed \in BOOLEAN
  BY ReconcileStepped, WorkingHere DEF Resting
<1> HIDE DEF x
<1>1. CASE \/ Lookup \/ AlreadyAbsent \/ ReadAutostart \/ ReadActive(AfterRunState)
           \/ FactActive \/ FactAutostart \/ FactPersistent
  <2>1. AfterRunState \in {"factName", "refreshActive"} /\ (AfterRunState = "refreshActive" => x)
    BY DEF AfterRunState, x
  <2> QED
    BY <1>0, <1>1, <2>1, RestingStep DEF x
<1>2. CASE RefreshIsActive
  <2>1. x
    BY <1>0, <1>2 DEF RefreshIsActive, RestsAt
  <2>2. PICK to, new : /\ Read(to, new) /\ to \in {"refresh", "factName"}
    BY <1>2 DEF RefreshIsActive
  <2>3. RestsAt(to, new, x)
    BY <2>1, <2>2 DEF RestsAt, Reporting
  <2> QED
    BY <2>2, <2>3, RestingReads DEF x
<1>3. CASE Refresh
  <2>1. x
    BY <1>0, <1>3 DEF Refresh, RestsAt
  <2>2. CASE /\ Exists(loc.it) /\ Continue("factName")
             /\ Mutate(loc.it, host[loc.it]) /\ loc' = [loc EXCEPT !.changed = TRUE]
    <3>1. UNCHANGED host
      BY <1>0, <2>2, HeldResource, WorkingHere DEF Mutate, SaneHost
    <3>2. RestsAt(pc', loc', x)
      BY <2>1, <2>2 DEF RestsAt, Continue, Reporting
    <3> QED
      BY <2>2, <3>1, <3>2 DEF Rests, Continue, x
  <2> QED
    BY <1>3, <2>2, RestingFails DEF Refresh, Call
<1>4. CASE FactPath
  <2>1. PICK new : Read("factActive", new) /\ new = [loc EXCEPT !.path = DirOf(loc.it)]
    BY <1>4 DEF FactPath
  <2>2. RestsAt("factActive", new, x)
    BY <1>0, <2>1 DEF RestsAt, Locals, Reporting
  <2> QED
    BY <2>1, <2>2, RestingReads DEF x
<1>5. pc \notin {"would", "absActive", "absDestroy", "absUndefine", "undefined", "define",
                 "build", "setAutostart", "create", "destroy"}
  BY <1>0 DEF RestsAt, Reporting
<1> QED
  BY <1>1, <1>2, <1>3, <1>4, <1>5 DEF ReconcilePool, WouldUndefine, AbsentIsActive,
     AbsentDestroy, AbsentUndefine, AbsentReturn, NoTargetPath, DefinePool, Build, SetAutostart,
     ApplyRunState, Start, Stop, x

LEMMA PoolNears ==
  ASSUME Inv, ReconcilePool, Nearing, ~check
  PROVE  Nears
<1>0. Ready /\ loc \in Locals
  BY ReconcileStepped, WorkingHere
<1>1. CASE NoTargetPath
  BY <1>1, NearingReturns DEF NoTargetPath, Raised
<1>2. CASE Build
  <2>1. CASE Continue("autostart") /\ Observe
    <3>1. NearsAt("autostart", loc', host') /\ UNCHANGED alone
      BY <2>1 DEF NearsAt, Flagged, Reporting, Observe
    <3> QED
      BY <2>1, <3>1, NearingGoes
  <2> QED
    BY <1>2, <2>1, NearingCallFails DEF Build
<1>3. pc \in Flagged /\ Exists(loc.it) => Item.autostart \in {None, host[loc.it].autostart}
  BY DEF Nearing, NearsAt, Exists
<1>4. CASE RefreshIsActive \/ FactPath
  <2>1. PICK to, new : /\ Read(to, new) /\ to # "next" /\ new.it = loc.it
    BY <1>0, <1>4 DEF RefreshIsActive, FactPath, Locals
  <2>2. pc \in Flagged
    BY <1>4 DEF RefreshIsActive, FactPath, Flagged, Reporting
  <2>3. Exists(loc.it) => NearsAt(to, new, host)
    BY <1>3, <2>1, <2>2 DEF NearsAt, Exists
  <2> QED
    BY <2>1, <2>3, NearingReads
<1>5. CASE Refresh
  <2>1. PICK possible, new : /\ Call("factName", possible, host[loc.it], new) /\ new.it = loc.it
    BY <1>0, <1>5 DEF Refresh, Locals
  <2>2. pc \in Flagged
    BY <1>5 DEF Refresh, Flagged, Reporting
  <2> QED
    BY <1>0, <1>3, <2>1, <2>2, NearingCalls
<1>6. ASSUME DefinePool \/ ApplyRunState PROVE Nears
  BY <1>0, <1>6, NearingStep DEF Nearing, DefinePool, ApplyRunState, AfterRunState
<1> QED
  BY <1>0, <1>1, <1>2, <1>4, <1>5, <1>6, NearingStep DEF Nearing, ReconcilePool

LEMMA TaskInPlay ==
  ASSUME Inv, Running
  PROVE  /\ t \in PoolTasks(play) /\ t \in Nat /\ Len(items) \in Nat /\ play \in Plays
         /\ \A k \in PoolTasks(play) : k \in Nat
<1>1. t \in 1..Len(play) /\ Len(play) \in Nat /\ play \in Plays /\ play \in Seq(PlayTasks)
  BY TypeListing, PlaysType DEF Inv, Running
<1>2. play[t] \in PlayTasks
  BY <1>1
<1>3. items \in Seq(PoolSpecs)
  BY <1>2 DEF PlayTasks, Running
<1> QED
  BY <1>1, <1>3 DEF PoolTasks, Running

\* Specs of a play for one pool are met together.
LEMMA MetTogether ==
  ASSUME Agreeing, Inv, Running, pc \in Working,
         NEW k \in PoolTasks(play), NEW n \in 1..Len(play[k].specs),
         play[k].specs[n].name = Item.name
  PROVE  \A h : SpecMet(play[k].specs[n], h) <=> SpecMet(Item, h)
<1>1. t \in PoolTasks(play) /\ play \in Plays /\ i \in 1..Len(items) /\ items = play[t].specs
  BY TaskInPlay, TypeListing DEF Inv, RunTypes, Working, Running
<1>2. play[k].specs[n].state = Item.state /\ play[k].specs[n].autostart = Item.autostart
  BY <1>1 DEF Agreeing, Item
<1> QED
  BY <1>2 DEF SpecMet, AsAsked

\* While an item is in work, what has been dealt with stays met.
LEMMA BehindKept ==
  ASSUME Agreeing, Inv, ReconcilePool, UNCHANGED roles, Silent, quiet, ~check,
         NEW k \in PoolTasks(play), NEW n \in 1..Len(play[k].specs), Behind(k, n)
  PROVE  SpecMet(play[k].specs[n], host')
<1>0. Stepped /\ Ready /\ Running /\ pc \in Working
  BY ReconcileStepped, WorkingHere
<1>1. SpecMet(play[k].specs[n], host) /\ (Repeats => Resting)
  BY <1>0 DEF Silent, Working
<1>2. CASE play[k].specs[n].name = Item.name
  <2>1. Repeats /\ SpecMet(Item, host)
    BY <1>0, <1>1, <1>2, MetTogether DEF Repeats
  <2>2. UNCHANGED host
    BY <1>1, <2>1, PoolRests DEF Rests
  <2> QED
    BY <1>1, <2>2
<1>3. CASE play[k].specs[n].name # Item.name
  BY <1>0, <1>1, <1>3, SteppedOthers
<1> QED
  BY <1>2, <1>3

LEMMA ReconcileSilent ==
  ASSUME Agreeing, Inv, Silent, ReconcilePool, UNCHANGED roles
  PROVE  Silent'
<1>0. /\ Stepped /\ Ready /\ Running /\ pc \in Working /\ UNCHANGED <<items, i, check>>
      /\ pc' \in Working \cup {"next"} /\ check \in BOOLEAN /\ quiet \in BOOLEAN
      /\ i \in 1..Len(items) /\ Len(entries) = i - 1 /\ Len(items) \in Nat /\ ModuleTypes
      /\ UNCHANGED <<play, t, quiet, settled>> /\ t \in PoolTasks(play) /\ items = play[t].specs
  <2>1. Stepped /\ Ready /\ Running
    BY ReconcileStepped
  <2>2. pc \in Working
    BY <2>1, WorkingHere
  <2>3. /\ UNCHANGED <<items, i, check>> /\ pc' \in Working \cup {"next"} /\ ModuleTypes
    BY <2>1, SteppedInv, WorkingHere
  <2>4. i \in 1..Len(items) /\ Len(entries) = i - 1 /\ check \in BOOLEAN
    BY <2>2, <2>3 DEF ModuleTypes, RunTypes, Working
  <2>5. UNCHANGED <<play, t, quiet, settled>> /\ quiet \in BOOLEAN /\ items = play[t].specs
    BY <2>1 DEF roles, Running, Inv, TypeOK
  <2>6. t \in PoolTasks(play) /\ Len(items) \in Nat
    BY <2>1, TaskInPlay
  <2> QED
    BY <2>1, <2>2, <2>3, <2>4, <2>5, <2>6
<1>1. ASSUME settled
      PROVE  /\ \A k \in PoolTasks(play') : AllMet(play'[k].specs, host')
             /\ pc' \in Working => Resting'
             /\ pc' = "next" /\ entries'[i'].changed => Item'.refresh
  <2>1. Resting /\ SpecMet(Item, host) /\ \A k \in PoolTasks(play) : AllMet(play[k].specs, host)
    BY <1>0, <1>1 DEF Silent, Item, AllMet
  <2>2. Rests(Item.refresh)
    BY <2>1, PoolRests
  <2>3. CASE pc' = "next"
    <3>1. PICK e : EndItem(e) /\ (e.changed => Item.refresh)
      BY <2>2, <2>3 DEF Rests, RestsAt, Reporting
    <3>2. entries'[i] = e
      BY <1>0, <3>1, EntriesGrow
    <3> QED
      BY <1>0, <2>1, <2>2, <2>3, <3>1, <3>2 DEF Rests, Item, Working
  <2>4. CASE pc' # "next"
    BY <1>0, <2>1, <2>2, <2>4 DEF Rests, Resting, Item
  <2> QED
    BY <2>3, <2>4
<1>2. ASSUME quiet, ~check
      PROVE  /\ \A k \in PoolTasks(play') : \A n \in 1..Len(play'[k].specs) :
                  Behind(k, n)' => SpecMet(play'[k].specs[n], host')
             /\ pc' \in Working => Nearing' /\ (Repeats' => Resting')
  <2>1. Nearing /\ (Repeats => Resting)
    BY <1>0, <1>2 DEF Silent, Working
  <2>2. Nears
    BY <1>2, <2>1, PoolNears
  <2>3. CASE pc' = "next"
    <3>1. PICK e : EndItem(e) /\ (e.failed \/ (UNCHANGED host /\ SpecMet(Item, host)))
      BY <2>2, <2>3 DEF Nears
    <3>2. /\ Len(entries') = i /\ entries'[i] = e
          /\ \A j \in 1..(i - 1) : entries'[j] = entries[j]
      BY <1>0, <3>1, EntriesGrow
    <3>3. ASSUME NEW k \in PoolTasks(play), NEW n \in 1..Len(play[k].specs), Behind(k, n)'
          PROVE  SpecMet(play[k].specs[n], host')
      <4>1. CASE k = t /\ n = i
        <5>1. ~e.failed
          BY <1>0, <3>2, <3>3, <4>1, TaskInPlay DEF Behind
        <5> QED
          BY <1>0, <3>1, <4>1, <5>1 DEF Item
      <4>2. CASE ~(k = t /\ n = i)
        <5>1. Behind(k, n)
          BY <1>0, <3>2, <3>3, <4>2 DEF Behind
        <5> QED
          BY <1>2, <5>1, BehindKept
      <4> QED
        BY <4>1, <4>2
    <3> QED
      BY <1>0, <2>3, <3>3 DEF Working
  <2>4. CASE pc' # "next"
    <3>1. pc' \in Working /\ NearsAt(pc', loc', host') /\ UNCHANGED <<alone, items, i, entries>>
      BY <1>0, <2>2, <2>4 DEF Nears
    <3>2. Nearing'
      BY <2>1, <3>1 DEF Nearing, NearsAt, Item
    <3>3. \A k, n : Behind(k, n)' <=> Behind(k, n)
      BY <1>0, <3>1 DEF Behind
    <3>4. ASSUME Repeats' PROVE Resting'
      <4>1. Repeats
        BY <1>0, <3>1, <3>3, <3>4 DEF Repeats, Item
      <4>2. SpecMet(Item, host)
        BY <1>0, <1>2, <4>1, MetTogether DEF Repeats, Silent, Working
      <4>3. Rests(Item.refresh)
        BY <2>1, <4>1, <4>2, PoolRests
      <4> QED
        BY <1>0, <2>4, <4>3 DEF Rests, Resting, Item
    <3>5. ASSUME NEW k \in PoolTasks(play), NEW n \in 1..Len(play[k].specs), Behind(k, n)'
          PROVE  SpecMet(play[k].specs[n], host')
      BY <1>2, <3>3, <3>5, BehindKept
    <3> QED
      BY <1>0, <3>2, <3>4, <3>5
  <2> QED
    BY <2>3, <2>4
<1> QED
  BY <1>0, <1>1, <1>2 DEF Silent

LEMMA ItemUpRests ==
  ASSUME NEW n, ItemUp(n)
  PROVE  Resting' /\ Nearing' /\ pc' = "lookup" /\ i' = n
  BY DEF ItemUp, Resting, Nearing, RestsAt, NearsAt, Flagged, NoLocals, Reporting

LEMMA NextItemSilent ==
  ASSUME Inv, Silent, NextItem, UNCHANGED roles
  PROVE  Silent'
<1>1. /\ pc = "next" /\ UNCHANGED <<host, check, entries, play, t, quiet, settled>>
      /\ Resting' /\ Nearing' /\ pc' = "lookup"
  BY ItemUpRests DEF NextItem, roles
<1>2. \A k, n : Behind(k, n)' => Behind(k, n)
  BY <1>1 DEF Behind
<1> QED
  BY <1>1, <1>2 DEF Silent, Working

\* A task starts: the play is where it was, and nothing of it is dealt with.
LEMMA BeginTaskSilent ==
  ASSUME Inv, Silent, BeginTask
  PROVE  Silent'
<1>1. /\ pc = "task" /\ UNCHANGED <<host, check, play, t, quiet, settled>>
      /\ Resting' /\ Nearing' /\ pc' = "lookup" /\ entries' = <<>>
  BY ItemUpRests DEF BeginTask, BeginRun, roles, At
<1>2. \A k : \A n \in 1..Len(play[k].specs) : Behind(k, n)' => Behind(k, n)
  BY <1>1 DEF Behind
<1> QED
  BY <1>1, <1>2 DEF Silent, Working

\* The play goes on: the task that it leaves behind has left its specs met.
LEMMA NextTaskSilent ==
  ASSUME Inv, Silent, pc \in {"task", "next"}, NextTask,
         quiet /\ ~check /\ t \in PoolTasks(play) => AllMet(play[t].specs, host)
  PROVE  Silent'
<1>1. /\ pc' = "task" /\ t' = t + 1 /\ t \in Nat
      /\ UNCHANGED <<host, check, play, quiet, settled>>
  BY TypeListing DEF NextTask, process, Inv
<1>2. ASSUME quiet, ~check, NEW k \in PoolTasks(play), NEW n \in 1..Len(play[k].specs),
             Behind(k, n)'
      PROVE  SpecMet(play[k].specs[n], host)
  <2>1. k \in Nat /\ k < t + 1
    BY <1>1, <1>2 DEF Behind, Working, PoolTasks
  <2>2. CASE k = t
    BY <1>2, <2>2 DEF AllMet
  <2>3. CASE k < t
    BY <1>2, <2>3 DEF Silent, Behind
  <2> QED
    BY <1>1, <2>1, <2>2, <2>3
<1> QED
  BY <1>1, <1>2 DEF Silent, Working

LEMMA FailedSilent ==
  ASSUME EndPlayWith("failed")
  PROVE  Silent'
<1>1. pc' = "idle" /\ ~settled'
  BY DEF EndPlayWith
<1> QED
  BY <1>1 DEF Silent

LEMMA EndPlaySilent ==
  ASSUME Inv, Silent, EndPlay
  PROVE  Silent'
<1>1. /\ pc = "task" /\ pc' = "idle" /\ t > Len(play) /\ UNCHANGED <<host, play>>
      /\ check => settled' = settled
      /\ ~check => settled' = quiet
  <2>1. pc = "task" /\ t > Len(play) /\ EndPlayWith("ok") /\ quiet \in BOOLEAN
    BY DEF EndPlay, Inv, TypeOK
  <2>2. pc' = "idle" /\ UNCHANGED <<host, play>>
    BY <2>1 DEF EndPlayWith
  <2>3. settled' = IF check /\ "ok" = "ok" THEN settled ELSE "ok" = "ok" /\ quiet
    BY <2>1 DEF EndPlayWith
  <2>4. ("ok" = "ok" /\ quiet) = quiet
    BY <2>1
  <2> QED
    BY <2>1, <2>2, <2>3, <2>4
<1>2. ASSUME settled', NEW k \in PoolTasks(play)
      PROVE  AllMet(play[k].specs, host)
  <2>1. k < t
    BY <1>1, TypeListing DEF PoolTasks, Inv
  <2> QED
    BY <1>1, <1>2, <2>1 DEF Silent, Behind, AllMet
<1> QED
  BY <1>1, <1>2 DEF Silent, Working

LEMMA EndTaskSilent ==
  ASSUME Inv, Silent, EndTask
  PROVE  Silent'
<1>1. CASE AllOk /\ NextTask
  <2>1. pc = "next" /\ i = Len(items) /\ Running
    BY DEF EndTask, Finishing, Inv, Working
  <2>2. items = play[t].specs /\ Len(items) \in Nat /\ t \in PoolTasks(play)
    BY <2>1, TaskInPlay DEF Running
  <2>3. Len(entries) = i /\ entries \in Seq(Entry)
    BY <2>1, TypeListing DEF Inv, RunTypes
  <2>4. \A n \in 1..Len(items) : Behind(t, n)
    BY <1>1, <2>1, <2>2, <2>3 DEF Behind, AllOk
  <2>5. quiet /\ ~check => AllMet(play[t].specs, host)
    BY <2>1, <2>2, <2>4 DEF Silent, AllMet
  <2> QED
    BY <1>1, <2>1, <2>5, NextTaskSilent
<1> QED
  BY <1>1, FailedSilent DEF EndTask

\* The refresh that is skipped asks for nothing that the first task has not seen to.
LEMMA SkipRefreshSilent ==
  ASSUME Inv, Silent, SkipRefresh
  PROVE  Silent'
<1>1. pc = "task" /\ play = ImagesPlay /\ t = 3 /\ NextTask
  BY TaskOp, PoolTask DEF SkipRefresh
<1>2. ASSUME quiet, ~check
      PROVE  AllMet(play[3].specs, host)
  <2>1. 1 \in PoolTasks(play) /\ Len(play[1].specs) = 1 /\ play[1].specs[1] = Ask("active", FALSE)
    BY <1>1, ImagesPlayIs DEF PoolTasks
  <2>2. SpecMet(Ask("active", FALSE), host)
    <3>1. 1 \in 1..Len(play[1].specs) /\ Behind(1, 1) /\ pc # "idle"
      BY <1>1, <2>1 DEF Behind
    <3> QED
      BY <1>2, <2>1, <3>1 DEF Silent
  <2>3. SpecMet(Ask("active", TRUE), host)
    BY <2>2 DEF Ask, SpecMet, AsAsked
  <2>4. Len(play[3].specs) = 1 /\ play[3].specs[1] = Ask("active", TRUE)
    BY <1>1, ImagesPlayIs
  <2>5. \A j \in 1..Len(play[3].specs) : j = 1
    BY <2>4
  <2>6. \A j \in 1..Len(play[3].specs) : SpecMet(play[3].specs[j], host)
    BY <2>3, <2>4, <2>5
  <2> QED
    BY <2>6 DEF AllMet
<1> QED
  BY <1>1, <1>2, NextTaskSilent

LEMMA OtherTasksSilent ==
  ASSUME Inv, Silent, MakeDirs \/ Download
  PROVE  Silent'
<1>1. pc = "task" /\ t \notin PoolTasks(play)
  BY TaskOp DEF MakeDirs, Download, PoolTasks
<1> QED
  BY <1>1, NextTaskSilent, FailedSilent DEF MakeDirs, Download

LEMMA NextSilent ==
  ASSUME Agreeing, Inv, Silent, [Next]_vars
  PROVE  Silent'
<1>1. CASE UNCHANGED vars
  <2>1. (Resting' <=> Resting) /\ (Nearing' <=> Nearing) /\ \A k, n : Behind(k, n)' <=> Behind(k, n)
    BY <1>1 DEF vars, Resting, Nearing, NearsAt, Behind, Item
  <2> QED
    BY <1>1, <2>1 DEF vars, Silent, Repeats, Item
<1>2. CASE Kill
  BY <1>2, FailedSilent DEF Kill
<1>3. ASSUME NEW c \in BOOLEAN, BeginPlay(c) PROVE Silent'
  <2>1. /\ pc' = "task" /\ t' = 1 /\ UNCHANGED host
        /\ settled' => settled /\ UNCHANGED play
    BY <1>3 DEF BeginPlay
  <2>2. \A k \in PoolTasks(play') : \A n : ~Behind(k, n)'
    BY <2>1 DEF Behind, PoolTasks, Working
  <2> QED
    BY <2>1, <2>2 DEF Silent, Working
<1>4. CASE Clients
  BY <1>4 DEF Clients, Silent
<1> QED
  BY <1>1, <1>2, <1>3, <1>4, ReconcileSilent, NextItemSilent, OtherTasksSilent, BeginTaskSilent,
     SkipRefreshSilent, EndTaskSilent, EndPlaySilent DEF Next, Steps

\* A play that asks for each pool in one way only is silent when it is run again after
\* it has succeeded undisturbed, dry or not, but for refreshes: every task leaves its
\* pools as asked, no later task or item takes that back, the refresh that is skipped
\* included, and a pool that is as asked gives the module nothing to do
\* (libvirt_pool.py:243-346, roles/base_images/tasks/configure.yml:3-36).
THEOREM RerunsSilently == Agreeing => (RolesSpec => []PlayIdempotent)
<1> SUFFICES ASSUME Agreeing PROVE RolesSpec => []PlayIdempotent
  OBVIOUS
<1>1. Init => Silent
  BY DEF Init, Silent
<1>2. Inv /\ Silent /\ [Next]_vars => Silent'
  BY NextSilent
<1>3. Silent => PlayIdempotent
  BY DEF Silent, PlayIdempotent
<1> QED
  BY <1>1, <1>2, <1>3, Invariance, PTL DEF RolesSpec
=============================================================================
