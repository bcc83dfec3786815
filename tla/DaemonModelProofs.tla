-------------------------- MODULE DaemonModelProofs --------------------------
(***************************************************************************)
(* Proofs about DaemonModel for any units, however they enable, stop and   *)
(* start each other, any settings, plays, failures and clients: the plays  *)
(* are well typed; a unit task that succeeds with nobody else at work      *)
(* leaves all its units as asked and says changed exactly when something   *)
(* changed, although it decides on each unit from a status it read before  *)
(* it touched the others; daemons have read the configuration of a play    *)
(* that succeeds; where the units of the two daemon models are apart, a    *)
(* play repeated changes nothing, and dependent plays keep the model.      *)
(***************************************************************************)
EXTENDS DaemonModel, RoleFilterProofs, TLAPS

TaskPCs == {"status", "unit", "half", "result"}

\* A handler that is notified will be flushed.
FlushIn(list, n) == \E m \in n..Len(list) : list[m].op = "flush"
FlushFrom(n) == FlushIn(Tasks, n)

\* Where a play is, and what it may have notified.
Stage ==
  /\ pc = "idle" => pending = {}
  /\ pc \in {"prepare", "render"} => pending = {} /\ t = 1
  /\ pc = "render" => play.role = "libvirt"
  /\ pc \notin {"idle", "prepare", "render"} /\ pending # {} => FlushFrom(t)
  /\ pc \in TaskPCs => t <= Len(Tasks) /\ task = Tasks[t] /\ task.op \in Ops

\* Where the task is in its list of units.
Place ==
  /\ IsList(task.units)
  /\ pc = "status" => k = 1 /\ entries = <<>> /\ Len(task.units) > 0 /\ task.op # "ensure"
  /\ pc \in {"unit", "half"} => k <= Len(task.units)
  /\ pc = "half" => task.op \in {"enable", "disable"} /\ Unit \in Units

-----------------------------------------------------------------------------
(* What a task has done so far, with unit files f and units in states r *)

Clean == \A j \in DOMAIN entries : ~entries[j].failed
Changed == \E j \in DOMAIN entries : entries[j].changed

\* The only ways in which the files and states of units move from x to y.
FileMoves(op, x, y) ==
  \/ op = "enable" /\ (x = "masked" \/ (x = "disabled" /\ y = "enabled"))
  \/ op = "disable" /\ x = "enabled" /\ y = "disabled"
  \/ op = "ensure" /\ x = "disabled" /\ y = "enabled"

RunMoves(op, y) ==
  \/ op \in {"disable", "stop"} /\ y = "inactive"
  \/ op \in {"start", "ensure"} /\ y = "active"

Moved(op, f, r) ==
  \A u \in Units :
    /\ f[u] = before[1][u] \/ FileMoves(op, before[1][u], f[u])
    /\ r[u] = before[2][u] \/ RunMoves(op, r[u])

AsAsked(op, u, f, r) ==
  /\ op = "enable" => f[u] = "enabled"
  /\ op = "disable" => f[u] # "enabled" /\ r[u] # "active"
  /\ op = "start" => r[u] = "active"
  /\ op = "stop" => r[u] # "active"
  /\ op = "ensure" => f[u] = "enabled" /\ r[u] # "inactive"

\* The units before the n-th are as asked; between its two calls, the n-th is not.
Reached(n) ==
  \A j \in 1..n :
    task.units[j] \in Units =>
      \/ AsAsked(task.op, task.units[j], file, run)
      \/ pc = "half" /\ task.units[j] = Unit

StatusIsOld ==
  \A u \in Units :
    /\ status[u].enabled = (before[1][u] = "enabled")
    /\ status[u].masked = (before[1][u] = "masked")
    /\ status[u].active = (before[2][u] = "active")

\* What the first of two calls has done.
Halved ==
  /\ task.op = "enable" => Was.masked /\ file[Unit] = "disabled"
  /\ task.op = "disable" => Was.active /\ run[Unit] = "inactive"

Progress ==
  /\ before \in [Units -> FileStates] \X [Units -> RunStates]
  /\ pc = "status" => host = before
  /\ Moved(task.op, file, run)
  /\ IF Changed \/ pc = "half" THEN host # before ELSE host = before
  /\ pc \in {"unit", "half"} => Reached(k - 1)
  /\ pc \in {"unit", "half"} /\ task.op # "ensure" => StatusIsOld
  /\ pc = "half" => Halved
  /\ pc = "result" => Reached(Len(task.units))

Inv ==
  /\ TypeOK /\ Stage /\ Place
  /\ calm /\ Clean /\ pc \in TaskPCs => Progress

-----------------------------------------------------------------------------
(* The tasks of a play *)

Sound(x) == x.op \in Ops \cup {"flush", "remote"} /\ IsList(x.units)

LEMMA SeqIsList ==
  ASSUME NEW S, NEW s \in Seq(S)
  PROVE  IsList(s)
  BY DEF IsList

LEMMA SettingsOf ==
  ASSUME NEW p \in Plays, p.role = "libvirt"
  PROVE  p.with \in Settings
  BY PlaysAssumption DEF Plays, LibvirtPlays

\* The lists that the filters make of the role's variables are lists.
LEMMA ModularLists ==
  ASSUME NEW s \in Settings
  PROVE  /\ IsList(Monolithic) /\ IsList(proxy_services)
         /\ IsList(libvirt_proxy_daemons(s.listen))
         /\ IsList(modular_sockets(s.services)) /\ IsList(modular_services(s.services))
         /\ IsList(modular_daemons_off(s.services))
<1>1. IsList(Monolithic)
  BY DEF Monolithic, IsList
<1>2. \A list : IsSequence(list) <=> IsList(list)
  BY DEF IsSequence, IsList
<1>3. IsSequence(s.services)
  BY <1>2, PlaysAssumption
<1> QED
  BY <1>1, <1>2, <1>3, ProxyUnits, SocketsListed, ServicesListed, OffListed

LEMMA ModularSound ==
  ASSUME NEW s \in Settings
  PROVE  LET list == ModularTasks(s)
         IN  /\ Len(list) \in Nat
             /\ \A n \in 1..Len(list) : Sound(list[n]) /\ list[n].op # "remote"
             /\ Len(list) > 0 /\ list[Len(list)].op = "flush"
<1> DEFINE a == Task("disable", Monolithic)
           b == Task("enable", modular_sockets(s.services))
           c == Task("enable", modular_services(s.services))
           d == Task("enable", libvirt_proxy_daemons(s.listen))
           e == Task("start", proxy_services)
           f == Task("flush", <<>>)
           list == ModularTasks(s)
<1>1. IsList(<<>>)
  BY DEF IsList
<1>2. /\ Sound(a) /\ a.op # "remote" /\ Sound(b) /\ b.op # "remote"
      /\ Sound(c) /\ c.op # "remote" /\ Sound(d) /\ d.op # "remote"
      /\ Sound(e) /\ e.op # "remote" /\ Sound(f) /\ f.op = "flush"
  BY <1>1, ModularLists DEF Sound, Task, Ops
<1>3. list = <<a, b, c>> \o (IF s.listen = {} THEN <<>> ELSE <<d, e>>) \o <<f>>
  BY DEF ModularTasks
<1> HIDE DEF a, b, c, d, e, f, list
<1>4. CASE s.listen = {}
  <2>1. list = (<<a, b, c>> \o <<>>) \o <<f>>
    BY <1>3, <1>4
  <2>2. Len(list) = 4 /\ list[1] = a /\ list[2] = b /\ list[3] = c /\ list[4] = f
    BY <2>1
  <2>3. \A n \in 1..4 : n = 1 \/ n = 2 \/ n = 3 \/ n = 4
    OBVIOUS
  <2> QED
    BY <1>2, <2>2, <2>3 DEF list
<1>5. CASE s.listen # {}
  <2>1. list = (<<a, b, c>> \o <<d, e>>) \o <<f>>
    BY <1>3, <1>5
  <2>2. /\ Len(list) = 6 /\ list[1] = a /\ list[2] = b /\ list[3] = c
        /\ list[4] = d /\ list[5] = e /\ list[6] = f
    BY <2>1
  <2>3. \A n \in 1..6 : n = 1 \/ n = 2 \/ n = 3 \/ n = 4 \/ n = 5 \/ n = 6
    OBVIOUS
  <2> QED
    BY <1>2, <2>2, <2>3 DEF list
<1> QED
  BY <1>4, <1>5

LEMMA MonolithicSound ==
  ASSUME NEW s \in Settings
  PROVE  LET list == MonolithicTasks(s)
         IN  /\ Len(list) \in Nat
             /\ \A n \in 1..Len(list) :
                  /\ Sound(list[n])
                  /\ n = 1 \/ list[n].op = "remote"
                     => \E m \in (n + 1)..Len(list) : list[m].op = "flush"
                  /\ list[n].op = "remote" => list[n].units[1] \in Remotes
             /\ Len(list) > 0
<1> DEFINE a == Task("disable", modular_daemons_off(s.services))
           b == Task("remote", <<<<"libvirtd", "tcp">>>>)
           c == Task("remote", <<<<"libvirtd", "tls">>>>)
           f == Task("flush", <<>>)
           e == Task("ensure", <<Libvirtd>>)
           list == MonolithicTasks(s)
<1>1. IsList(<<<<"libvirtd", "tcp">>>>) /\ IsList(<<<<"libvirtd", "tls">>>>)
      /\ IsList(<<Libvirtd>>) /\ IsList(<<>>)
  BY DEF IsList
<1>2. /\ Sound(a) /\ a.op = "disable" /\ Sound(b) /\ Sound(c)
      /\ Sound(f) /\ f.op = "flush" /\ Sound(e) /\ e.op = "ensure"
      /\ b.units[1] \in Remotes /\ c.units[1] \in Remotes
  BY <1>1, ModularLists DEF Sound, Task, Ops, Remotes
<1>3. list = <<a>> \o (IF LibvirtdWanted(s) THEN <<b, c, f, e>> ELSE <<f>>)
  BY DEF MonolithicTasks
<1> HIDE DEF a, b, c, e, f, list
<1>4. CASE LibvirtdWanted(s)
  <2>1. list = <<a>> \o <<b, c, f, e>>
    BY <1>3, <1>4
  <2>2. /\ Len(list) = 5 /\ list[1] = a /\ list[2] = b /\ list[3] = c
        /\ list[4] = f /\ list[5] = e
    BY <2>1
  <2>3. \A n \in 1..5 : n = 1 \/ n = 2 \/ n = 3 \/ n = 4 \/ n = 5
    OBVIOUS
  <2> QED
    BY <1>2, <2>2, <2>3 DEF list
<1>5. CASE ~LibvirtdWanted(s)
  <2>1. list = <<a>> \o <<f>>
    BY <1>3, <1>5
  <2>2. Len(list) = 2 /\ list[1] = a /\ list[2] = f
    BY <2>1
  <2>3. \A n \in 1..2 : n = 1 \/ n = 2
    OBVIOUS
  <2> QED
    BY <1>2, <2>2, <2>3 DEF list
<1> QED
  BY <1>4, <1>5

LEMMA TasksOfSound ==
  ASSUME NEW p \in Plays, NEW m \in BOOLEAN
  PROVE  LET list == TasksOf(p, m)
         IN  /\ Len(list) \in Nat
             /\ \A n \in 1..Len(list) :
                  /\ Sound(list[n])
                  /\ list[n].op = "remote" =>
                       list[n].units[1] \in Remotes /\ FlushIn(list, n + 1)
             /\ p.role = "libvirt" => FlushIn(list, 1)
<1> DEFINE list == TasksOf(p, m)
<1>1. CASE p.role = "libvirt"
  <2>1. p.with \in Settings
    BY <1>1, SettingsOf
  <2>2. CASE m
    <3>1. list = ModularTasks(p.with)
      BY <1>1, <2>2 DEF TasksOf
    <3> QED
      BY <2>1, <3>1, ModularSound DEF FlushIn
  <2>3. CASE ~m
    <3>1. list = MonolithicTasks(p.with)
      BY <1>1, <2>3 DEF TasksOf
    <3>2. 1 \in 1..Len(list) /\ Len(list) \in Nat
      BY <2>1, <3>1, MonolithicSound
    <3>3. \A n \in 1..Len(list) :
            /\ Sound(list[n])
            /\ n = 1 \/ list[n].op = "remote" => FlushIn(list, n + 1)
            /\ list[n].op = "remote" => list[n].units[1] \in Remotes
      BY <2>1, <3>1, MonolithicSound DEF FlushIn
    <3>4. FlushIn(list, 2) => FlushIn(list, 1)
      BY <3>2 DEF FlushIn
    <3> QED
      BY <3>2, <3>3, <3>4
  <2> QED
    BY <2>2, <2>3
<1>2. CASE p.role = "user"
  <2>1. p.with \in UserPlays /\ list = p.with.tasks
    BY <1>2, PlaysAssumption DEF Plays, LibvirtPlays, TasksOf
  <2>2. IsList(list) /\ \A n \in DOMAIN list : list[n].op \in Ops /\ IsList(list[n].units)
    BY <2>1, PlaysAssumption
  <2> QED
    BY <1>2, <2>2 DEF IsList, Sound, Ops
<1>3. CASE p.role \notin {"libvirt", "user"}
  <2> DEFINE units == IF m THEN <<<<"qemu", "socket">>, <<p.role, "socket">>>>
                           ELSE <<Libvirtd>>
             x == Task("ensure", units)
  <2>1. IsList(units)
    <3>1. IsList(<<Libvirtd>>)
      BY DEF IsList
    <3>2. IsList(<<<<"qemu", "socket">>, <<p.role, "socket">>>>)
      BY DEF IsList
    <3> QED
      BY <3>1, <3>2
  <2>2. list = <<x>>
    BY <1>3 DEF TasksOf
  <2>3. Sound(x) /\ x.op = "ensure"
    BY <2>1 DEF Sound, Task, Ops
  <2> HIDE DEF x
  <2>4. Len(list) = 1 /\ list[1] = x
    BY <2>2
  <2> QED
    BY <1>3, <2>3, <2>4
<1> QED
  BY <1>1, <1>2, <1>3

-----------------------------------------------------------------------------
(* Types *)

HostTypes == file \in [Units -> FileStates] /\ run \in [Units -> RunStates]

BoundTypes == faults \in 0..MaxFaults /\ meddle \in 0..MaxMeddle

PlayTypes ==
  /\ play \in Plays /\ use \in BOOLEAN /\ fact \in Maybe({"modular", "monolithic", "old"})
  /\ pending \subseteq Configured(play) \cup Remotes \cup {Pid}
  /\ outcome \in {"none", "ok", "failed"}
  /\ quiet \in BOOLEAN /\ settled \in BOOLEAN /\ kept \in Maybe(Settings)

TaskTypes ==
  /\ task.op \in Ops /\ k \in 1..(Len(task.units) + 1)
  /\ pc \in {"unit", "half"} => Len(entries) = k - 1
  /\ pc \in {"unit", "half"} /\ task.op # "ensure" => status \in [Units -> Status]
  /\ entries \in Seq(Entry) /\ calm \in BOOLEAN

LoadedTypes == loaded \subseteq {s \in Services : run[s] # "inactive"}

PCs == {"idle", "prepare", "render", "next"} \cup TaskPCs

LEMMA TypeParts ==
  TypeOK <=> /\ HostTypes /\ BoundTypes /\ PlayTypes /\ TaskTypes /\ LoadedTypes
             /\ pc \in PCs
             /\ pc # "idle" => t \in 1..(Len(Tasks) + 1)
  BY DEF TypeOK, HostTypes, BoundTypes, PlayTypes, TaskTypes, LoadedTypes, PCs, TaskPCs

LEMMA TypePartsNext ==
  TypeOK' <=> /\ HostTypes' /\ BoundTypes' /\ PlayTypes' /\ TaskTypes' /\ LoadedTypes'
              /\ pc' \in PCs
              /\ pc' # "idle" => t' \in 1..(Len(Tasks') + 1)
  BY DEF TypeOK, HostTypes, BoundTypes, PlayTypes, TaskTypes, LoadedTypes, PCs, TaskPCs

LEMMA SystemdTypes ==
  ASSUME HostTypes
  PROVE  /\ \A u : \A how \in RunStates : Starting(u, how) \in [Units -> RunStates]
         /\ \A u : Stopping(u) \in [Units -> RunStates]
         /\ \A u : \A mark \in {"enabled", "disabled"} :
              Marked(u, mark) \in [Units -> FileStates]
         /\ \A u : Unmasked(u) \in [Units -> FileStates]
         /\ \A u : Enabling(u) \in [Units -> FileStates]
  BY DEF HostTypes, Starting, Stopping, Marked, Unmasked, Enabling, RunStates, FileStates

LEMMA LoadsType ==
  ASSUME NEW r, Loads(r)
  PROVE  LoadedTypes'
  BY DEF Loads, LoadedTypes

LEMMA FaultTypes ==
  ASSUME BoundTypes, Fault \/ Meddle \/ UNCHANGED bounds
  PROVE  BoundTypes'
<1>1. MaxFaults \in Nat /\ MaxMeddle \in Nat
  BY LimitsAssumption
<1> QED
  BY <1>1 DEF BoundTypes, Fault, Meddle, bounds

-----------------------------------------------------------------------------
(* The shapes of the steps of a task *)

Reads == pc = "status" /\ pc' = "unit" /\ status' \in [Units -> Status] /\ UNCHANGED <<k, entries>>

Dies == pc = "status" /\ pc' = "result" /\ entries' = <<Error>> /\ UNCHANGED <<k, status>>

Ends(e) == pc \in {"unit", "half"} /\ EndUnit(e) /\ e \in Entry

Halts ==
  pc = "unit" /\ GoHalfway /\ task.op \in {"enable", "disable"} /\ Unit \in Units

Shaped ==
  /\ UNCHANGED <<plays, task, calm, before>>
  /\ HostTypes' /\ BoundTypes'
  /\ Reads \/ Dies \/ Halts \/ \E e : Ends(e)

InTask == pc \in {"status", "unit", "half"}

LEMMA ShapedTypes ==
  ASSUME Inv, InTask, Shaped, Loads({})
  PROVE  (TypeOK /\ Stage /\ Place)'
<1>0. /\ TypeOK /\ HostTypes /\ BoundTypes /\ PlayTypes /\ TaskTypes
      /\ t \in 1..(Len(Tasks) + 1) /\ Stage /\ Place
  BY TypeParts DEF Inv, InTask
<1>1. UNCHANGED <<play, t, use, pending, fact, outcome, quiet, settled, kept, Tasks,
                  task, calm>>
  BY DEF Shaped, plays, Tasks
<1>2. PlayTypes' /\ LoadedTypes' /\ HostTypes' /\ BoundTypes'
  BY <1>0, <1>1, LoadsType DEF PlayTypes, Shaped
<1>3. IsList(task.units) /\ Len(task.units) \in Nat
  BY <1>0 DEF Place, IsList
<1>4. pc' \in {"unit", "half", "result"} /\ TaskTypes' /\ Place'
  <2>1. CASE Reads
    BY <1>0, <1>1, <1>3, <2>1 DEF Reads, TaskTypes, Place
  <2>2. CASE Dies
    <3>1. <<Error>> \in Seq(Entry)
      BY DEF Error, Entry
    <3> QED
      BY <1>0, <1>1, <1>3, <2>2, <3>1 DEF Dies, TaskTypes, Place
  <2>3. CASE Halts
    BY <1>0, <1>1, <1>3, <2>3 DEF Halts, GoHalfway, TaskTypes, Place, Unit
  <2>4. ASSUME NEW e, Ends(e) PROVE pc' \in {"unit", "half", "result"} /\ TaskTypes' /\ Place'
    <3>1. /\ entries' \in Seq(Entry) /\ Len(entries') = k /\ k \in 1..Len(task.units)
          /\ UNCHANGED status
      BY <1>0, <1>3, <2>4 DEF Ends, EndUnit, TaskTypes, Place
    <3>2. \/ k < Len(task.units) /\ k' = k + 1 /\ pc' = "unit"
          \/ k' = k /\ pc' = "result"
      BY <2>4 DEF Ends, EndUnit
    <3> QED
      BY <1>0, <1>1, <1>3, <2>4, <3>1, <3>2 DEF Ends, TaskTypes, Place
  <2> QED
    BY <2>1, <2>2, <2>3, <2>4 DEF Shaped
<1>5. Stage'
  BY <1>0, <1>1, <1>4 DEF Stage, InTask, TaskPCs, FlushFrom, FlushIn
<1>6. TypeOK'
  BY <1>0, <1>1, <1>2, <1>4, TypePartsNext DEF PCs, TaskPCs
<1> QED
  BY <1>4, <1>5, <1>6

LEMMA UnitShaped ==
  ASSUME Inv, Apply, UNCHANGED plays
  PROVE  InTask /\ Shaped
<1>0. HostTypes /\ BoundTypes /\ Place
  BY TypeParts DEF Inv
<1>1. /\ \A x \in BOOLEAN : Done(x) \in Entry
      /\ Error \in Entry
  BY DEF Done, Error, Entry
<1>2. CASE ReadStatus
  <2>1. [u \in Units |-> [enabled |-> file[u] = "enabled", masked |-> file[u] = "masked",
                          active |-> run[u] = "active"]] \in [Units -> Status]
    BY DEF Status
  <2>2. HostTypes' /\ BoundTypes'
    BY <1>0, <1>2, FaultTypes DEF ReadStatus, host, HostTypes
  <2> QED
    BY <1>2, <2>1, <2>2 DEF ReadStatus, InTask, Shaped, Reads, Dies
<1>3. ASSUME pc \in {"unit", "half"}, NEW e \in Entry, EndUnit(e), HostTypes', BoundTypes'
      PROVE  InTask /\ Shaped
  BY <1>3 DEF InTask, Shaped, Ends, EndUnit
<1>4. ASSUME pc \in {"unit", "half"}, NEW e \in Entry, EndQuietly(e)
      PROVE  InTask /\ Shaped
  <2>1. HostTypes' /\ BoundTypes'
    BY <1>0, <1>4, FaultTypes DEF EndQuietly, host, HostTypes
  <2> QED
    BY <1>3, <1>4, <2>1 DEF EndQuietly
<1>5. ASSUME pc \in {"unit", "half"}, CallFails
      PROVE  InTask /\ Shaped
  <2>1. HostTypes' /\ BoundTypes'
    BY <1>0, <1>5, FaultTypes DEF CallFails, host, HostTypes
  <2> QED
    BY <1>1, <1>3, <1>5, <2>1 DEF CallFails
<1>6. ASSUME NEW new \in [Units -> FileStates], SetFile(new)
      PROVE  HostTypes' /\ BoundTypes'
  BY <1>0, <1>6, FaultTypes DEF SetFile, HostTypes
<1>7. ASSUME NEW new \in [Units -> RunStates], SetRun(new)
      PROVE  HostTypes' /\ BoundTypes'
  BY <1>0, <1>7, FaultTypes DEF SetRun, HostTypes
<1>8. CASE SkipAbsentUnit
  BY <1>1, <1>4, <1>8 DEF SkipAbsentUnit
<1>9. CASE Unmask
  <2>1. pc = "unit" /\ task.op = "enable" /\ Unit \in Units
    BY <1>9 DEF Unmask, AtUnit
  <2>2. CASE GoHalfway /\ SetFile(Unmasked(Unit))
    BY <1>0, <1>6, <2>1, <2>2, SystemdTypes DEF InTask, Shaped, Halts, GoHalfway
  <2> QED
    BY <1>5, <1>9, <2>1, <2>2 DEF Unmask
<1>10. CASE StopToDisable
  <2>1. pc = "unit" /\ task.op = "disable" /\ Unit \in Units
    BY <1>10 DEF StopToDisable, AtUnit
  <2>2. CASE GoHalfway /\ SetRun(Stopping(Unit))
    BY <1>0, <1>7, <2>1, <2>2, SystemdTypes DEF InTask, Shaped, Halts, GoHalfway
  <2> QED
    BY <1>5, <1>10, <2>1, <2>2 DEF StopToDisable
<1>11. CASE EnableUnit \/ DisableUnit
  <2>1. pc \in {"unit", "half"}
    BY <1>11 DEF EnableUnit, DisableUnit, AtUnit, Halfway
  <2>2. ASSUME NEW mark \in {"enabled", "disabled"}, EndUnit(Done(TRUE)),
               SetFile(Marked(Unit, mark))
        PROVE  InTask /\ Shaped
    BY <1>0, <1>1, <1>3, <1>6, <2>1, <2>2, SystemdTypes
  <2> QED
    BY <1>5, <1>11, <2>1, <2>2 DEF EnableUnit, DisableUnit
<1>12. CASE AlreadyEnabled \/ AlreadyRunning \/ AlreadyStopped
  BY <1>1, <1>4, <1>12 DEF AlreadyEnabled, AlreadyRunning, AlreadyStopped, AtUnit
<1>13. CASE AlreadyDisabled
  <2>1. pc \in {"unit", "half"} /\ task.op = "disable"
    BY <1>13 DEF AlreadyDisabled, AtUnit, Halfway
  <2>2. Unit \in Units
    BY <1>0, <1>13 DEF AlreadyDisabled, AtUnit, Halfway, Place
  <2>3. Was.active \in BOOLEAN
    BY <2>1, <2>2, TypeParts DEF Inv, TaskTypes, Was, Status
  <2> QED
    BY <1>1, <1>4, <1>13, <2>1, <2>3 DEF AlreadyDisabled
<1>14. CASE StartUnit
  <2>1. pc = "unit"
    BY <1>14 DEF StartUnit, AtUnit
  <2>2. CASE EndUnit(Done(TRUE)) /\ SetRun(Starting(Unit, "active"))
    <3>1. Starting(Unit, "active") \in [Units -> RunStates]
      BY <1>0, SystemdTypes DEF RunStates
    <3> QED
      BY <1>1, <1>3, <1>7, <2>1, <2>2, <3>1
  <2>3. CASE /\ Fault /\ EndUnit(Error)
             /\ run' = Starting(Unit, "activating") /\ UNCHANGED file
    <3>1. Starting(Unit, "activating") \in [Units -> RunStates]
      BY <1>0, SystemdTypes DEF RunStates
    <3>2. HostTypes' /\ BoundTypes'
      BY <1>0, <2>3, <3>1, FaultTypes DEF HostTypes
    <3> QED
      BY <1>1, <1>3, <2>1, <2>3, <3>2
  <2> QED
    BY <1>5, <1>14, <2>1, <2>2, <2>3 DEF StartUnit
<1>15. CASE StopUnit
  <2>1. pc = "unit"
    BY <1>15 DEF StopUnit, AtUnit
  <2>2. CASE EndUnit(Done(TRUE)) /\ SetRun(Stopping(Unit))
    BY <1>0, <1>1, <1>3, <1>7, <2>1, <2>2, SystemdTypes
  <2> QED
    BY <1>5, <1>15, <2>1, <2>2 DEF StopUnit
<1> QED
  BY <1>2, <1>8, <1>9, <1>10, <1>11, <1>12, <1>13, <1>14, <1>15 DEF Apply

LEMMA EnsureShaped ==
  ASSUME Inv, EnsureUnit
  PROVE  InTask /\ Shaped
<1>0. HostTypes /\ BoundTypes /\ pc = "unit" /\ UNCHANGED plays
  BY TypeParts DEF Inv, EnsureUnit
<1>1. /\ \A x \in BOOLEAN : Done(x) \in Entry
      /\ Error \in Entry
  BY DEF Done, Error, Entry
<1>2. Starting(Unit, "active") \in [Units -> RunStates] /\ Enabling(Unit) \in [Units -> FileStates]
  BY <1>0, SystemdTypes DEF RunStates
<1>3. HostTypes'
  BY <1>0, <1>2 DEF EnsureUnit, HostTypes, EndQuietly, host
<1>4. BoundTypes'
  BY <1>0, FaultTypes DEF EnsureUnit, EndQuietly
<1>5. \E e \in Entry : EndUnit(e)
  <2>1. (file[Unit] # "enabled" \/ run[Unit] = "inactive") \in BOOLEAN
    OBVIOUS
  <2> QED
    BY <1>1, <2>1 DEF EnsureUnit, EndQuietly
<1> QED
  BY <1>0, <1>3, <1>4, <1>5 DEF InTask, Shaped, Ends, EndUnit

-----------------------------------------------------------------------------
(* What a step within a task achieves *)

\* The files and states still differ from before in the ways the task makes them, and
\* no unit but the current one is less as asked than it was.
Onward ==
  /\ Moved(task.op, file', run')
  /\ \A u \in Units \ {Unit} :
       AsAsked(task.op, u, file, run) => AsAsked(task.op, u, file', run')

EndsWell(e) ==
  /\ Ends(e)
  /\ \/ e.failed
     \/ /\ ~e.failed /\ Onward
        /\ Unit \in Units => AsAsked(task.op, Unit, file', run')
        /\ \/ e.changed /\ host' # before
           \/ ~e.changed /\ pc = "unit" /\ UNCHANGED host

HaltsWell == Halts /\ Onward /\ Halved' /\ host' # before

StatusRead ==
  status' = [u \in Units |-> [enabled |-> file[u] = "enabled", masked |-> file[u] = "masked",
                              active |-> run[u] = "active"]]

ReadsWell == Reads /\ UNCHANGED host /\ StatusRead

Better == ReadsWell \/ Dies \/ HaltsWell \/ \E e : EndsWell(e)

LEMMA Appended ==
  ASSUME TypeOK, NEW e \in Entry, entries' = Append(entries, e)
  PROVE  /\ Clean' <=> Clean /\ ~e.failed
         /\ Changed' <=> Changed \/ e.changed
<1>1. entries \in Seq(Entry) /\ Len(entries) \in Nat
  BY DEF TypeOK
<1>2. /\ DOMAIN entries' = 1..(Len(entries) + 1) /\ DOMAIN entries = 1..Len(entries)
      /\ \A j \in 1..Len(entries) : entries'[j] = entries[j]
      /\ entries'[Len(entries) + 1] = e
  BY <1>1
<1>3. \A j \in DOMAIN entries' : j \in DOMAIN entries \/ j = Len(entries) + 1
  BY <1>1, <1>2
<1>4. \A j \in DOMAIN entries : j \in DOMAIN entries'
  BY <1>1, <1>2
<1>5. Len(entries) + 1 \in DOMAIN entries'
  BY <1>1, <1>2
<1> QED
  BY <1>2, <1>3, <1>4, <1>5 DEF Clean, Changed

LEMMA EndsOnward ==
  ASSUME Inv, InTask, Shaped, NEW e, EndsWell(e), calm', Clean'
  PROVE  Progress'
<1>0. TypeOK /\ Place /\ UNCHANGED <<task, calm, before, status>> /\ e \in Entry
      /\ pc \in {"unit", "half"} /\ k \in Nat /\ k <= Len(task.units)
      /\ IsList(task.units)
  BY DEF Inv, Shaped, EndsWell, Ends, EndUnit, TypeOK, Place
<1>1. Clean /\ ~e.failed /\ (Changed' <=> Changed \/ e.changed)
  BY <1>0, Appended DEF EndsWell, Ends, EndUnit
<1>2. Progress
  BY <1>0, <1>1 DEF Inv, TaskPCs
<1>3. /\ Onward /\ (Unit \in Units => AsAsked(task.op, Unit, file', run'))
      /\ \/ e.changed /\ host' # before
         \/ ~e.changed /\ pc = "unit" /\ UNCHANGED host
  BY <1>1 DEF EndsWell
<1>4. \A j \in 1..k : task.units[j] \in Units => AsAsked(task.op, task.units[j], file', run')
  <2> TAKE j \in 1..k
  <2> HAVE task.units[j] \in Units
  <2>1. CASE task.units[j] = Unit
    BY <1>3, <2>1
  <2>2. CASE task.units[j] # Unit
    <3>1. j \in 1..(k - 1)
      BY <1>0, <2>2 DEF Unit
    <3> QED
      BY <1>0, <1>2, <1>3, <2>2, <3>1 DEF Progress, Reached, Onward
  <2> QED
    BY <2>1, <2>2
<1>5. /\ pc' \in {"unit", "result"}
      /\ pc' = "unit" => k' = k + 1
      /\ pc' = "result" => k = Len(task.units)
  <2>1. Len(task.units) \in Nat
    BY <1>0 DEF IsList
  <2> QED
    BY <1>0, <2>1 DEF EndsWell, Ends, EndUnit
<1>6. /\ pc' = "unit" => Reached(k - 1)'
      /\ pc' = "result" => Reached(Len(task.units))'
  BY <1>0, <1>4, <1>5 DEF Reached
<1>7. IF (Changed \/ pc = "half")' THEN host' # before ELSE host' = before
  BY <1>1, <1>2, <1>3, <1>5 DEF Progress
<1>8. Moved(task.op, file, run)'
  BY <1>0, <1>3 DEF Onward, Moved
<1>9. (task.op # "ensure" => StatusIsOld)'
  BY <1>0, <1>2 DEF Progress, StatusIsOld
<1> QED
  BY <1>0, <1>2, <1>5, <1>6, <1>7, <1>8, <1>9 DEF Progress

LEMMA HaltsOnward ==
  ASSUME Inv, InTask, Shaped, HaltsWell, calm', Clean'
  PROVE  Progress'
<1>0. TypeOK /\ Place /\ UNCHANGED <<task, calm, before, status, k, entries>>
      /\ pc = "unit" /\ pc' = "half" /\ k \in Nat
  BY DEF Inv, Shaped, HaltsWell, Halts, GoHalfway, TypeOK
<1>1. Progress
  BY <1>0 DEF Inv, TaskPCs, Clean
<1>2. Reached(k - 1)'
  BY <1>0, <1>1 DEF Reached, Progress, HaltsWell, Onward, Unit
<1>3. Moved(task.op, file, run)' /\ (task.op # "ensure" => StatusIsOld)'
  BY <1>0, <1>1 DEF Progress, HaltsWell, Onward, Moved, StatusIsOld
<1> QED
  BY <1>0, <1>1, <1>2, <1>3 DEF Progress, HaltsWell

LEMMA ReadsOnward ==
  ASSUME Inv, InTask, Shaped, ReadsWell, calm', Clean'
  PROVE  Progress'
<1>0. TypeOK /\ Place /\ UNCHANGED <<task, calm, before, k, entries, host, file, run>>
      /\ pc = "status" /\ pc' = "unit" /\ k = 1
  BY DEF Inv, Shaped, ReadsWell, Reads, Place, host
<1>1. Progress
  BY <1>0 DEF Inv, TaskPCs, Clean
<1>2. Reached(k - 1)'
  BY <1>0 DEF Reached
<1>3. host = before /\ before[1] = file /\ before[2] = run
  BY <1>0, <1>1 DEF Progress, host
<1>4. StatusIsOld'
  BY <1>0, <1>3 DEF ReadsWell, StatusRead, StatusIsOld
<1>5. Moved(task.op, file, run)' /\ (Changed' <=> Changed)
  BY <1>0, <1>1 DEF Progress, Moved, Changed
<1> QED
  BY <1>0, <1>1, <1>2, <1>3, <1>4, <1>5 DEF Progress

LEMMA BetterProgress ==
  ASSUME Inv, InTask, Shaped, Better, calm', Clean'
  PROVE  Progress'
<1>1. CASE Dies
  <2>1. ~Clean'
    BY <1>1 DEF Dies, Clean, Error
  <2> QED
    BY <2>1
<1> QED
  BY <1>1, ReadsOnward, HaltsOnward, EndsOnward DEF Better

-----------------------------------------------------------------------------
(* One lemma per operation: every step does better *)

\* A task in progress, undisturbed.
Working == InTask /\ TypeOK /\ Place /\ Progress

LEMMA Failing ==
  ASSUME pc \in {"unit", "half"}, EndUnit(Error)
  PROVE  Better
<1>1. Error \in Entry /\ Error.failed
  BY DEF Error, Entry
<1> QED
  BY <1>1 DEF Better, EndsWell, Ends

LEMMA Acting ==
  ASSUME pc \in {"unit", "half"}, EndUnit(Done(TRUE)), Onward,
         AsAsked(task.op, Unit, file', run'), host' # before
  PROVE  Better
<1>1. Done(TRUE) \in Entry /\ ~Done(TRUE).failed /\ Done(TRUE).changed
  BY DEF Done, Entry
<1> QED
  BY <1>1 DEF Better, EndsWell, Ends

LEMMA Leaving ==
  ASSUME Working, pc = "unit", EndQuietly(Done(FALSE)),
         Unit \in Units => AsAsked(task.op, Unit, file, run)
  PROVE  Better
<1>1. Done(FALSE) \in Entry /\ ~Done(FALSE).failed /\ ~Done(FALSE).changed
  BY DEF Done, Entry
<1>2. UNCHANGED <<host, file, run>> /\ EndUnit(Done(FALSE))
  BY DEF EndQuietly, host
<1>3. Onward
  BY <1>2 DEF Working, Progress, Onward
<1> QED
  BY <1>1, <1>2, <1>3 DEF Better, EndsWell, Ends

\* Where a unit stands against before.
LEMMA Standing ==
  ASSUME Working, NEW u \in Units
  PROVE  /\ before[1][u] \in FileStates /\ before[2][u] \in RunStates
         /\ file[u] \in FileStates /\ run[u] \in RunStates
         /\ file[u] = before[1][u] \/ FileMoves(task.op, before[1][u], file[u])
         /\ run[u] = before[2][u] \/ RunMoves(task.op, run[u])
         /\ pc \in {"unit", "half"} /\ task.op # "ensure" =>
              /\ status[u].enabled = (before[1][u] = "enabled")
              /\ status[u].masked = (before[1][u] = "masked")
              /\ status[u].active = (before[2][u] = "active")
<1>1. before[1] \in [Units -> FileStates] /\ before[2] \in [Units -> RunStates]
  BY DEF Working, Progress
<1>2. file \in [Units -> FileStates] /\ run \in [Units -> RunStates]
  BY DEF Working, TypeOK
<1> QED
  BY <1>1, <1>2 DEF Working, Progress, Moved, StatusIsOld

LEMMA FileDiffers ==
  ASSUME NEW u \in Units, file'[u] # before[1][u]
  PROVE  host' # before
  BY DEF host

LEMMA RunDiffers ==
  ASSUME NEW u \in Units, run'[u] # before[2][u]
  PROVE  host' # before
  BY DEF host

\* Onward, unit by unit.
LEMMA OnwardIf ==
  ASSUME \A u \in Units :
           /\ file'[u] = before[1][u] \/ FileMoves(task.op, before[1][u], file'[u])
           /\ run'[u] = before[2][u] \/ RunMoves(task.op, run'[u]),
         \A u \in Units \ {Unit} :
           AsAsked(task.op, u, file, run) => AsAsked(task.op, u, file', run')
  PROVE  Onward
  BY DEF Onward, Moved

LEMMA EnableBetter ==
  ASSUME Working, Unmask \/ EnableUnit \/ AlreadyEnabled
  PROVE  Better
<1>0. /\ task.op = "enable" /\ Unit \in Units /\ pc \in {"unit", "half"}
      /\ file \in [Units -> FileStates] /\ run \in [Units -> RunStates]
  BY DEF Working, Unmask, EnableUnit, AlreadyEnabled, AtUnit, Halfway, Place, TypeOK
<1>1. CASE CallFails
  BY <1>0, <1>1, Failing DEF CallFails
<1>2. CASE Unmask /\ ~CallFails
  <2>1. Was.masked /\ pc = "unit" /\ GoHalfway /\ file' = Unmasked(Unit) /\ run' = run
    BY <1>2 DEF Unmask, AtUnit, SetFile
  <2>2. before[1][Unit] = "masked" /\ file'[Unit] = "disabled"
    BY <1>0, <2>1, Standing DEF Was, Unmasked
  <2>3. \A u \in Units \ {Unit} : file'[u] = file[u]
    BY <1>0, <2>1 DEF Unmasked
  <2>4. \A u \in Units :
          /\ file'[u] = before[1][u] \/ FileMoves(task.op, before[1][u], file'[u])
          /\ run'[u] = before[2][u] \/ RunMoves(task.op, run'[u])
    BY <1>0, <2>1, <2>2, <2>3, Standing DEF FileMoves
  <2>5. Onward
    BY <2>1, <2>3, <2>4, OnwardIf DEF AsAsked
  <2>6. host' # before
    BY <1>0, <2>2, FileDiffers
  <2>7. Halved'
    BY <1>0, <2>1, <2>2 DEF Halved, GoHalfway, Was, Unit
  <2> QED
    BY <1>0, <2>1, <2>5, <2>6, <2>7 DEF Better, HaltsWell, Halts
<1>3. CASE EnableUnit /\ ~CallFails
  <2>1. /\ ~Was.enabled /\ EndUnit(Done(TRUE))
        /\ file' = Marked(Unit, "enabled") /\ run' = run
        /\ pc = "half" \/ ~Was.masked
    BY <1>3 DEF EnableUnit, SetFile, Halfway, AtUnit
  <2>2. \A u \in Units : file'[u] = IF (u = Unit \/ u \in Also[Unit]) /\ file[u] # "masked"
                                    THEN "enabled" ELSE file[u]
    BY <2>1 DEF Marked
  <2>3. before[1][Unit] # "enabled"
    BY <1>0, <2>1, Standing DEF Was
  <2>4. file[Unit] # "masked"
    <3>1. CASE pc = "half"
      BY <1>0, <3>1 DEF Working, Progress, Halved
    <3>2. CASE ~Was.masked
      BY <1>0, <3>2, Standing DEF Was, FileMoves, FileStates
    <3> QED
      BY <2>1, <3>1, <3>2
  <2>5. file'[Unit] = "enabled"
    BY <1>0, <2>2, <2>4
  <2>6. \A u \in Units :
          /\ file'[u] = before[1][u] \/ FileMoves(task.op, before[1][u], file'[u])
          /\ run'[u] = before[2][u] \/ RunMoves(task.op, run'[u])
    BY <1>0, <2>1, <2>2, Standing DEF FileMoves, FileStates
  <2>7. Onward
    BY <1>0, <2>1, <2>2, <2>6, OnwardIf DEF AsAsked
  <2>8. host' # before
    BY <1>0, <2>3, <2>5, FileDiffers
  <2> QED
    BY <1>0, <2>1, <2>5, <2>7, <2>8, Acting DEF AsAsked
<1>4. CASE AlreadyEnabled
  <2>1. pc = "unit" /\ Was.enabled /\ EndQuietly(Done(FALSE))
    BY <1>4 DEF AlreadyEnabled, AtUnit
  <2>2. file[Unit] = "enabled"
    BY <1>0, <2>1, Standing DEF Was, FileMoves
  <2> QED
    BY <1>0, <2>1, <2>2, Leaving DEF AsAsked
<1> QED
  BY <1>1, <1>2, <1>3, <1>4

LEMMA DisableBetter ==
  ASSUME Working, StopToDisable \/ DisableUnit \/ AlreadyDisabled
  PROVE  Better
<1>0. /\ task.op = "disable" /\ Unit \in Units /\ pc \in {"unit", "half"}
      /\ file \in [Units -> FileStates] /\ run \in [Units -> RunStates]
  BY DEF Working, StopToDisable, DisableUnit, AlreadyDisabled, AtUnit, Halfway, Place, TypeOK
<1>1. CASE CallFails
  BY <1>0, <1>1, Failing DEF CallFails
<1>2. CASE StopToDisable /\ ~CallFails
  <2>1. Was.active /\ pc = "unit" /\ GoHalfway /\ run' = Stopping(Unit) /\ file' = file
    BY <1>2 DEF StopToDisable, AtUnit, SetRun
  <2>2. before[2][Unit] = "active" /\ run'[Unit] = "inactive"
    BY <1>0, <2>1, Standing DEF Was, Stopping
  <2>3. \A u \in Units : run'[u] = run[u] \/ run'[u] = "inactive"
    BY <2>1 DEF Stopping
  <2>4. \A u \in Units :
          /\ file'[u] = before[1][u] \/ FileMoves(task.op, before[1][u], file'[u])
          /\ run'[u] = before[2][u] \/ RunMoves(task.op, run'[u])
    BY <1>0, <2>1, <2>3, Standing DEF RunMoves
  <2>5. Onward
    BY <1>0, <2>1, <2>3, <2>4, OnwardIf DEF AsAsked
  <2>6. host' # before
    BY <1>0, <2>2, RunDiffers
  <2>7. Halved'
    BY <1>0, <2>1, <2>2 DEF Halved, GoHalfway, Was, Unit
  <2> QED
    BY <1>0, <2>1, <2>5, <2>6, <2>7 DEF Better, HaltsWell, Halts
<1>5. run[Unit] # "active" \/ (pc = "unit" /\ Was.active)
  <2>1. CASE pc = "half"
    BY <1>0, <2>1 DEF Working, Progress, Halved
  <2>2. CASE pc = "unit" /\ ~Was.active
    BY <1>0, <2>2, Standing DEF Was, RunMoves
  <2> QED
    BY <1>0, <2>1, <2>2
<1>3. CASE DisableUnit /\ ~CallFails
  <2>1. /\ Was.enabled /\ EndUnit(Done(TRUE))
        /\ file' = Marked(Unit, "disabled") /\ run' = run
        /\ pc = "half" \/ ~Was.active
    BY <1>3 DEF DisableUnit, SetFile, Halfway, AtUnit
  <2>2. \A u \in Units : file'[u] = IF (u = Unit \/ u \in Also[Unit]) /\ file[u] # "masked"
                                    THEN "disabled" ELSE file[u]
    BY <2>1 DEF Marked
  <2>3. before[1][Unit] = "enabled"
    BY <1>0, <2>1, Standing DEF Was
  <2>4. file'[Unit] = "disabled"
    BY <1>0, <2>2, <2>3, Standing DEF FileMoves
  <2>5. \A u \in Units :
          /\ file'[u] = before[1][u] \/ FileMoves(task.op, before[1][u], file'[u])
          /\ run'[u] = before[2][u] \/ RunMoves(task.op, run'[u])
    BY <1>0, <2>1, <2>2, Standing DEF FileMoves, FileStates
  <2>6. Onward
    BY <1>0, <2>1, <2>2, <2>5, OnwardIf DEF AsAsked
  <2>7. host' # before
    BY <1>0, <2>3, <2>4, FileDiffers
  <2> QED
    BY <1>0, <1>5, <2>1, <2>4, <2>6, <2>7, Acting DEF AsAsked
<1>4. CASE AlreadyDisabled
  <2>1. /\ ~Was.enabled /\ EndQuietly(Done(Was.active))
        /\ pc = "half" \/ ~Was.active
    BY <1>4 DEF AlreadyDisabled, Halfway, AtUnit
  <2>2. AsAsked(task.op, Unit, file, run)
    BY <1>0, <1>5, <2>1, Standing DEF Was, FileMoves, AsAsked
  <2>3. CASE pc = "unit"
    <3>1. ~Was.active /\ Was.active \in BOOLEAN
      BY <1>0, <2>1, <2>3 DEF Working, TypeOK, Was, Status
    <3>2. Was.active = FALSE
      BY <3>1
    <3> QED
      BY <2>1, <2>2, <2>3, <3>2, Leaving
  <2>4. CASE pc = "half"
    <3>1. Was.active /\ host # before
      BY <1>0, <2>4 DEF Working, Progress, Halved
    <3>2. Was.active \in BOOLEAN
      BY <1>0 DEF Working, TypeOK, Was, Status
    <3>3. Was.active = TRUE
      BY <3>1, <3>2
    <3>4. EndUnit(Done(TRUE)) /\ UNCHANGED <<host, file, run>>
      BY <2>1, <3>3 DEF EndQuietly, host
    <3>5. Onward /\ host' # before
      BY <3>1, <3>4 DEF Onward, Working, Progress
    <3> QED
      BY <1>0, <2>2, <3>4, <3>5, Acting
  <2> QED
    BY <1>0, <2>3, <2>4
<1> QED
  BY <1>1, <1>2, <1>3, <1>4

LEMMA StartBetter ==
  ASSUME Working, StartUnit \/ AlreadyRunning
  PROVE  Better
<1>0. /\ task.op = "start" /\ Unit \in Units /\ pc = "unit"
      /\ file \in [Units -> FileStates] /\ run \in [Units -> RunStates]
  BY DEF Working, StartUnit, AlreadyRunning, AtUnit, TypeOK
<1>1. CASE EndUnit(Error)
  BY <1>0, <1>1, Failing
<1>2. CASE StartUnit /\ ~EndUnit(Error)
  <2>1. ~Was.active /\ EndUnit(Done(TRUE)) /\ run' = Starting(Unit, "active") /\ file' = file
    BY <1>2 DEF StartUnit, SetRun, CallFails
  <2>2. before[2][Unit] # "active" /\ run'[Unit] = "active"
    BY <1>0, <2>1, Standing DEF Was, Starting
  <2>3. \A u \in Units : run'[u] = run[u] \/ run'[u] = "active"
    BY <2>1 DEF Starting
  <2>4. \A u \in Units :
          /\ file'[u] = before[1][u] \/ FileMoves(task.op, before[1][u], file'[u])
          /\ run'[u] = before[2][u] \/ RunMoves(task.op, run'[u])
    BY <1>0, <2>1, <2>3, Standing DEF RunMoves
  <2>5. Onward
    BY <1>0, <2>1, <2>3, <2>4, OnwardIf DEF AsAsked
  <2>6. host' # before
    BY <1>0, <2>2, RunDiffers
  <2> QED
    BY <1>0, <2>1, <2>2, <2>5, <2>6, Acting DEF AsAsked
<1>3. CASE AlreadyRunning
  <2>1. Was.active /\ EndQuietly(Done(FALSE))
    BY <1>3 DEF AlreadyRunning
  <2>2. run[Unit] = "active"
    BY <1>0, <2>1, Standing DEF Was, RunMoves
  <2> QED
    BY <1>0, <2>1, <2>2, Leaving DEF AsAsked
<1> QED
  BY <1>1, <1>2, <1>3

LEMMA StopBetter ==
  ASSUME Working, StopUnit \/ AlreadyStopped
  PROVE  Better
<1>0. /\ task.op = "stop" /\ Unit \in Units /\ pc = "unit"
      /\ file \in [Units -> FileStates] /\ run \in [Units -> RunStates]
  BY DEF Working, StopUnit, AlreadyStopped, AtUnit, TypeOK
<1>1. CASE EndUnit(Error)
  BY <1>0, <1>1, Failing
<1>2. CASE StopUnit /\ ~EndUnit(Error)
  <2>1. Was.active /\ EndUnit(Done(TRUE)) /\ run' = Stopping(Unit) /\ file' = file
    BY <1>2 DEF StopUnit, SetRun, CallFails
  <2>2. before[2][Unit] = "active" /\ run'[Unit] = "inactive"
    BY <1>0, <2>1, Standing DEF Was, Stopping
  <2>3. \A u \in Units : run'[u] = run[u] \/ run'[u] = "inactive"
    BY <2>1 DEF Stopping
  <2>4. \A u \in Units :
          /\ file'[u] = before[1][u] \/ FileMoves(task.op, before[1][u], file'[u])
          /\ run'[u] = before[2][u] \/ RunMoves(task.op, run'[u])
    BY <1>0, <2>1, <2>3, Standing DEF RunMoves
  <2>5. Onward
    BY <1>0, <2>1, <2>3, <2>4, OnwardIf DEF AsAsked
  <2>6. host' # before
    BY <1>0, <2>2, RunDiffers
  <2> QED
    BY <1>0, <2>1, <2>2, <2>5, <2>6, Acting DEF AsAsked
<1>3. CASE AlreadyStopped
  <2>1. ~Was.active /\ EndQuietly(Done(FALSE))
    BY <1>3 DEF AlreadyStopped
  <2>2. run[Unit] # "active"
    BY <1>0, <2>1, Standing DEF Was, RunMoves
  <2> QED
    BY <1>0, <2>1, <2>2, Leaving DEF AsAsked
<1> QED
  BY <1>1, <1>2, <1>3

LEMMA EnsureBetter ==
  ASSUME Working, EnsureUnit
  PROVE  Better
<1>0. /\ task.op = "ensure" /\ pc = "unit"
      /\ file \in [Units -> FileStates] /\ run \in [Units -> RunStates]
  BY DEF Working, EnsureUnit, TypeOK
<1>1. CASE EndUnit(Error)
  BY <1>0, <1>1, Failing
<1>2. CASE ~EndUnit(Error)
  <2> DEFINE new == file[Unit] # "enabled" \/ run[Unit] = "inactive"
  <2>1. /\ Unit \in Units /\ file[Unit] # "masked"
        /\ file' = Enabling(Unit)
        /\ run' = IF run[Unit] = "inactive" THEN Starting(Unit, "active") ELSE run
        /\ UNCHANGED bounds /\ EndUnit(Done(new))
    BY <1>2 DEF EnsureUnit, EndQuietly
  <2>2. CASE file[Unit] = "enabled" /\ run[Unit] # "inactive"
    <3>1. UNCHANGED host /\ new = FALSE
      BY <2>1, <2>2 DEF Enabling, host
    <3>2. EndQuietly(Done(FALSE))
      BY <2>1, <3>1 DEF EndQuietly
    <3> QED
      BY <1>0, <2>2, <3>2, Leaving DEF AsAsked
  <2>3. CASE file[Unit] # "enabled" \/ run[Unit] = "inactive"
    <3>1. new = TRUE
      BY <2>3
    <3>2. EndUnit(Done(TRUE))
      BY <2>1, <3>1
    <3>3. \A u \in Units : file'[u] = IF file[Unit] # "enabled" /\ (u = Unit \/ u \in Also[Unit])
                                         /\ file[u] # "masked"
                                      THEN "enabled" ELSE file[u]
      BY <2>1 DEF Enabling, Marked
    <3>4. \A u \in Units : run'[u] = run[u] \/ run'[u] = "active"
      BY <2>1 DEF Starting
    <3>5. file'[Unit] = "enabled" /\ run'[Unit] # "inactive"
      BY <2>1, <3>3 DEF Starting
    <3>6. \A u \in Units :
            /\ file'[u] = before[1][u] \/ FileMoves(task.op, before[1][u], file'[u])
            /\ run'[u] = before[2][u] \/ RunMoves(task.op, run'[u])
      BY <1>0, <3>3, <3>4, Standing DEF FileMoves, RunMoves, FileStates
    <3>7. Onward
      BY <1>0, <3>3, <3>4, <3>6, OnwardIf DEF AsAsked
    <3>8. host' # before
      <4>1. CASE file[Unit] # "enabled"
        <5>1. before[1][Unit] # "enabled"
          BY <1>0, <2>1, <4>1, Standing DEF FileMoves
        <5> QED
          BY <2>1, <3>5, <5>1, FileDiffers
      <4>2. CASE run[Unit] = "inactive"
        <5>1. before[2][Unit] = "inactive"
          BY <1>0, <2>1, <4>2, Standing DEF RunMoves
        <5> QED
          BY <2>1, <3>5, <5>1, RunDiffers
      <4> QED
        BY <2>3, <4>1, <4>2
    <3> QED
      BY <1>0, <3>2, <3>5, <3>7, <3>8, Acting DEF AsAsked
  <2> QED
    BY <2>2, <2>3
<1> QED
  BY <1>1, <1>2

LEMMA TaskBetter ==
  ASSUME Working, Apply \/ EnsureUnit
  PROVE  Better
<1>1. CASE ReadStatus
  <2>1. CASE pc' = "unit"
    <3>1. [u \in Units |-> [enabled |-> file[u] = "enabled", masked |-> file[u] = "masked",
                            active |-> run[u] = "active"]] \in [Units -> Status]
      BY DEF Status
    <3> QED
      BY <1>1, <2>1, <3>1 DEF ReadStatus, Better, ReadsWell, Reads, StatusRead
  <2>2. CASE pc' # "unit"
    BY <1>1, <2>2 DEF ReadStatus, Better, Dies
  <2> QED
    BY <2>1, <2>2
<1>2. CASE SkipAbsentUnit
  BY <1>2, Leaving DEF SkipAbsentUnit
<1> QED
  BY <1>1, <1>2, EnableBetter, DisableBetter, StartBetter, StopBetter, EnsureBetter DEF Apply

LEMMA CleanBefore ==
  ASSUME TypeOK, Shaped, Clean'
  PROVE  Clean
<1>1. CASE Reads \/ Halts
  BY <1>1 DEF Reads, Halts, GoHalfway, Clean
<1>2. CASE Dies
  <2>1. ~Clean'
    BY <1>2 DEF Dies, Clean, Error
  <2> QED
    BY <2>1
<1>3. ASSUME NEW e, Ends(e) PROVE Clean
  BY <1>3, Appended DEF Ends, EndUnit
<1> QED
  BY <1>1, <1>2, <1>3 DEF Shaped

LEMMA TaskInv ==
  ASSUME Inv, (Apply /\ UNCHANGED plays) \/ EnsureUnit, Loads({})
  PROVE  Inv'
<1>1. InTask /\ Shaped
  BY UnitShaped, EnsureShaped
<1>2. (TypeOK /\ Stage /\ Place)'
  BY <1>1, ShapedTypes
<1>3. ASSUME calm', Clean' PROVE Progress'
  <2>1. TypeOK /\ Place /\ calm
    BY <1>1, <1>3 DEF Inv, Shaped
  <2>2. Clean
    BY <1>1, <1>3, <2>1, CleanBefore
  <2>3. Working
    BY <1>1, <2>1, <2>2 DEF Inv, Working, InTask, TaskPCs
  <2> QED
    BY <1>1, <1>3, <2>3, TaskBetter, BetterProgress
<1> QED
  BY <1>2, <1>3 DEF Inv

-----------------------------------------------------------------------------
(* The steps of a play *)

LEMMA InvParts ==
  ASSUME Inv
  PROVE  /\ HostTypes /\ BoundTypes /\ PlayTypes /\ TaskTypes /\ LoadedTypes
         /\ pc \in PCs /\ (pc # "idle" => t \in 1..(Len(Tasks) + 1))
         /\ Stage /\ Place /\ TypeOK
  BY TypeParts DEF Inv

\* Between tasks nothing is left to show of them.
LEMMA Between ==
  ASSUME Inv, UNCHANGED service, pc' \in PCs \ TaskPCs,
         HostTypes', BoundTypes', PlayTypes', LoadedTypes',
         pc' # "idle" => t' \in 1..(Len(Tasks') + 1), Stage'
  PROVE  Inv'
<1>1. TaskTypes' /\ Place'
  BY InvParts DEF TaskTypes, Place, service, TaskPCs, Unit
<1> QED
  BY <1>1, TypePartsNext DEF Inv

LEMMA SameHost ==
  ASSUME Inv, UNCHANGED host
  PROVE  HostTypes'
  BY InvParts DEF HostTypes, host

\* A play that fails.
LEMMA FailInv ==
  ASSUME Inv, FailPlay, UNCHANGED <<host, service>>, BoundTypes', LoadedTypes'
  PROVE  Inv'
<1>1. PlayTypes'
  BY InvParts DEF PlayTypes, FailPlay, Configured
<1>2. Stage'
  BY DEF Stage, FailPlay, TaskPCs
<1> QED
  BY <1>1, <1>2, SameHost, Between DEF FailPlay, PCs, TaskPCs

LEMMA TasksInHand ==
  ASSUME Inv
  PROVE  /\ Len(Tasks) \in Nat
         /\ \A n \in 1..Len(Tasks) :
              /\ Sound(Tasks[n])
              /\ Tasks[n].op = "remote" => Tasks[n].units[1] \in Remotes /\ FlushFrom(n + 1)
  BY InvParts, TasksOfSound DEF PlayTypes, Tasks, FlushFrom

LEMMA BeginPlayInv ==
  ASSUME Inv, BeginPlay, Loads({})
  PROVE  Inv'
<1>1. pending = {} /\ PlayTypes
  BY InvParts DEF BeginPlay, Stage
<1>2. PlayTypes'
  BY <1>1 DEF BeginPlay, PlayTypes, Maybe
<1>3. t' \in 1..(Len(Tasks') + 1)
  <2>1. Len(TasksOf(play', use')) \in Nat
    BY <1>2, TasksOfSound DEF PlayTypes
  <2> QED
    BY <2>1 DEF BeginPlay, Tasks
<1>4. Stage'
  BY <1>1 DEF BeginPlay, Stage, TaskPCs
<1>5. HostTypes' /\ BoundTypes' /\ LoadedTypes'
  BY InvParts, SameHost, FaultTypes, LoadsType DEF BeginPlay
<1> QED
  BY <1>2, <1>3, <1>4, <1>5, Between DEF BeginPlay, PCs, TaskPCs

LEMMA ResolveInv ==
  ASSUME Inv, Resolve, Loads({})
  PROVE  Inv'
<1>1. /\ pc = "prepare" /\ pending = {} /\ t = 1
      /\ PlayTypes /\ UNCHANGED <<host, service>> /\ HostTypes' /\ LoadedTypes'
  BY InvParts, SameHost, LoadsType DEF Resolve, Stage
<1>2. CASE /\ play.role = "libvirt"
           /\ pc' = "render" /\ use' = UseModular(play.with) /\ fact' = Published(use')
           /\ UNCHANGED <<bounds, play, t, pending, outcome, lost, quiet, settled, kept>>
  <2>1. use' \in BOOLEAN /\ fact' \in Maybe({"modular", "monolithic", "old"})
    BY <1>2 DEF UseModular, Published, Maybe
  <2>2. PlayTypes'
    BY <1>1, <1>2, <2>1 DEF PlayTypes, Configured
  <2>3. Len(TasksOf(play', use')) \in Nat
    BY <2>2, TasksOfSound DEF PlayTypes
  <2>4. Stage' /\ t' \in 1..(Len(Tasks') + 1)
    BY <1>1, <1>2, <2>3 DEF Stage, TaskPCs, Tasks
  <2>5. BoundTypes'
    BY <1>2, InvParts, FaultTypes
  <2> QED
    BY <1>1, <1>2, <2>2, <2>4, <2>5, Between DEF PCs, TaskPCs
<1>3. CASE Fault /\ FailPlay
  <2>1. BoundTypes'
    BY <1>3, InvParts, FaultTypes
  <2> QED
    BY <1>1, <1>3, <2>1, FailInv
<1>4. CASE FailPlay /\ UNCHANGED bounds
  <2>1. BoundTypes'
    BY <1>4, InvParts, FaultTypes
  <2> QED
    BY <1>1, <1>4, <2>1, FailInv
<1>5. CASE /\ pc' = "next" /\ use' \in {use, Follow}
           /\ UNCHANGED <<bounds, play, t, pending, fact, outcome, lost, quiet, settled, kept>>
  <2>1. use' \in BOOLEAN
    BY <1>1, <1>5 DEF Follow, PlayTypes
  <2>2. PlayTypes'
    BY <1>1, <1>5, <2>1 DEF PlayTypes, Configured
  <2>3. Len(TasksOf(play', use')) \in Nat
    BY <2>2, TasksOfSound DEF PlayTypes
  <2>4. Stage' /\ t' \in 1..(Len(Tasks') + 1)
    BY <1>1, <1>5, <2>3 DEF Stage, TaskPCs, Tasks
  <2>5. BoundTypes'
    BY <1>5, InvParts, FaultTypes
  <2> QED
    BY <1>1, <1>5, <2>2, <2>4, <2>5, Between DEF PCs, TaskPCs
<1> QED
  BY <1>2, <1>3, <1>4, <1>5 DEF Resolve, plays

LEMMA RenderInv ==
  ASSUME Inv, Render, Loads({})
  PROVE  Inv'
<1> DEFINE stale == Configured(play) \ conf
<1>1. /\ pc = "render" /\ pending = {} /\ t = 1 /\ play.role = "libvirt"
      /\ PlayTypes /\ HostTypes' /\ LoadedTypes' /\ t \in 1..(Len(Tasks) + 1)
      /\ UNCHANGED <<host, service, play, t, use, fact, quiet, kept, Tasks>>
  BY InvParts, SameHost, LoadsType DEF Render, Stage, Tasks
<1>2. CASE /\ pc' = "next" /\ pending' = pending \cup stale
           /\ UNCHANGED <<bounds, outcome, lost, settled>>
  <2>1. PlayTypes'
    BY <1>1, <1>2 DEF PlayTypes, Configured
  <2>2. FlushIn(Tasks, 1)
    BY <1>1, TasksOfSound DEF PlayTypes, Tasks
  <2>3. Stage'
    BY <1>1, <1>2, <2>2 DEF Stage, TaskPCs, FlushFrom, FlushIn
  <2>4. BoundTypes'
    BY <1>2, InvParts, FaultTypes
  <2> QED
    BY <1>1, <1>2, <2>1, <2>3, <2>4, Between DEF PCs, TaskPCs
<1>3. CASE Fault /\ pc' = "idle" /\ outcome' = "failed" /\ pending' = {} /\ settled' = FALSE
  <2>1. PlayTypes'
    BY <1>1, <1>3 DEF PlayTypes, Configured
  <2>2. Stage'
    BY <1>3 DEF Stage, TaskPCs
  <2>3. BoundTypes'
    BY <1>3, InvParts, FaultTypes
  <2> QED
    BY <1>1, <1>3, <2>1, <2>2, <2>3, Between DEF PCs, TaskPCs
<1> QED
  BY <1>2, <1>3 DEF Render

LEMMA BeginTaskInv ==
  ASSUME Inv, BeginTask, Loads({})
  PROVE  Inv'
<1>1. /\ pc = "next" /\ t <= Len(Tasks) /\ Tasks[t].op \in Ops /\ t \in 1..Len(Tasks)
      /\ UNCHANGED <<host, file, run, bounds, play, t, use, pending, fact, outcome, quiet,
                     settled, kept, Tasks>>
  BY InvParts, TasksInHand DEF BeginTask, Doing, plays, Tasks, host
<1>2. IsList(Tasks[t].units) /\ Len(Tasks[t].units) \in Nat
  BY <1>1, TasksInHand DEF Sound, IsList
<1>3. /\ pc' \in {"result", "unit", "status"} /\ task' = Tasks[t]
      /\ k' = 1 /\ entries' = <<>> /\ calm' = TRUE /\ before' = host
      /\ pc' # "result" => Len(Tasks[t].units) # 0
      /\ pc' = "result" => Len(Tasks[t].units) = 0
      /\ pc' = "unit" => Tasks[t].op = "ensure"
      /\ pc' = "status" => Tasks[t].op # "ensure"
  BY DEF BeginTask
<1>4. TaskTypes' /\ Place'
  BY <1>1, <1>2, <1>3 DEF TaskTypes, Place
<1>5. Stage'
  BY <1>1, <1>3, InvParts DEF Stage, TaskPCs, FlushFrom, FlushIn
<1>6. HostTypes' /\ BoundTypes' /\ LoadedTypes' /\ PlayTypes'
  BY <1>1, InvParts, SameHost, FaultTypes, LoadsType DEF PlayTypes, Configured
<1>7. TypeOK'
  BY <1>1, <1>3, <1>4, <1>6, InvParts, TypePartsNext DEF PCs, TaskPCs
<1>8. Progress'
  <2>1. before' \in [Units -> FileStates] \X [Units -> RunStates]
    BY <1>1, <1>3, InvParts DEF HostTypes, host
  <2>2. before'[1] = file' /\ before'[2] = run' /\ host' = before'
    BY <1>1, <1>3 DEF host
  <2>3. Moved(task.op, file, run)'
    BY <2>2 DEF Moved
  <2>4. ~Changed' /\ pc' # "half"
    BY <1>3 DEF Changed
  <2>5. /\ pc' \in {"unit", "half"} => Reached(k - 1)'
        /\ pc' = "result" => Reached(Len(task.units))'
    BY <1>2, <1>3 DEF Reached
  <2> QED
    BY <1>3, <2>1, <2>2, <2>3, <2>4, <2>5 DEF Progress
<1> QED
  BY <1>4, <1>5, <1>7, <1>8 DEF Inv

LEMMA EndTaskInv ==
  ASSUME Inv, EndTask, Loads({})
  PROVE  Inv'
<1>1. /\ pc = "result" /\ UNCHANGED <<host, service, bounds>>
      /\ HostTypes' /\ BoundTypes' /\ LoadedTypes'
  BY InvParts, SameHost, FaultTypes, LoadsType DEF EndTask
<1>2. CASE FailPlay
  BY <1>1, <1>2, FailInv
<1>3. CASE /\ pc' = "next" /\ t' = t + 1
           /\ UNCHANGED <<play, use, pending, fact, outcome, lost, quiet, settled, kept>>
  <2>1. t <= Len(Tasks) /\ Tasks[t].op \in Ops /\ t \in 1..(Len(Tasks) + 1)
        /\ Len(Tasks) \in Nat
    BY <1>1, InvParts, TasksInHand DEF Stage, TaskPCs
  <2>2. UNCHANGED Tasks /\ PlayTypes'
    BY <1>3, InvParts DEF Tasks, PlayTypes, Configured
  <2>3. FlushFrom(t) => FlushFrom(t + 1)
    BY <2>1 DEF FlushFrom, FlushIn, Ops
  <2>4. Stage'
    BY <1>1, <1>3, <2>2, <2>3, InvParts DEF Stage, TaskPCs, FlushFrom, FlushIn
  <2> QED
    BY <1>1, <1>3, <2>1, <2>2, <2>4, Between DEF PCs, TaskPCs
<1> QED
  BY <1>2, <1>3 DEF EndTask, NextTask

LEMMA SetRemoteInv ==
  ASSUME Inv, SetRemote, Loads({})
  PROVE  Inv'
<1> DEFINE u == Tasks[t].units[1]
<1>1. /\ pc = "next" /\ t \in 1..Len(Tasks) /\ Tasks[t].op = "remote" /\ t' = t + 1
      /\ Len(Tasks) \in Nat
      /\ UNCHANGED <<service, run, pc, play, use, fact, outcome, settled, kept, Tasks>>
  BY InvParts, TasksInHand DEF SetRemote, Doing, NextTask, Tasks
<1>2. u \in Remotes /\ FlushFrom(t + 1)
  BY <1>1, TasksInHand
<1>3. /\ pending' \subseteq pending \cup {u, Pid} /\ quiet' \in {quiet, FALSE}
      /\ Fault \/ UNCHANGED bounds
      /\ file' = file \/ \E mark \in {"enabled", "disabled"} : file' = Marked(u, mark)
  BY DEF SetRemote
<1>4. HostTypes'
  BY <1>1, <1>3, InvParts, SystemdTypes DEF HostTypes
<1>5. PlayTypes'
  BY <1>1, <1>2, <1>3, InvParts DEF PlayTypes, Configured
<1>6. Stage'
  BY <1>1, <1>2 DEF Stage, TaskPCs, FlushFrom, FlushIn
<1>7. BoundTypes' /\ LoadedTypes'
  BY <1>3, InvParts, FaultTypes, LoadsType
<1> QED
  BY <1>1, <1>4, <1>5, <1>6, <1>7, Between DEF PCs, TaskPCs

LEMMA RunHandlerInv ==
  ASSUME Inv, RunHandler
  PROVE  Inv'
<1>1. /\ pc = "next" /\ t \in 1..Len(Tasks) /\ Tasks[t].op = "flush"
      /\ UNCHANGED service
  BY InvParts, TasksInHand DEF RunHandler, Doing
<1>2. PICK h \in pending :
        \/ /\ IF h \in Remotes THEN RestartRemote(h)
              ELSE IF h \in Restarted(play) THEN RestartDaemon(h)
              ELSE UNCHANGED host /\ Loads({})
           /\ pending' = pending \ {h}
           /\ UNCHANGED <<pc, bounds, play, t, use, fact, outcome, quiet, settled, kept>>
        \/ /\ Fault \/ UNCHANGED bounds
           /\ FailPlay /\ UNCHANGED host /\ Loads({})
  BY DEF RunHandler
<1>3. CASE (Fault \/ UNCHANGED bounds) /\ FailPlay /\ UNCHANGED host /\ Loads({})
  <2>1. BoundTypes' /\ LoadedTypes'
    BY <1>3, InvParts, FaultTypes, LoadsType
  <2> QED
    BY <1>1, <1>3, <2>1, FailInv
<1>4. CASE /\ IF h \in Remotes THEN RestartRemote(h)
              ELSE IF h \in Restarted(play) THEN RestartDaemon(h)
              ELSE UNCHANGED host /\ Loads({})
           /\ pending' = pending \ {h}
           /\ UNCHANGED <<pc, bounds, play, t, use, fact, outcome, quiet, settled, kept>>
  <2>1. \A v : RestartSocket(v) => run' \in [Units -> RunStates] /\ LoadedTypes'
    <3>1. [v \in Units |-> run[v]] = run /\ run \in [Units -> RunStates]
      BY InvParts DEF HostTypes
    <3>2. \A v : [run EXCEPT ![v] = "active"] \in [Units -> RunStates]
      BY <3>1 DEF RunStates
    <3> QED
      BY <3>2, InvParts, LoadsType DEF RestartSocket
  <2>2. \A v : /\ Stopping(v) \in [Units -> RunStates]
               /\ Starting(v, "active") \in [Units -> RunStates]
               /\ Marked(v, "enabled") \in [Units -> FileStates]
    BY InvParts, SystemdTypes DEF RunStates
  <2>3. HostTypes' /\ LoadedTypes'
    <3>1. CASE h \in Remotes
      <4>1. RestartRemote(h) /\ file' = file
        BY <1>4, <3>1 DEF RestartRemote
      <4>2. CASE h[2] \in Enabled(play.with, "libvirtd")
        BY <2>1, <4>1, <4>2, InvParts DEF RestartRemote, HostTypes
      <4>3. CASE h[2] \notin Enabled(play.with, "libvirtd")
        BY <2>2, <4>1, <4>3, InvParts, LoadsType DEF RestartRemote, HostTypes
      <4> QED
        BY <4>2, <4>3
    <3>2. CASE h \notin Remotes /\ h \in Restarted(play)
      BY <1>4, <2>1, <2>2, <3>2, InvParts, LoadsType DEF RestartDaemon, HostTypes
    <3>3. CASE h \notin Remotes /\ h \notin Restarted(play)
      BY <1>4, <3>3, SameHost, LoadsType
    <3> QED
      BY <3>1, <3>2, <3>3
  <2>4. PlayTypes' /\ BoundTypes' /\ UNCHANGED Tasks
    BY <1>4, InvParts, FaultTypes DEF PlayTypes, Configured, Tasks
  <2>5. Stage'
    BY <1>1, <1>4, <2>4 DEF Stage, TaskPCs, FlushFrom, FlushIn
  <2> QED
    BY <1>1, <1>4, <2>3, <2>4, <2>5, InvParts, Between DEF PCs, TaskPCs
<1> QED
  BY <1>2, <1>3, <1>4

LEMMA EndFlushInv ==
  ASSUME Inv, EndFlush, Loads({})
  PROVE  Inv'
<1>1. /\ pc = "next" /\ t \in 1..Len(Tasks) /\ Len(Tasks) \in Nat /\ t' = t + 1
      /\ pending = {}
      /\ UNCHANGED <<host, service, bounds, pc, play, use, pending, fact, outcome, quiet,
                     settled, kept, Tasks>>
  BY InvParts, TasksInHand DEF EndFlush, Doing, NextTask, Tasks
<1>2. PlayTypes' /\ Stage'
  BY <1>1, InvParts DEF PlayTypes, Configured, Stage, TaskPCs
<1>3. HostTypes' /\ BoundTypes' /\ LoadedTypes'
  BY <1>1, InvParts, SameHost, FaultTypes, LoadsType
<1> QED
  BY <1>1, <1>2, <1>3, Between DEF PCs, TaskPCs

LEMMA EndPlayInv ==
  ASSUME Inv, EndPlay, Loads({})
  PROVE  Inv'
<1>1. /\ pc = "next" /\ t \in Nat /\ t > Len(Tasks) /\ Len(Tasks) \in Nat
      /\ pc' = "idle" /\ UNCHANGED <<host, service, bounds, play, use, pending, fact, quiet>>
      /\ PlayTypes
  BY InvParts, TasksInHand DEF EndPlay
<1>2. pending' = {}
  <2>1. ~FlushFrom(t)
    BY <1>1 DEF FlushFrom, FlushIn
  <2> QED
    BY <1>1, <2>1, InvParts DEF Stage, TaskPCs
<1>3. PlayTypes'
  <2>1. play.role = "libvirt" => play.with \in Settings
    BY <1>1, SettingsOf DEF PlayTypes
  <2> QED
    BY <1>1, <2>1 DEF EndPlay, PlayTypes, Configured, Maybe
<1>4. Stage'
  BY <1>1, <1>2 DEF Stage, TaskPCs
<1>5. HostTypes' /\ BoundTypes' /\ LoadedTypes'
  BY <1>1, InvParts, SameHost, FaultTypes, LoadsType
<1> QED
  BY <1>1, <1>3, <1>4, <1>5, Between DEF PCs, TaskPCs

\* A client or a daemon's exit ends the calm that Progress asks for.
LEMMA OutsideInv ==
  ASSUME Inv, Outside, quiet' = FALSE, settled' = FALSE, kept' = None,
         UNCHANGED <<play, t, use, pending, conf, fact, outcome, lost>>, Loads({})
  PROVE  Inv'
<1>1. Elsewhere /\ (Meddle \/ UNCHANGED bounds)
  BY DEF Outside, ClientConnects, ComesUp, IdleExit
<1>2. run' \in [Units -> RunStates]
  BY InvParts, SystemdTypes DEF Outside, ClientConnects, ComesUp, IdleExit, RunStates, HostTypes
<1>3. /\ calm' = FALSE
      /\ UNCHANGED <<file, pc, task, status, k, entries, play, t, use, pending, fact,
                     outcome, Tasks>>
  BY <1>1 DEF Elsewhere, Tasks
<1>4. HostTypes' /\ BoundTypes' /\ LoadedTypes'
  BY <1>1, <1>2, <1>3, InvParts, FaultTypes, LoadsType DEF HostTypes
<1>5. PlayTypes' /\ TaskTypes' /\ Stage' /\ Place'
  BY <1>3, InvParts DEF PlayTypes, Configured, Maybe, TaskTypes, Stage, Place, Unit, TaskPCs,
                        FlushFrom, FlushIn
<1>6. TypeOK'
  BY <1>3, <1>4, <1>5, InvParts, TypePartsNext
<1> QED
  BY <1>3, <1>5, <1>6 DEF Inv

LEMMA InitInv == Init => Inv
<1> SUFFICES ASSUME Init PROVE Inv
  OBVIOUS
<1>1. HostTypes /\ fact \in Maybe({"modular", "monolithic", "old"})
  BY PlaysAssumption DEF Init, HostTypes
<1>2. /\ MaxFaults \in Nat /\ MaxMeddle \in Nat
  BY LimitsAssumption
<1>3. BoundTypes /\ LoadedTypes
  BY <1>2 DEF Init, BoundTypes, LoadedTypes
<1>4. play \in Plays /\ kept = None
  BY DEF Init, Plays
<1>5. PlayTypes
  BY <1>1, <1>4 DEF Init, PlayTypes, Maybe
<1>6. task.op = "stop" /\ task.units = <<>>
  BY DEF Init, Task
<1>7. TaskTypes /\ Place /\ Stage
  BY <1>6 DEF Init, TaskTypes, Place, Stage, Ops, IsList, TaskPCs
<1>8. TypeOK
  BY <1>1, <1>3, <1>5, <1>7, TypeParts DEF Init, PCs
<1> QED
  BY <1>7, <1>8 DEF Inv, Init, TaskPCs

LEMMA StutterInv ==
  ASSUME Inv, UNCHANGED vars
  PROVE  Inv'
  BY DEF Inv, vars, TypeOK, Stage, Place, Progress, Clean, Changed, Moved, Reached, AsAsked,
         StatusIsOld, Halved, FlushFrom, FlushIn, Tasks, Configured, host, Unit, Was

LEMMA NextInv ==
  ASSUME Inv, [Next]_vars
  PROVE  Inv'
<1>1. CASE Next
  BY <1>1, TaskInv, BeginPlayInv, ResolveInv, RenderInv, BeginTaskInv, EndTaskInv,
     SetRemoteInv, RunHandlerInv, EndFlushInv, EndPlayInv, OutsideInv DEF Next, Work
<1> QED
  BY <1>1, StutterInv

LEMMA Invariance == Spec => []Inv
<1>1. Inv /\ [Next]_vars => Inv'
  BY NextInv
<1> QED
  BY <1>1, InitInv, PTL DEF Spec

-----------------------------------------------------------------------------

\* Types hold of every play of the libvirt role, of the roles that depend on it and of an
\* operator; handlers are pending only for what a play configures and only until it
\* flushes them (roles/libvirt/tasks/main.yml, handlers/main.yml).
THEOREM TypeCorrect == Spec => []TypeOK
<1>1. Inv => TypeOK
  BY DEF Inv
<1> QED
  BY <1>1, Invariance, PTL

LEMMA Ended ==
  ASSUME Inv, TaskEnds, calm
  PROVE  Progress /\ pc = "result" /\ Place
  BY DEF Inv, TaskEnds, Clean, TaskPCs

\* A task that succeeds undisturbed says changed exactly when systemd's state changed,
\* whatever units it lists, twice or missing among them, and however they enable, disable
\* and stop each other (module_utils/libvirt_service.py:98-210).
THEOREM ReportsChanges == Spec => []TaskChangedExact
<1>1. Inv => TaskChangedExact
  BY Ended DEF TaskChangedExact, Progress, Changed
<1> QED
  BY <1>1, Invariance, PTL

\* And it leaves every unit it lists as asked, although the status it goes by was read
\* before it touched any of them (module_utils/libvirt_service.py:67-85).
THEOREM LeavesAsAsked == Spec => []TaskApplied
<1>1. ASSUME Inv, TaskEnds, calm, NEW u \in Listed
      PROVE  AsAsked(task.op, u, file, run)
  <2>1. Reached(Len(task.units)) /\ pc = "result" /\ IsList(task.units)
    BY <1>1, Ended DEF Progress, Place
  <2>2. PICK j \in 1..Len(task.units) : u = task.units[j] /\ u \in Units
    BY <2>1 DEF Listed, IsList
  <2> QED
    BY <2>1, <2>2 DEF Reached
<1>2. Inv => TaskApplied
  BY <1>1 DEF TaskApplied, AsAsked
<1> QED
  BY <1>2, Invariance, PTL

-----------------------------------------------------------------------------
(* The configuration a daemon runs with *)

\* The daemons whose socket, or libvirtd itself, the role's plays restart.
Managed == (UNION {Restarted(p) : p \in LibvirtPlays}) \cap Services

\* One that runs has loaded its configuration, or is about to be restarted, or was.
Fresh == \A s \in Managed \cap conf : run[s] # "inactive" => s \in loaded \cup pending \cup lost

Rendered ==
  play.role = "libvirt" /\ (pc \notin {"idle", "prepare", "render"} \/ Finished) =>
    Configured(play) \subseteq conf

LEMMA DaemonNames ==
  ASSUME NEW p, NEW s \in Configured(p)
  PROVE  s \notin Remotes \cup {Pid}
<1>1. s = Libvirtd \/ \E svc \in ToSet(p.with.services) : s = <<svc.daemon, "service">>
  BY DEF Configured
<1>2. s[2] = "service"
  BY <1>1 DEF Libvirtd
<1> QED
  BY <1>2 DEF Remotes, Pid

LEMMA ManagedNames ==
  ASSUME NEW s \in Managed
  PROVE  s \notin Remotes \cup {Pid} /\ s \in Services
  BY DaemonNames DEF Managed, Restarted

\* Only a play of the libvirt role configures anything.
LEMMA Configures ==
  ASSUME play \in Plays, Configured(play) # {}
  PROVE  play \in LibvirtPlays
  BY PlaysAssumption DEF Configured, Plays, LibvirtPlays

\* What is read before a restart stays read; nothing else has to be.
LEMMA SameFresh ==
  ASSUME Fresh, Loads({}), UNCHANGED <<conf, pending, lost>>
  PROVE  Fresh'
  BY DEF Fresh, Loads, Managed

LEMMA FailFresh ==
  ASSUME TypeOK, Fresh, FailPlay, Loads({}), conf' = conf
  PROVE  Fresh'
<1> SUFFICES ASSUME NEW s \in Managed, s \in conf', run'[s] # "inactive"
             PROVE  s \in loaded' \cup lost'
  BY DEF Fresh, Managed
<1>1. CASE s \in pending
  BY <1>1, ManagedNames DEF FailPlay, TypeOK
<1>2. CASE s \notin pending
  BY <1>2 DEF Fresh, Loads, Managed, FailPlay
<1> QED
  BY <1>1, <1>2

LEMMA RenderFresh ==
  ASSUME Inv, Fresh, Render, Loads({})
  PROVE  Fresh'
<1>1. pc = "render" /\ pending = {} /\ UNCHANGED <<run, play>>
  BY DEF Inv, Stage, Render, host
<1>2. \E written : /\ conf' = conf \cup written
                   /\ pending' \cup lost' = lost \cup written
  <2>1. CASE pc' = "next"
    BY <1>1, <2>1 DEF Render
  <2>2. CASE pc' # "next"
    BY <1>1, <2>2 DEF Render
  <2> QED
    BY <2>1, <2>2
<1> QED
  BY <1>1, <1>2 DEF Fresh, Loads, Managed

\* A handler that runs leaves its daemon stopped or with the configuration read.
LEMMA RestartFresh ==
  ASSUME Restartable, Inv, NEW h \in pending, h \in Managed,
         h \in Restarted(play), RestartDaemon(h), h \in conf, conf' = conf,
         run'[h] # "inactive"
  PROVE  h \in loaded'
<1>1. CASE h = Libvirtd
  BY <1>1 DEF RestartDaemon, Loads, Managed
<1>2. CASE h # Libvirtd
  <2>1. h \in Services /\ h \in Units
    BY UnitsAssumption DEF Managed
  <2>2. play \in LibvirtPlays
    BY Configures DEF Inv, TypeOK, Restarted
  <2>3. h \in Bound /\ MainSocket(h) \in SocketsOf[h]
    BY <1>2, <2>1, <2>2 DEF Restartable
  <2>4. Loads(Hanging(MainSocket(h))) /\ h \in Hanging(MainSocket(h))
    BY <1>2, <2>3 DEF RestartDaemon, RestartSocket, Hanging
  <2> QED
    BY <2>1, <2>4 DEF Loads
<1> QED
  BY <1>1, <1>2

LEMMA HandlerFresh ==
  ASSUME Restartable, Inv, Fresh, RunHandler
  PROVE  Fresh'
<1>1. conf' = conf
  BY DEF RunHandler
<1>2. PICK h \in pending :
        \/ /\ IF h \in Remotes THEN RestartRemote(h)
              ELSE IF h \in Restarted(play) THEN RestartDaemon(h)
              ELSE UNCHANGED host /\ Loads({})
           /\ pending' = pending \ {h} /\ lost' = lost \ {h}
        \/ FailPlay /\ Loads({})
  BY DEF RunHandler
<1>3. CASE FailPlay /\ Loads({})
  BY <1>1, <1>3, FailFresh DEF Inv
<1>4. CASE /\ IF h \in Remotes THEN RestartRemote(h)
              ELSE IF h \in Restarted(play) THEN RestartDaemon(h)
              ELSE UNCHANGED host /\ Loads({})
           /\ pending' = pending \ {h} /\ lost' = lost \ {h}
  <2>1. \E R : Loads(R)
    BY <1>4 DEF RestartRemote, RestartDaemon, RestartSocket
  <2>2. ASSUME NEW s \in Managed, s \in conf', run'[s] # "inactive"
        PROVE  s \in loaded' \cup pending' \cup lost'
    <3>1. CASE s # h
      BY <1>1, <1>4, <2>1, <2>2, <3>1 DEF Fresh, Loads, Managed
    <3>2. CASE s = h
      <4>1. h \notin Remotes /\ h \in Configured(play)
        BY <2>2, <3>2, ManagedNames DEF Inv, TypeOK
      <4>2. play \in LibvirtPlays
        BY <4>1, Configures DEF Inv, TypeOK
      <4>3. h \in Restarted(play)
        BY <2>2, <3>2, <4>1, <4>2 DEF Restartable, Managed
      <4> QED
        BY <1>1, <1>4, <2>2, <3>2, <4>1, <4>3, RestartFresh
    <3> QED
      BY <3>1, <3>2
  <2> QED
    BY <2>2 DEF Fresh, Managed
<1> QED
  BY <1>2, <1>3, <1>4

LEMMA NextFresh ==
  ASSUME Restartable, Inv, Fresh, [Next]_vars
  PROVE  Fresh'
<1>1. CASE RunHandler
  BY <1>1, HandlerFresh
<1>2. CASE Render /\ Loads({})
  BY <1>2, RenderFresh
<1>3. CASE (Resolve \/ EndTask) /\ Loads({})
  <2>1. CASE FailPlay
    BY <1>3, <2>1, FailFresh DEF Inv, Resolve, EndTask
  <2>2. CASE ~FailPlay
    BY <1>3, <2>2, SameFresh DEF Resolve, EndTask, plays
  <2> QED
    BY <2>1, <2>2
<1>4. CASE SetRemote /\ Loads({})
  <2>1. UNCHANGED <<conf, lost, run>> /\ pending \subseteq pending'
    BY <1>4 DEF SetRemote
  <2> QED
    BY <1>4, <2>1 DEF Fresh, Loads, Managed
<1>5. CASE /\ \/ Apply /\ UNCHANGED plays
              \/ BeginPlay \/ BeginTask \/ EnsureUnit \/ EndFlush \/ EndPlay
           /\ Loads({})
  BY <1>5, SameFresh DEF BeginPlay, BeginTask, EnsureUnit, EndFlush, EndPlay, plays
<1>6. CASE UNCHANGED <<pending, conf, lost>> /\ Loads({})
  BY <1>6, SameFresh
<1>7. CASE UNCHANGED vars
  BY <1>7 DEF vars, Fresh, Managed
<1> QED
  BY <1>1, <1>2, <1>3, <1>4, <1>5, <1>6, <1>7 DEF Next, Work

LEMMA NextRendered ==
  ASSUME Inv, Rendered, [Next]_vars
  PROVE  Rendered'
<1> DEFINE Same == UNCHANGED <<play, conf>> /\ pc \notin {"idle", "prepare", "render"}
<1>1. CASE FailPlay \/ BeginPlay
  BY <1>1 DEF FailPlay, BeginPlay, Rendered, Finished
<1>2. CASE Resolve /\ ~FailPlay
  <2>1. pc' = "render" \/ (play.role # "libvirt" /\ play' = play)
    BY <1>2, PlaysAssumption DEF Resolve, plays
  <2> QED
    BY <2>1 DEF Rendered, Finished
<1>3. CASE Render
  <2>1. play' = play /\ ((pc' = "idle" /\ outcome' = "failed") \/ Configured(play) \subseteq conf')
    BY <1>3 DEF Render
  <2> QED
    BY <2>1 DEF Rendered, Finished, Configured
<1>4. CASE Apply /\ UNCHANGED plays
  <2>1. Same
    BY <1>4, UnitShaped DEF InTask, plays
  <2> QED
    BY <2>1 DEF Rendered, Configured
<1>5. CASE \/ BeginTask \/ (EndTask /\ ~FailPlay) \/ EnsureUnit \/ SetRemote \/ EndFlush
           \/ EndPlay \/ (RunHandler /\ ~FailPlay)
  <2>1. Same
    BY <1>5 DEF BeginTask, EndTask, EnsureUnit, SetRemote, EndFlush, EndPlay, RunHandler,
       Doing, plays
  <2> QED
    BY <2>1 DEF Rendered, Configured
<1>6. CASE Outside /\ UNCHANGED <<play, conf, outcome>>
  <2>1. UNCHANGED <<pc, play, conf, outcome>>
    BY <1>6 DEF Outside, ClientConnects, ComesUp, IdleExit, Elsewhere
  <2> QED
    BY <2>1 DEF Rendered, Finished, Configured
<1>7. CASE UNCHANGED vars
  BY <1>7 DEF vars, Rendered, Finished, Configured
<1> QED
  BY <1>1, <1>2, <1>3, <1>4, <1>5, <1>6, <1>7 DEF Next, Work

\* After a play that succeeds, every daemon that runs and whose socket the role manages
\* has read what the play rendered, unless a play that failed has given its restart up,
\* although restarts come late and clients start daemons at any time
\* (roles/libvirt/handlers/main.yml).
THEOREM LoadsConfig == Restartable => (Spec => []ConfigLoaded)
<1> SUFFICES ASSUME Restartable PROVE Spec => []ConfigLoaded
  OBVIOUS
<1>1. Init => Fresh /\ Rendered
  BY DEF Init, Fresh, Rendered, Finished, Managed
<1>2. Inv /\ Fresh /\ Rendered /\ [Next]_vars => Fresh' /\ Rendered'
  BY NextFresh, NextRendered
<1>3. Inv /\ Fresh /\ Rendered => ConfigLoaded
  <2> SUFFICES ASSUME Inv, Fresh, Rendered, Finished,
                      NEW s \in (Restarted(play) \cap Services) \ lost, run[s] # "inactive"
               PROVE  s \in loaded
    BY DEF ConfigLoaded
  <2>1. s \in Configured(play) /\ play \in LibvirtPlays
    BY Configures DEF Restarted, Inv, TypeOK
  <2>2. s \in Managed \cap conf /\ pending = {}
    BY <2>1 DEF Managed, Rendered, Finished, LibvirtPlays, Inv, Stage
  <2> QED
    BY <2>2 DEF Fresh
<1> QED
  BY <1>1, <1>2, <1>3, Invariance, PTL DEF Spec

-----------------------------------------------------------------------------
(* What the tasks of a play ask and do *)

\* What a task x of a play p asks of a unit u ...
Lists(x, u) == \E j \in DOMAIN x.units : x.units[j] = u
Wanted(p, u) == u[2] \in Enabled(p.with, "libvirtd")

AskedOn(p, x, u) ==
  Lists(x, u) /\ (x.op \in {"enable", "ensure"} \/ (x.op = "remote" /\ Wanted(p, u)))
AskedOff(p, x, u) == Lists(x, u) /\ (x.op = "disable" \/ (x.op = "remote" /\ ~Wanted(p, u)))
AskedUp(x, u) == Lists(x, u) /\ x.op \in {"start", "ensure"}
AskedDown(x, u) == Lists(x, u) /\ x.op \in {"disable", "stop"}

\* ... and what it may do to one while it does so: systemd spreads it to others.
Flushes(p, x, d) == x.op = "flush" /\ d \in Restarted(p) \cap Units
FlushesSocket(p, x, d) == x.op = "flush" /\ d \in Restarted(p) \ {Libvirtd}
FlushesRemote(p, x, v) ==
  /\ x.op = "flush" /\ p.role = "libvirt" /\ ~UseModular(p.with) /\ LibvirtdWanted(p.with)
  /\ v \in Remotes

Enables(p, x, u) ==
  \/ \E v \in Units : AskedOn(p, x, v) /\ u \in Filed(v)
  \/ Flushes(p, x, Libvirtd) /\ u \in Filed(Libvirtd)
Disables(p, x, u) == \E v \in Units : AskedOff(p, x, v) /\ u \in Filed(v)
Starts(p, x, u) ==
  \/ \E v \in Units : AskedUp(x, v) /\ u \in {v} \cup Woken(v)
  \/ Flushes(p, x, Libvirtd) /\ u \in {Libvirtd} \cup Woken(Libvirtd)
  \/ \E d \in Restarted(p) : FlushesSocket(p, x, d) /\ u = MainSocket(d)
  \/ FlushesRemote(p, x, u) /\ Wanted(p, u)
Stops(p, x, u) ==
  \/ \E v \in Units : AskedDown(x, v) /\ u \in {v} \cup Hanging(v)
  \/ \E v \in Remotes : FlushesRemote(p, x, v) /\ ~Wanted(p, v) /\ u \in {v} \cup Hanging(v)

\* A task y of a play q leaves what a task x of a play p has asked as it is.
Leaves(q, y, p, x) ==
  \A u \in Units :
    /\ Enables(q, y, u) => ~AskedOff(p, x, u)
    /\ Disables(q, y, u) => ~AskedOn(p, x, u)
    /\ Starts(q, y, u) => ~AskedDown(x, u)
    /\ Stops(q, y, u) => ~AskedUp(x, u)

\* The roles that depend on libvirt leave what its plays ask as it is.
Shared ==
  \A p \in LibvirtPlays, d \in Dependents :
    LET q == [role |-> d, with |-> None]
        first == TasksOf(p, UseModular(p.with))
        second == TasksOf(q, UseModular(p.with))
    IN  \A m \in 1..Len(first), n \in 1..Len(second) : Leaves(q, second[n], p, first[m])

\* No task of a play, and no handler, undoes what an earlier task of it has asked.
Lasting ==
  \A p \in Plays :
    \A modular \in (IF p.role = "libvirt" THEN {UseModular(p.with)} ELSE BOOLEAN) :
      LET list == TasksOf(p, modular)
      IN  \A m, n \in 1..Len(list) : m < n => Leaves(p, list[n], p, list[m])

\* A task x of a play p finds all its units as asked; only ensuring needs them there.
Present(x) == x.op = "ensure" => \A j \in DOMAIN x.units : x.units[j] \in Units

Met(p, x) ==
  /\ Present(x)
  /\ \A u \in Units :
       /\ AskedOn(p, x, u) => file[u] = "enabled" \/ (x.op = "remote" /\ file[u] = "masked")
       /\ AskedOff(p, x, u) => file[u] # "enabled"
       /\ AskedUp(x, u) => run[u] # "inactive" /\ (x.op = "start" => run[u] = "active")
       /\ AskedDown(x, u) => run[u] # "active"

\* Nor was any of them masked before the task at hand.
WereUnmasked(p, x) == \A u \in Units : AskedOn(p, x, u) => before[1][u] # "masked"

\* A step does to units what is a task x of a play p to do.
TouchesFiles(p, x) ==
  \A u \in Units :
    \/ file'[u] = file[u]
    \/ Enables(p, x, u) /\ file[u] # "masked" /\ file'[u] = "enabled"
    \/ Disables(p, x, u) /\ file'[u] = "disabled"
    \/ x.op = "enable" /\ before[1][u] = "masked" /\ file'[u] = "disabled"

TouchesRuns(p, x) ==
  \A u \in Units :
    \/ run'[u] = run[u]
    \/ Starts(p, x, u) /\ run'[u] = "active"
    \/ Stops(p, x, u) /\ run'[u] = "inactive"

LEMMA TouchedMet ==
  ASSUME NEW p, NEW x, NEW q, NEW y, Met(p, x), TouchesFiles(q, y), TouchesRuns(q, y),
         Leaves(q, y, p, x), y.op = "enable" => WereUnmasked(p, x)
  PROVE  Met(p, x)'
<1> SUFFICES ASSUME NEW u \in Units
             PROVE  /\ AskedOn(p, x, u) =>
                         file'[u] = "enabled" \/ (x.op = "remote" /\ file'[u] = "masked")
                    /\ AskedOff(p, x, u) => file'[u] # "enabled"
                    /\ AskedUp(x, u) =>
                         run'[u] # "inactive" /\ (x.op = "start" => run'[u] = "active")
                    /\ AskedDown(x, u) => run'[u] # "active"
  BY DEF Met, Present, AskedOn, AskedOff, AskedUp, AskedDown, Lists, Wanted, Enabled
<1>1. /\ AskedOn(p, x, u) => file[u] = "enabled" \/ (x.op = "remote" /\ file[u] = "masked")
      /\ AskedOff(p, x, u) => file[u] # "enabled"
      /\ AskedUp(x, u) => run[u] # "inactive" /\ (x.op = "start" => run[u] = "active")
      /\ AskedDown(x, u) => run[u] # "active"
  BY DEF Met
<1>2. /\ Enables(q, y, u) => ~AskedOff(p, x, u)
      /\ Disables(q, y, u) => ~AskedOn(p, x, u)
      /\ Starts(q, y, u) => ~AskedDown(x, u)
      /\ Stops(q, y, u) => ~AskedUp(x, u)
  BY DEF Leaves
<1>3. /\ \/ file'[u] = file[u]
         \/ Enables(q, y, u) /\ file[u] # "masked" /\ file'[u] = "enabled"
         \/ Disables(q, y, u) /\ file'[u] = "disabled"
         \/ y.op = "enable" /\ before[1][u] = "masked" /\ file'[u] = "disabled"
      /\ \/ run'[u] = run[u]
         \/ Starts(q, y, u) /\ run'[u] = "active"
         \/ Stops(q, y, u) /\ run'[u] = "inactive"
  BY DEF TouchesFiles, TouchesRuns
<1>4. y.op = "enable" /\ AskedOn(p, x, u) => before[1][u] # "masked"
  BY DEF WereUnmasked
<1> QED
  BY <1>1, <1>2, <1>3, <1>4

LEMMA SameMet ==
  ASSUME NEW p, NEW x, Met(p, x), UNCHANGED <<file, run>>
  PROVE  Met(p, x)'
  BY DEF Met, Present, AskedOn, AskedOff, AskedUp, AskedDown, Lists, Wanted, Enabled

\* The operations of systemd, done to a unit v for x.
LEMMA MarkedTouches ==
  ASSUME NEW p, NEW x, NEW v \in Units,
         \/ file' = Marked(v, "enabled") /\ AskedOn(p, x, v)
         \/ file' = Marked(v, "disabled") /\ AskedOff(p, x, v)
         \/ file' = Unmasked(v) /\ before[1][v] = "masked" /\ x.op = "enable"
         \/ file' = file
  PROVE  TouchesFiles(p, x)
<1>1. CASE file' = Marked(v, "enabled") /\ AskedOn(p, x, v)
  BY <1>1 DEF Marked, TouchesFiles, Enables, Filed
<1>2. CASE file' = Marked(v, "disabled") /\ AskedOff(p, x, v)
  BY <1>2 DEF Marked, TouchesFiles, Disables, Filed
<1>3. CASE file' = Unmasked(v) /\ before[1][v] = "masked" /\ x.op = "enable"
  <2>1. \A u \in Units : file'[u] = file[u] \/ (u = v /\ file'[u] \in {file[u], "disabled"})
    BY <1>3 DEF Unmasked
  <2> QED
    BY <1>3, <2>1 DEF TouchesFiles
<1>4. CASE file' = file
  BY <1>4 DEF TouchesFiles
<1> QED
  BY <1>1, <1>2, <1>3, <1>4

LEMMA RunTouches ==
  ASSUME NEW p, NEW x, NEW v \in Units,
         \/ run' = Starting(v, "active") /\ AskedUp(x, v)
         \/ run' = Stopping(v) /\ AskedDown(x, v)
         \/ run' = run
  PROVE  TouchesRuns(p, x)
<1>1. CASE run' = Starting(v, "active") /\ AskedUp(x, v)
  BY <1>1 DEF Starting, TouchesRuns, Starts, Woken
<1>2. CASE run' = Stopping(v) /\ AskedDown(x, v)
  BY <1>2 DEF Stopping, TouchesRuns, Stops, Hanging
<1>3. CASE run' = run
  BY <1>3 DEF TouchesRuns
<1> QED
  BY <1>1, <1>2, <1>3

LEMMA UnitListed ==
  ASSUME TypeOK, Place, pc \in {"unit", "half"}
  PROVE  Lists(task, Unit)
  BY DEF Place, TypeOK, IsList, Lists, Unit

\* Every step of a task that does not fail does no more to units than is for it to do;
\* nor does one that fails, where it ensures a service.
LEMMA TaskTouches ==
  ASSUME NEW p, TypeOK, Place, Apply \/ EnsureUnit,
         (Working /\ Clean') \/ task.op = "ensure"
  PROVE  TouchesFiles(p, task) /\ TouchesRuns(p, task)
<1>1. CASE UNCHANGED host
  BY <1>1 DEF TouchesFiles, TouchesRuns, host
<1>2. CASE ~UNCHANGED host /\ task.op # "ensure"
  <2>1. Working /\ Clean' /\ ~CallFails
    BY <1>2 DEF CallFails
  <2>2. \/ Unmask \/ EnableUnit \/ StopToDisable \/ DisableUnit \/ StartUnit \/ StopUnit
    BY <1>2 DEF Apply, ReadStatus, SkipAbsentUnit, AlreadyEnabled, AlreadyDisabled,
       AlreadyRunning, AlreadyStopped, EndQuietly, EnsureUnit
  <2>3. Unit \in Units /\ Lists(task, Unit) /\ pc \in {"unit", "half"}
    <3>1. pc \in {"unit", "half"} /\ (pc = "unit" => Unit \in Units)
      BY <2>2 DEF AtUnit, Halfway, Unmask, EnableUnit, StopToDisable, DisableUnit, StartUnit,
         StopUnit
    <3> QED
      BY <3>1, UnitListed DEF Place
  <2>4. CASE Unmask
    <3>1. file' = Unmasked(Unit) /\ run' = run /\ task.op = "enable"
      BY <2>1, <2>4 DEF Unmask, SetFile, AtUnit
    <3>2. before[1][Unit] = "masked"
      BY <2>1, <2>3, <2>4, Standing DEF Unmask, AtUnit, Was
    <3> QED
      BY <2>3, <3>1, <3>2, MarkedTouches, RunTouches
  <2>5. CASE EnableUnit
    <3>1. file' = Marked(Unit, "enabled") /\ run' = run /\ task.op = "enable"
      BY <2>1, <2>5 DEF EnableUnit, SetFile, AtUnit, Halfway
    <3> QED
      BY <2>3, <3>1, MarkedTouches, RunTouches DEF AskedOn
  <2>6. CASE StopToDisable \/ StopUnit
    <3>1. run' = Stopping(Unit) /\ file' = file /\ task.op \in {"disable", "stop"}
      BY <2>1, <2>6 DEF StopToDisable, StopUnit, SetRun, AtUnit, Halfway
    <3> QED
      BY <2>3, <3>1, MarkedTouches, RunTouches DEF AskedDown
  <2>7. CASE DisableUnit
    <3>1. file' = Marked(Unit, "disabled") /\ run' = run /\ task.op = "disable"
      BY <2>1, <2>7 DEF DisableUnit, SetFile, AtUnit, Halfway
    <3> QED
      BY <2>3, <3>1, MarkedTouches, RunTouches DEF AskedOff
  <2>8. CASE StartUnit
    <3>1. ~EndUnit(Error)
      <4>1. Error \in Entry /\ Error.failed
        BY DEF Error, Entry
      <4> QED
        BY <2>1, <4>1, Appended DEF EndUnit
    <3>2. run' = Starting(Unit, "active") /\ file' = file /\ task.op = "start"
      BY <2>1, <2>8, <3>1 DEF StartUnit, SetRun, AtUnit
    <3> QED
      BY <2>3, <3>2, MarkedTouches, RunTouches DEF AskedUp
  <2> QED
    BY <2>2, <2>4, <2>5, <2>6, <2>7, <2>8
<1>3. CASE ~UNCHANGED host /\ task.op = "ensure"
  <2>1. EnsureUnit
    BY <1>3 DEF Apply, ReadStatus, SkipAbsentUnit, AlreadyEnabled, AlreadyDisabled,
       AlreadyRunning, AlreadyStopped, EndQuietly, Unmask, EnableUnit, StopToDisable,
       DisableUnit, StartUnit, StopUnit, AtUnit, Halfway
  <2>2. Unit \in Units /\ Lists(task, Unit)
    BY <1>3, <2>1, UnitListed DEF EnsureUnit, EndQuietly
  <2>3. file' \in {file, Marked(Unit, "enabled")}
    BY <1>3, <2>1 DEF EnsureUnit, EndQuietly, Enabling
  <2>4. run' \in {run, Starting(Unit, "active")}
    BY <1>3, <2>1 DEF EnsureUnit, EndQuietly
  <2> QED
    BY <1>3, <2>2, <2>3, <2>4, MarkedTouches, RunTouches DEF AskedOn, AskedUp
<1> QED
  BY <1>1, <1>2, <1>3

LEMMA RemoteTasks ==
  ASSUME NEW p \in Plays, NEW m \in BOOLEAN, NEW n \in 1..Len(TasksOf(p, m)),
         TasksOf(p, m)[n].op = "remote"
  PROVE  /\ p.role = "libvirt" /\ ~m /\ LibvirtdWanted(p.with)
         /\ \E r \in Remotes : TasksOf(p, m)[n].units = <<r>>
         /\ \A o \in 1..Len(TasksOf(p, m)) : n < o => TasksOf(p, m)[o].op # "enable"
<1> DEFINE list == TasksOf(p, m)
<1>1. p.role = "libvirt"
  <2>1. CASE p.role = "user"
    <3>1. p.with \in UserPlays /\ list = p.with.tasks
      BY <2>1, PlaysAssumption DEF Plays, LibvirtPlays, TasksOf
    <3> QED
      BY <3>1, PlaysAssumption DEF IsList, Ops
  <2>2. CASE p.role \notin {"libvirt", "user"}
    <3>1. list = <<Task("ensure", IF m THEN <<<<"qemu", "socket">>, <<p.role, "socket">>>>
                                  ELSE <<Libvirtd>>)>>
      BY <2>2 DEF TasksOf
    <3> QED
      BY <3>1 DEF Task
  <2> QED
    BY <2>1, <2>2
<1>2. p.with \in Settings
  BY <1>1, SettingsOf
<1>3. ~m
  <2>1. m => list = ModularTasks(p.with)
    BY <1>1 DEF TasksOf
  <2> QED
    BY <1>2, <2>1, ModularSound
<1> DEFINE a == Task("disable", modular_daemons_off(p.with.services))
           b == Task("remote", <<<<"libvirtd", "tcp">>>>)
           c == Task("remote", <<<<"libvirtd", "tls">>>>)
           f == Task("flush", <<>>)
           e == Task("ensure", <<Libvirtd>>)
<1>4. /\ a.op = "disable" /\ b.op = "remote" /\ c.op = "remote" /\ f.op = "flush"
      /\ e.op = "ensure" /\ b.units = <<<<"libvirtd", "tcp">>>>
      /\ c.units = <<<<"libvirtd", "tls">>>>
  BY DEF Task
<1>5. list = <<a>> \o (IF LibvirtdWanted(p.with) THEN <<b, c, f, e>> ELSE <<f>>)
  BY <1>1, <1>3 DEF TasksOf, MonolithicTasks
<1>6. list[n].op = "remote" /\ n \in 1..Len(list)
  OBVIOUS
<1> HIDE DEF a, b, c, e, f, list
<1>7. CASE LibvirtdWanted(p.with)
  <2>1. list = <<a>> \o <<b, c, f, e>>
    BY <1>5, <1>7
  <2>2. /\ Len(list) = 5 /\ list[1] = a /\ list[2] = b /\ list[3] = c
        /\ list[4] = f /\ list[5] = e
    BY <2>1
  <2>3. \A o \in 1..5 : o = 1 \/ o = 2 \/ o = 3 \/ o = 4 \/ o = 5
    OBVIOUS
  <2>4. n = 2 \/ n = 3
    BY <1>4, <1>6, <2>2, <2>3
  <2>5. \A o \in 1..5 : n < o => list[o].op # "enable"
    BY <1>4, <2>2, <2>3, <2>4
  <2>6. \E r \in Remotes : list[n].units = <<r>>
    BY <1>4, <2>2, <2>4 DEF Remotes
  <2> QED
    BY <1>1, <1>3, <1>7, <2>2, <2>5, <2>6 DEF list
<1>8. CASE ~LibvirtdWanted(p.with)
  <2>1. list = <<a>> \o <<f>>
    BY <1>5, <1>8
  <2>2. Len(list) = 2 /\ list[1] = a /\ list[2] = f
    BY <2>1
  <2>3. \A o \in 1..2 : o = 1 \/ o = 2
    OBVIOUS
  <2> QED
    BY <1>4, <1>6, <2>2, <2>3
<1> QED
  BY <1>7, <1>8

\* Where remote access may be switched: libvirtd is to run, and the model is monolithic.
Remote == play.role = "libvirt" /\ ~UseModular(play.with) /\ LibvirtdWanted(play.with)
Notified == pending \cap Remotes # {} => Remote

LEMMA HandlerTouches ==
  ASSUME HostTypes, Notified, NEW h \in pending, Possible(h), NEW x, x.op = "flush",
         IF h \in Remotes THEN RestartRemote(h)
         ELSE IF h \in Restarted(play) THEN RestartDaemon(h)
         ELSE UNCHANGED host /\ Loads({})
  PROVE  TouchesFiles(play, x) /\ TouchesRuns(play, x)
<1>0. \A v : \A u \in Units : [run EXCEPT ![v] = "active"][u] = IF u = v THEN "active" ELSE run[u]
  BY DEF HostTypes
<1>1. CASE h \in Remotes
  <2>1. \A v \in Remotes : FlushesRemote(play, x, v)
    BY <1>1 DEF Notified, Remote, FlushesRemote
  <2>2. file' = file
    BY <1>1 DEF RestartRemote
  <2>3. run' = IF Wanted(play, h) THEN [run EXCEPT ![h] = "active"] ELSE Stopping(h)
    BY <1>1 DEF RestartRemote, RestartSocket, Wanted
  <2>4. ASSUME NEW u \in Units
        PROVE  \/ run'[u] = run[u]
               \/ Starts(play, x, u) /\ run'[u] = "active"
               \/ Stops(play, x, u) /\ run'[u] = "inactive"
    <3>1. \/ u = h /\ Wanted(play, h) /\ run'[u] = "active"
          \/ u = h /\ ~Wanted(play, h) /\ run'[u] = "inactive"
          \/ u # h /\ run'[u] = run[u]
          \/ u # h /\ u \in Hanging(h) /\ ~Wanted(play, h) /\ run'[u] = "inactive"
      BY <1>0, <2>3 DEF Stopping, Hanging
    <3> QED
      BY <1>1, <2>1, <3>1 DEF Starts, Stops
  <2> QED
    BY <2>2, <2>4 DEF TouchesFiles, TouchesRuns
<1>2. CASE h \notin Remotes /\ h \in Restarted(play) /\ h = Libvirtd
  <2>1. run' = Starting(Libvirtd, "active") /\ file' = Marked(Libvirtd, "enabled")
    BY <1>2 DEF RestartDaemon
  <2>2. Flushes(play, x, Libvirtd)
    BY <1>2 DEF Possible, Flushes
  <2>3. TouchesFiles(play, x)
    BY <2>1, <2>2 DEF TouchesFiles, Marked, Enables, Filed
  <2>4. TouchesRuns(play, x)
    BY <2>1, <2>2 DEF TouchesRuns, Starting, Starts, Woken
  <2> QED
    BY <2>3, <2>4
<1>3. CASE h \notin Remotes /\ h \in Restarted(play) /\ h # Libvirtd
  <2>1. run' = [run EXCEPT ![MainSocket(h)] = "active"] /\ file' = file
    BY <1>3 DEF RestartDaemon, RestartSocket
  <2>2. FlushesSocket(play, x, h)
    BY <1>3 DEF FlushesSocket
  <2> QED
    BY <1>0, <1>3, <2>1, <2>2 DEF TouchesFiles, TouchesRuns, Starts
<1>4. CASE h \notin Remotes /\ h \notin Restarted(play)
  BY <1>4 DEF TouchesFiles, TouchesRuns, host
<1> QED
  BY <1>1, <1>2, <1>3, <1>4

-----------------------------------------------------------------------------
(* A play and its successor *)

\* The daemon model a play has resolved, or its predecessor that it repeats.
Resolved ==
  /\ pc \notin {"idle", "prepare"} \/ settled =>
       /\ play.role = "libvirt" => use = UseModular(play.with)
       /\ play.role \in Dependents => use = Follow
  /\ pc \notin {"idle", "prepare"} /\ play.role = "libvirt" => fact = Published(use)

\* What the tasks before the current one have asked is so, for as long as nobody else
\* acts and the current one does not fail.
Behind ==
  /\ pc \in TaskPCs => calm
  /\ \A n \in 1..Len(Tasks) : n < t =>
       /\ pc \in TaskPCs /\ task.op = "enable" => WereUnmasked(play, Tasks[n])
       /\ (pc \in TaskPCs => Clean) => Met(play, Tasks[n])

\* A play that repeats one finds everything so, and changes nothing.
Rested ==
  /\ pending = {} /\ Configured(play) \subseteq conf
  /\ pc \in TaskPCs => calm /\ (Clean => host = before)
  /\ (pc \in TaskPCs => Clean) => \A n \in 1..Len(Tasks) : Met(play, Tasks[n])

\* A task that ensures has found the units it has dealt with.
FoundTo(n) == \A j \in 1..n : task.units[j] \in Units
Found ==
  task.op = "ensure" /\ Clean =>
    /\ pc = "unit" => FoundTo(k - 1)
    /\ pc = "result" => FoundTo(Len(task.units))

Account ==
  /\ Resolved /\ Notified /\ Found
  /\ quiet /\ pc \notin {"idle", "prepare", "render"} => Behind
  /\ settled => Rested

LEMMA LaterLeaves ==
  ASSUME Lasting, Inv, Resolved, pc \notin {"idle", "prepare"},
         NEW m \in 1..Len(Tasks), NEW n \in 1..Len(Tasks), m < n
  PROVE  Leaves(play, Tasks[n], play, Tasks[m])
<1>1. play \in Plays /\ use \in BOOLEAN
  BY DEF Inv, TypeOK
<1>2. use \in IF play.role = "libvirt" THEN {UseModular(play.with)} ELSE BOOLEAN
  BY <1>1 DEF Resolved
<1> QED
  BY <1>1, <1>2 DEF Lasting, Tasks

LEMMA EndedMet ==
  ASSUME Inv, Found, TaskEnds, calm, NEW p
  PROVE  Met(p, task)
<1>1. Reached(Len(task.units)) /\ pc = "result" /\ IsList(task.units) /\ task.op \in Ops
      /\ Clean
  BY Ended DEF Progress, Place, Inv, TypeOK, TaskEnds, Clean
<1>2. \A u : Lists(task, u) => \E j \in 1..Len(task.units) : u = task.units[j]
  BY <1>1 DEF Lists, IsList
<1>3. Present(task)
  BY <1>1 DEF Present, Found, FoundTo, IsList
<1>4. \A u \in Units : Lists(task, u) => AsAsked(task.op, u, file, run)
  BY <1>1, <1>2 DEF Reached
<1>5. task.op # "remote"
  BY <1>1 DEF Ops
<1> QED
  BY <1>3, <1>4, <1>5 DEF Met, AsAsked, AskedOn, AskedOff, AskedUp, AskedDown

\* A task that finds its units as asked leaves them alone.
LEMMA RestingTask ==
  ASSUME NEW p, Working, Met(p, task), host = before, Apply \/ EnsureUnit
  PROVE  UNCHANGED host
<1>1. pc # "half" /\ before[1] = file /\ before[2] = run
  BY DEF Working, Progress, host
<1>2. ASSUME pc = "unit", Unit \in Units
      PROVE  /\ Lists(task, Unit)
             /\ task.op # "ensure" =>
                  /\ Was.enabled = (file[Unit] = "enabled")
                  /\ Was.masked = (file[Unit] = "masked")
                  /\ Was.active = (run[Unit] = "active")
  BY <1>1, <1>2, UnitListed, Standing DEF Working, Was
<1>3. CASE Unmask \/ EnableUnit
  <2>1. pc = "unit" /\ Unit \in Units /\ task.op = "enable" /\ (Was.masked \/ ~Was.enabled)
    BY <1>1, <1>3 DEF Unmask, EnableUnit, AtUnit, Halfway
  <2>2. file[Unit] = "enabled"
    BY <1>2, <2>1 DEF Met, AskedOn
  <2> QED
    BY <1>2, <2>1, <2>2
<1>4. CASE StopToDisable \/ StopUnit
  <2>1. pc = "unit" /\ Unit \in Units /\ task.op \in {"disable", "stop"} /\ Was.active
    BY <1>1, <1>4 DEF StopToDisable, StopUnit, AtUnit, Halfway
  <2>2. run[Unit] # "active"
    BY <1>2, <2>1 DEF Met, AskedDown
  <2> QED
    BY <1>2, <2>1, <2>2
<1>5. CASE DisableUnit
  <2>1. pc = "unit" /\ Unit \in Units /\ task.op = "disable" /\ Was.enabled
    BY <1>1, <1>5 DEF DisableUnit, AtUnit, Halfway
  <2>2. file[Unit] # "enabled"
    BY <1>2, <2>1 DEF Met, AskedOff
  <2> QED
    BY <1>2, <2>1, <2>2
<1>6. CASE StartUnit
  <2>1. pc = "unit" /\ Unit \in Units /\ task.op = "start" /\ ~Was.active
    BY <1>1, <1>6 DEF StartUnit, AtUnit
  <2>2. run[Unit] = "active"
    BY <1>2, <2>1 DEF Met, AskedUp
  <2> QED
    BY <1>2, <2>1, <2>2
<1>7. CASE EnsureUnit /\ Unit \in Units /\ file[Unit] # "masked"
  <2>1. pc = "unit" /\ task.op = "ensure"
    BY <1>7 DEF EnsureUnit
  <2>2. file[Unit] = "enabled" /\ run[Unit] # "inactive"
    BY <1>2, <1>7, <2>1 DEF Met, AskedOn, AskedUp
  <2> QED
    BY <1>7, <2>2 DEF EnsureUnit, Enabling, EndQuietly, host
<1> QED
  BY <1>3, <1>4, <1>5, <1>6, <1>7 DEF Apply, ReadStatus, SkipAbsentUnit, AlreadyEnabled,
     AlreadyDisabled, AlreadyRunning, AlreadyStopped, EndQuietly, EnsureUnit

\* Between tasks only the place, the host and what is notified matter.
LEMMA FailAccount ==
  ASSUME FailPlay, Found, UNCHANGED service
  PROVE  Account'
<1>1. pc' = "idle" /\ settled' = FALSE /\ pending' = {}
  BY DEF FailPlay
<1>2. Found'
  BY <1>1 DEF Found
<1> QED
  BY <1>1, <1>2 DEF Account, Resolved, Notified

LEMMA BeginPlayAccount ==
  ASSUME Inv, Account, BeginPlay
  PROVE  Account'
<1>1. /\ pc = "idle" /\ pc' = "prepare" /\ pending = {} /\ pending' = {}
      /\ UNCHANGED <<file, run, use, conf, fact>>
      /\ settled' => settled /\ play' = play
  BY DEF Inv, Stage, BeginPlay, host
<1>2. Resolved'
  BY <1>1 DEF Account, Resolved, Follow
<1>3. Found' /\ Notified'
  BY <1>1 DEF Found, Notified
<1>4. settled' => Rested'
  <2> SUFFICES ASSUME settled' PROVE Rested'
    OBVIOUS
  <2>1. settled /\ Rested /\ UNCHANGED <<play, Tasks>> /\ pc \notin TaskPCs
    BY <1>1 DEF Account, Tasks, TaskPCs
  <2>2. \A n \in 1..Len(Tasks) : Met(play, Tasks[n])'
    BY <1>1, <2>1, SameMet DEF Rested
  <2> QED
    BY <1>1, <2>1, <2>2 DEF Rested, TaskPCs, Configured
<1> QED
  BY <1>1, <1>2, <1>3, <1>4 DEF Account

\* A step that leaves the play, what it runs on and its tasks, and stays out of them.
LEMMA SteadyRested ==
  ASSUME Rested, pc \notin TaskPCs, pc' \notin TaskPCs,
         UNCHANGED <<file, run, play, conf, pending, Tasks>>
  PROVE  Rested'
<1>1. \A n \in 1..Len(Tasks) : Met(play, Tasks[n])'
  BY SameMet DEF Rested
<1> QED
  BY <1>1 DEF Rested, Configured

LEMMA ResolveAccount ==
  ASSUME Inv, Account, Resolve
  PROVE  Account'
<1>0. pc = "prepare" /\ pending = {} /\ t = 1 /\ UNCHANGED <<service, file, run, conf>>
      /\ {"libvirt", "user"} \cap Dependents = {}
  BY PlaysAssumption DEF Inv, Stage, Resolve, host
<1>1. CASE FailPlay
  BY <1>0, <1>1, FailAccount DEF Account
<1>2. CASE ~FailPlay
  <2>1. /\ UNCHANGED <<play, t, pending, quiet, settled>>
        /\ \/ /\ play.role = "libvirt" /\ pc' = "render" /\ use' = UseModular(play.with)
              /\ fact' = Published(use')
           \/ /\ play.role \in Dependents /\ pc' = "next" /\ use' = Follow /\ fact' = fact
           \/ /\ play.role = "user" /\ pc' = "next" /\ use' = use /\ fact' = fact
    BY <1>2 DEF Resolve, plays
  <2>2. Resolved'
    BY <1>0, <2>1 DEF Resolved, Follow
  <2>3. settled => UNCHANGED Tasks
    <3>1. settled /\ play.role \in Dependents => use' = use
      BY <1>0, <2>1 DEF Account, Resolved
    <3>2. settled /\ play.role = "libvirt" => use' = use
      BY <1>0, <2>1 DEF Account, Resolved
    <3> QED
      BY <2>1, <3>1, <3>2 DEF Tasks
  <2>4. settled' => Rested'
    BY <1>0, <2>1, <2>3, SteadyRested DEF Account, TaskPCs
  <2>5. Found' /\ Notified'
    BY <1>0, <2>1 DEF Found, Notified
  <2>6. pc' = "next" => Behind'
    BY <1>0, <2>1 DEF Behind, TaskPCs
  <2> QED
    BY <2>1, <2>2, <2>4, <2>5, <2>6 DEF Account
<1> QED
  BY <1>1, <1>2

LEMMA RenderAccount ==
  ASSUME Inv, Account, Render
  PROVE  Account'
<1>0. /\ pc = "render" /\ pending = {} /\ t = 1
      /\ UNCHANGED <<service, file, run, play, t, use, fact, quiet, Tasks>>
  BY DEF Inv, Stage, Render, host, Tasks
<1>1. CASE pc' = "next"
  <2>1. /\ conf' = conf \cup (Configured(play) \ conf)
        /\ pending' = Configured(play) \ conf /\ settled' = settled
    BY <1>0, <1>1 DEF Render
  <2>2. Resolved'
    BY <1>0, <1>1 DEF Account, Resolved, Follow
  <2>3. Found'
    BY <1>1 DEF Found
  <2>4. Notified'
    BY <2>1, DaemonNames DEF Notified
  <2>5. settled' => Rested'
    <3> SUFFICES ASSUME settled PROVE Rested'
      BY <2>1
    <3>1. Rested /\ conf' = conf /\ pending' = pending
      BY <1>0, <2>1 DEF Account, Rested
    <3> QED
      BY <1>0, <1>1, <3>1, SteadyRested DEF TaskPCs
  <2>6. Behind'
    BY <1>0, <1>1 DEF Behind, TaskPCs
  <2> QED
    BY <1>1, <2>2, <2>3, <2>4, <2>5, <2>6 DEF Account
<1>2. CASE pc' # "next"
  <2>1. pc' = "idle" /\ settled' = FALSE /\ pending' = {}
    BY <1>2 DEF Render
  <2> QED
    BY <2>1 DEF Account, Resolved, Notified, Found
<1> QED
  BY <1>1, <1>2

\* Every earlier task stays met by what the current one, or its flush, does.
LEMMA BehindTouched ==
  ASSUME Lasting, Inv, Resolved, pc \notin {"idle", "prepare"}, t \in 1..Len(Tasks),
         TouchesFiles(play, Tasks[t]), TouchesRuns(play, Tasks[t]), UNCHANGED <<play, Tasks>>,
         NEW n \in 1..Len(Tasks), n < t, Met(play, Tasks[n]),
         Tasks[t].op = "enable" => WereUnmasked(play, Tasks[n])
  PROVE  Met(play, Tasks[n])'
<1>1. Leaves(play, Tasks[t], play, Tasks[n])
  BY LaterLeaves
<1> QED
  BY <1>1, TouchedMet

LEMMA EnsureFound ==
  ASSUME Inv, Found, EnsureUnit, Shaped
  PROVE  Found'
<1> SUFFICES ASSUME Clean'
             PROVE  /\ pc' = "unit" => FoundTo(k - 1)'
                    /\ pc' = "result" => FoundTo(Len(task.units))'
  BY DEF Found
<1>1. TypeOK /\ Place /\ Clean /\ task' = task /\ pc = "unit" /\ task.op = "ensure"
  BY CleanBefore DEF Inv, Shaped, EnsureUnit
<1>2. Unit \in Units
  <2>1. Error \in Entry /\ Error.failed
    BY DEF Error, Entry
  <2>2. ~EndUnit(Error)
    BY <1>1, <2>1, Appended DEF EndUnit
  <2> QED
    BY <2>2 DEF EnsureUnit, EndQuietly
<1>3. FoundTo(k - 1) /\ k \in Nat /\ k <= Len(task.units) /\ Len(task.units) \in Nat
  BY <1>1 DEF Found, TypeOK, Place, IsList
<1>4. FoundTo(k)
  BY <1>2, <1>3 DEF FoundTo, Unit
<1>5. (pc' = "unit" /\ k' = k + 1) \/ (pc' = "result" /\ k = Len(task.units))
  BY <1>3 DEF EnsureUnit, EndQuietly, EndUnit
<1> QED
  BY <1>1, <1>3, <1>4, <1>5 DEF FoundTo

LEMMA TaskAccount ==
  ASSUME Lasting, Inv, Account, (Apply /\ UNCHANGED plays) \/ EnsureUnit
  PROVE  Account'
<1>1. InTask /\ Shaped
  BY UnitShaped, EnsureShaped
<1>2. /\ TypeOK /\ Place /\ pc \in TaskPCs /\ pc' \in TaskPCs
      /\ UNCHANGED <<play, t, use, pending, conf, fact, quiet, settled, task, calm, before, Tasks>>
      /\ task = Tasks[t] /\ t \in 1..Len(Tasks)
  <2>1. UNCHANGED <<play, t, use, pending, conf, fact, quiet, settled, task, calm, before, Tasks>>
    BY <1>1 DEF Shaped, plays, Tasks
  <2>2. pc \in TaskPCs /\ pc' \in TaskPCs
    BY <1>1 DEF InTask, TaskPCs, Shaped, Reads, Dies, Halts, GoHalfway, Ends, EndUnit
  <2> QED
    BY <2>1, <2>2, InvParts, TasksInHand DEF Stage, TaskPCs
<1>3. Found'
  <2>1. CASE EnsureUnit
    BY <1>1, <2>1, EnsureFound DEF Account
  <2>2. CASE task.op # "ensure"
    BY <1>2, <2>2 DEF Found
  <2>3. CASE Apply /\ task.op = "ensure"
    BY <1>2, <2>3 DEF Apply, ReadStatus, SkipAbsentUnit, Unmask, EnableUnit, AlreadyEnabled,
       StopToDisable, DisableUnit, AlreadyDisabled, StartUnit, AlreadyRunning, StopUnit,
       AlreadyStopped, AtUnit, Halfway, Place
  <2> QED
    BY <2>1, <2>2, <2>3
<1>4. Resolved' /\ Notified'
  BY <1>2 DEF Account, Resolved, Notified, Remote, Follow, TaskPCs
<1>5. ASSUME calm, Clean' PROVE Clean /\ Working
  BY <1>1, <1>2, <1>5, CleanBefore DEF Inv, Working
<1>6. ASSUME quiet PROVE Behind'
  <2>1. Behind /\ calm
    BY <1>2, <1>6 DEF Account, Behind, TaskPCs
  <2>2. ASSUME NEW n \in 1..Len(Tasks), n < t
        PROVE  /\ task.op = "enable" => WereUnmasked(play, Tasks[n])'
               /\ Clean' => Met(play, Tasks[n])'
    <3>1. task.op = "enable" => WereUnmasked(play, Tasks[n])
      BY <1>2, <2>1, <2>2 DEF Behind
    <3>2. WereUnmasked(play, Tasks[n]) => WereUnmasked(play, Tasks[n])'
      BY <1>2 DEF WereUnmasked, AskedOn, Lists, Wanted, Enabled
    <3>3. ASSUME Clean' PROVE Met(play, Tasks[n])'
      <4>1. Clean /\ Working
        BY <1>5, <2>1, <3>3
      <4>2. TouchesFiles(play, Tasks[t]) /\ TouchesRuns(play, Tasks[t])
        BY <1>2, <3>3, <4>1, TaskTouches
      <4>3. Met(play, Tasks[n])
        BY <1>2, <2>1, <2>2, <4>1 DEF Behind
      <4> QED
        BY <1>2, <2>2, <3>1, <4>2, <4>3, BehindTouched DEF Account, TaskPCs
    <3> QED
      BY <3>1, <3>2, <3>3
  <2> QED
    BY <1>2, <2>1, <2>2 DEF Behind
<1>7. ASSUME settled PROVE Rested'
  <2>1. Rested /\ calm
    BY <1>2, <1>7 DEF Account, Rested
  <2>2. ASSUME Clean'
        PROVE  host' = before /\ \A n \in 1..Len(Tasks) : Met(play, Tasks[n])'
    <3>1. Clean /\ Working
      BY <1>5, <2>1, <2>2
    <3>2. host = before /\ \A n \in 1..Len(Tasks) : Met(play, Tasks[n])
      BY <1>2, <2>1, <3>1 DEF Rested
    <3>3. UNCHANGED host
      BY <1>2, <3>1, <3>2, RestingTask
    <3> QED
      BY <1>2, <3>2, <3>3, SameMet DEF host
  <2> QED
    BY <1>2, <2>1, <2>2 DEF Rested, Configured
<1> QED
  BY <1>2, <1>3, <1>4, <1>6, <1>7 DEF Account

LEMMA BeginTaskAccount ==
  ASSUME Inv, Account, BeginTask
  PROVE  Account'
<1>1. /\ pc = "next" /\ t \in 1..Len(Tasks) /\ Tasks[t].op \in Ops
      /\ UNCHANGED <<host, file, run, play, t, use, pending, conf, fact, quiet, settled, Tasks>>
  BY InvParts, TasksInHand DEF BeginTask, Doing, plays, Tasks, host
<1>2. /\ pc' \in {"result", "unit", "status"} /\ task' = Tasks[t] /\ k' = 1 /\ calm' = TRUE
      /\ before' = host /\ Clean'
      /\ pc' = "result" => Len(Tasks[t].units) = 0
  BY DEF BeginTask, Clean
<1>3. Resolved' /\ Notified'
  BY <1>1, <1>2 DEF Account, Resolved, Notified, Remote, Follow
<1>4. Found'
  BY <1>2 DEF Found, FoundTo
<1>5. ASSUME quiet PROVE Behind'
  <2>1. Behind
    BY <1>1, <1>5 DEF Account
  <2>2. ASSUME NEW n \in 1..Len(Tasks), n < t
        PROVE  /\ task'.op = "enable" => WereUnmasked(play, Tasks[n])'
               /\ Met(play, Tasks[n])'
    <3>1. Met(play, Tasks[n])
      BY <1>1, <2>1, <2>2 DEF Behind, TaskPCs
    <3>2. Met(play, Tasks[n])'
      BY <1>1, <3>1, SameMet
    <3>3. ASSUME task'.op = "enable" PROVE WereUnmasked(play, Tasks[n])'
      <4>1. Tasks[n].op # "remote"
        BY <1>1, <1>2, <2>2, <3>3, RemoteTasks DEF Inv, TypeOK, Tasks
      <4>2. \A u \in Units : AskedOn(play, Tasks[n], u) => file[u] = "enabled"
        BY <3>1, <4>1 DEF Met
      <4>3. before'[1] = file
        BY <1>2 DEF host
      <4> QED
        BY <1>1, <4>2, <4>3 DEF WereUnmasked, AskedOn, Lists, Wanted, Enabled
    <3> QED
      BY <3>2, <3>3
  <2> QED
    BY <1>1, <1>2, <2>2 DEF Behind
<1>6. ASSUME settled PROVE Rested'
  <2>1. Rested /\ \A n \in 1..Len(Tasks) : Met(play, Tasks[n])
    BY <1>1, <1>6 DEF Account, Rested, TaskPCs
  <2>2. \A n \in 1..Len(Tasks) : Met(play, Tasks[n])'
    BY <1>1, <2>1, SameMet
  <2> QED
    BY <1>1, <1>2, <2>1, <2>2 DEF Rested, Configured, host
<1> QED
  BY <1>1, <1>3, <1>4, <1>5, <1>6 DEF Account

\* The next task is up, and the one before has been met.
LEMMA Passed ==
  ASSUME Account, pc \notin {"idle", "prepare", "render"}, pc' = "next", t \in Nat, t' = t + 1,
         UNCHANGED <<play, use, fact, conf, Tasks, settled>>, Notified',
         quiet' => quiet /\ \A n \in 1..Len(Tasks) : n < t + 1 => Met(play, Tasks[n])',
         settled => pending' = {} /\ \A n \in 1..Len(Tasks) : Met(play, Tasks[n])'
  PROVE  Account'
<1>1. Resolved' /\ Found'
  BY DEF Account, Resolved, Follow, Found
<1>2. quiet' => Behind'
  BY DEF Behind, TaskPCs
<1>3. settled' => Rested'
  BY DEF Account, Rested, Configured, TaskPCs
<1> QED
  BY <1>1, <1>2, <1>3 DEF Account

LEMMA EndTaskAccount ==
  ASSUME Inv, Account, EndTask
  PROVE  Account'
<1>1. pc = "result" /\ pc \in TaskPCs /\ UNCHANGED <<host, file, run, service, conf>>
  BY DEF EndTask, host, TaskPCs
<1>2. CASE FailPlay
  BY <1>1, <1>2, FailAccount DEF Account
<1>3. CASE ~FailPlay
  <2>1. /\ TaskEnds /\ Clean /\ pc' = "next" /\ t' = t + 1
        /\ UNCHANGED <<play, use, pending, fact, quiet, settled, Tasks>>
    BY <1>3 DEF EndTask, NextTask, Tasks, TaskEnds, Clean
  <2>2. t \in Nat /\ task = Tasks[t]
    BY <1>1, InvParts, TasksInHand DEF Stage
  <2>3. ASSUME quiet, NEW n \in 1..Len(Tasks), n < t + 1 PROVE Met(play, Tasks[n])'
    <3>1. Behind /\ calm
      BY <1>1, <2>3 DEF Account, Behind
    <3>2. Met(play, Tasks[n])
      <4>1. CASE n < t
        BY <1>1, <2>1, <2>3, <3>1, <4>1 DEF Behind
      <4>2. CASE n = t
        BY <2>1, <2>2, <3>1, <4>2, EndedMet DEF Account
      <4> QED
        BY <2>2, <2>3, <4>1, <4>2
    <3> QED
      BY <1>1, <2>1, <3>2, SameMet
  <2>4. ASSUME settled PROVE pending' = {} /\ \A n \in 1..Len(Tasks) : Met(play, Tasks[n])'
    <3>1. Rested
      BY <2>4 DEF Account
    <3> QED
      BY <1>1, <2>1, <3>1, SameMet DEF Rested
  <2>5. Notified'
    BY <2>1 DEF Account, Notified, Remote
  <2> QED
    BY <1>1, <2>1, <2>2, <2>3, <2>4, <2>5, Passed
<1> QED
  BY <1>2, <1>3

LEMMA EndFlushAccount ==
  ASSUME Inv, Account, EndFlush
  PROVE  Account'
<1>1. /\ pc = "next" /\ pc' = "next" /\ t' = t + 1 /\ t \in 1..Len(Tasks)
      /\ Tasks[t].op = "flush" /\ pending = {}
      /\ UNCHANGED <<host, file, run, service, play, use, pending, conf, fact, quiet, settled,
                     Tasks>>
  BY InvParts, TasksInHand DEF EndFlush, Doing, NextTask, Tasks, host
<1>2. Met(play, Tasks[t])
  BY <1>1 DEF Met, Present, AskedOn, AskedOff, AskedUp, AskedDown
<1>3. ASSUME quiet, NEW n \in 1..Len(Tasks), n < t + 1 PROVE Met(play, Tasks[n])'
  <2>1. n < t => Met(play, Tasks[n])
    BY <1>1, <1>3 DEF Account, Behind, TaskPCs
  <2>2. Met(play, Tasks[n])
    BY <1>1, <1>2, <1>3, <2>1
  <2> QED
    BY <1>1, <2>2, SameMet
<1>4. ASSUME settled PROVE \A n \in 1..Len(Tasks) : Met(play, Tasks[n])'
  <2>1. \A n \in 1..Len(Tasks) : Met(play, Tasks[n])
    BY <1>1, <1>4 DEF Account, Rested, TaskPCs
  <2> QED
    BY <1>1, <2>1, SameMet
<1>5. Notified'
  BY <1>1 DEF Notified
<1> QED
  BY <1>1, <1>3, <1>4, <1>5, Passed

LEMMA SetRemoteAccount ==
  ASSUME Lasting, Inv, Account, SetRemote
  PROVE  Account'
<1> DEFINE u == Tasks[t].units[1]
           mark == IF Wanted(play, u) THEN "enabled" ELSE "disabled"
<1>1. /\ pc = "next" /\ pc' = "next" /\ t' = t + 1 /\ t \in 1..Len(Tasks)
      /\ Tasks[t].op = "remote" /\ run' = run
      /\ UNCHANGED <<service, play, use, conf, fact, settled, Tasks>>
  BY InvParts, TasksInHand DEF SetRemote, Doing, NextTask, Tasks
<1>2. /\ play.role = "libvirt" /\ ~use /\ LibvirtdWanted(play.with)
      /\ u \in Remotes /\ Tasks[t].units = <<u>>
  BY <1>1, RemoteTasks DEF Inv, TypeOK, Tasks
<1>3. Remote
  BY <1>1, <1>2 DEF Account, Resolved, Remote
<1>4. \A v : Lists(Tasks[t], v) <=> v = u
  BY <1>2 DEF Lists
<1>5. /\ pending' \subseteq pending \cup {u, Pid} /\ quiet' \in {quiet, FALSE}
      /\ \/ /\ u \in Units /\ file[u] \notin {"masked", mark}
            /\ \/ file' = Marked(u, mark) /\ quiet' = quiet
               \/ file' = file /\ quiet' = FALSE
         \/ /\ u \in Units => file[u] \in {"masked", mark}
            /\ UNCHANGED <<file, pending, quiet>>
  BY DEF SetRemote, Wanted
<1>6. u \in Units => file[u] \in FileStates
  BY DEF Inv, TypeOK
<1> HIDE DEF u
<1>7. ASSUME quiet', NEW n \in 1..Len(Tasks), n = t PROVE Met(play, Tasks[n])'
  <2>1. u \in Units => file'[u] \in {"masked", mark}
    BY <1>5, <1>7 DEF Marked
  <2>2. \A v \in Units : /\ AskedOn(play, Tasks[t], v) => v = u /\ Wanted(play, u)
                         /\ AskedOff(play, Tasks[t], v) => v = u /\ ~Wanted(play, u)
                         /\ ~AskedUp(Tasks[t], v) /\ ~AskedDown(Tasks[t], v)
    BY <1>1, <1>4 DEF AskedOn, AskedOff, AskedUp, AskedDown
  <2>3. Present(Tasks[t])
    BY <1>1 DEF Present
  <2>4. \A v \in Units :
          /\ AskedOn(play, Tasks[t], v) => file'[v] \in {"enabled", "masked"}
          /\ AskedOff(play, Tasks[t], v) => file'[v] # "enabled"
    BY <2>1, <2>2
  <2>5. \A p, x : Present(x) /\ x.op = "remote" /\
          (\A v \in Units :
             /\ AskedOn(p, x, v) => file'[v] \in {"enabled", "masked"}
             /\ AskedOff(p, x, v) => file'[v] # "enabled"
             /\ ~AskedUp(x, v) /\ ~AskedDown(x, v)) => Met(p, x)'
    BY DEF Met, Present, AskedOn, AskedOff, AskedUp, AskedDown, Lists, Wanted, Enabled
  <2> QED
    BY <1>1, <1>7, <2>2, <2>3, <2>4, <2>5
<1>8. ASSUME quiet', NEW n \in 1..Len(Tasks), n < t + 1 PROVE Met(play, Tasks[n])'
  <2>1. quiet /\ (n < t => Met(play, Tasks[n]))
    BY <1>1, <1>5, <1>8 DEF Account, Behind, TaskPCs
  <2>2. TouchesRuns(play, Tasks[t])
    BY <1>1 DEF TouchesRuns
  <2>3. TouchesFiles(play, Tasks[t])
    <3>1. CASE file' = file
      BY <3>1 DEF TouchesFiles
    <3>2. CASE file' # file
      <4>1. u \in Units /\ file' = Marked(u, mark)
        BY <1>5, <3>2
      <4>2. IF Wanted(play, u) THEN AskedOn(play, Tasks[t], u) ELSE AskedOff(play, Tasks[t], u)
        BY <1>1, <1>4 DEF AskedOn, AskedOff
      <4> QED
        BY <4>1, <4>2, MarkedTouches
    <3> QED
      BY <3>1, <3>2
  <2>4. CASE n < t
    BY <1>1, <1>8, <2>1, <2>2, <2>3, <2>4, BehindTouched DEF Account
  <2>5. CASE n = t
    BY <1>7, <1>8, <2>5
  <2> QED
    BY <1>1, <1>8, <2>4, <2>5
<1>9. ASSUME settled PROVE pending' = {} /\ \A n \in 1..Len(Tasks) : Met(play, Tasks[n])'
  <2>1. pending = {} /\ \A n \in 1..Len(Tasks) : Met(play, Tasks[n])
    BY <1>1, <1>9 DEF Account, Rested, TaskPCs
  <2>2. u \in Units => file[u] \in {"masked", mark}
    <3>1. Met(play, Tasks[t])
      BY <1>1, <2>1
    <3>2. IF Wanted(play, u) THEN AskedOn(play, Tasks[t], u) ELSE AskedOff(play, Tasks[t], u)
      BY <1>1, <1>4 DEF AskedOn, AskedOff
    <3> QED
      BY <1>6, <3>1, <3>2 DEF Met, FileStates
  <2>3. UNCHANGED <<file, pending>>
    BY <1>5, <2>2
  <2> QED
    BY <1>1, <2>1, <2>3, SameMet
<1>10. Notified'
  BY <1>1, <1>3 DEF Notified, Remote
<1> QED
  BY <1>1, <1>5, <1>8, <1>9, <1>10, Passed

LEMMA RunHandlerAccount ==
  ASSUME Lasting, Inv, Account, RunHandler
  PROVE  Account'
<1>1. /\ pc = "next" /\ t \in 1..Len(Tasks) /\ Tasks[t].op = "flush"
      /\ UNCHANGED <<service, conf>>
  BY InvParts, TasksInHand DEF RunHandler, Doing
<1>2. PICK h \in pending :
        \/ /\ Possible(h)
           /\ IF h \in Remotes THEN RestartRemote(h)
              ELSE IF h \in Restarted(play) THEN RestartDaemon(h)
              ELSE UNCHANGED host /\ Loads({})
           /\ pending' = pending \ {h}
           /\ UNCHANGED <<pc, play, t, use, fact, quiet, settled>>
        \/ FailPlay
  BY DEF RunHandler
<1>3. CASE FailPlay
  BY <1>1, <1>3, FailAccount DEF Account
<1>4. CASE ~FailPlay
  <2>1. /\ Possible(h) /\ pending' = pending \ {h}
        /\ IF h \in Remotes THEN RestartRemote(h)
           ELSE IF h \in Restarted(play) THEN RestartDaemon(h)
           ELSE UNCHANGED host /\ Loads({})
        /\ UNCHANGED <<pc, play, t, use, fact, quiet, settled, Tasks>>
    BY <1>2, <1>4 DEF Tasks
  <2>2. ~settled
    BY DEF Account, Rested
  <2>3. TouchesFiles(play, Tasks[t]) /\ TouchesRuns(play, Tasks[t])
    BY <1>1, <2>1, HandlerTouches, InvParts DEF Account
  <2>4. ASSUME quiet, NEW n \in 1..Len(Tasks), n < t PROVE Met(play, Tasks[n])'
    <3>1. Met(play, Tasks[n])
      BY <1>1, <2>4 DEF Account, Behind, TaskPCs
    <3> QED
      BY <1>1, <2>1, <2>3, <2>4, <3>1, BehindTouched DEF Account
  <2>5. Resolved' /\ Notified' /\ Found'
    BY <1>1, <2>1, <2>2 DEF Account, Resolved, Follow, Notified, Remote, Found
  <2>6. quiet' => Behind'
    BY <1>1, <2>1, <2>4 DEF Behind, TaskPCs
  <2> QED
    BY <2>1, <2>2, <2>5, <2>6 DEF Account
<1> QED
  BY <1>3, <1>4

LEMMA EndPlayAccount ==
  ASSUME Inv, Rendered, Account, EndPlay
  PROVE  Account'
<1>1. /\ pc = "next" /\ pc' = "idle" /\ t \in Nat /\ t > Len(Tasks) /\ Len(Tasks) \in Nat
      /\ settled' = quiet
      /\ UNCHANGED <<host, file, run, play, use, pending, conf, fact, Tasks>>
  BY InvParts, TasksInHand DEF EndPlay, Tasks, host
<1>2. pending = {}
  <2>1. ~FlushFrom(t)
    BY <1>1 DEF FlushFrom, FlushIn
  <2> QED
    BY <1>1, <2>1, InvParts DEF Stage
<1>3. Configured(play) \subseteq conf
  BY <1>1 DEF Rendered, Configured
<1>4. quiet => \A n \in 1..Len(Tasks) : Met(play, Tasks[n])'
  <2>1. quiet => \A n \in 1..Len(Tasks) : Met(play, Tasks[n])
    BY <1>1 DEF Account, Behind, TaskPCs
  <2> QED
    BY <1>1, <2>1, SameMet
<1>5. Resolved' /\ Notified' /\ Found'
  BY <1>1, <1>2 DEF Account, Resolved, Follow, Notified, Found
<1>6. settled' => Rested'
  BY <1>1, <1>2, <1>3, <1>4 DEF Rested, Configured, TaskPCs
<1> QED
  BY <1>1, <1>5, <1>6 DEF Account

LEMMA OutsideAccount ==
  ASSUME Account, Outside, quiet' = FALSE, settled' = FALSE,
         UNCHANGED <<play, t, use, pending, fact>>
  PROVE  Account'
<1>1. UNCHANGED <<pc, task, k, entries>>
  BY DEF Outside, ClientConnects, ComesUp, IdleExit, Elsewhere
<1>2. Resolved' /\ Notified' /\ Found'
  BY <1>1 DEF Account, Resolved, Follow, Notified, Remote, Found, FoundTo, Clean
<1> QED
  BY <1>2 DEF Account

LEMMA StutterAccount ==
  ASSUME Account, UNCHANGED vars
  PROVE  Account'
<1>1. /\ UNCHANGED <<file, run, host, pc, task, k, entries, calm, before, play, t, use,
                     pending, conf, fact, quiet, settled>>
      /\ UNCHANGED <<Tasks, Clean>>
  BY DEF vars, host, Tasks, Clean
<1>2. Resolved' /\ Notified' /\ Found'
  BY <1>1 DEF Account, Resolved, Follow, Notified, Remote, Found, FoundTo
<1>3. \A n \in 1..Len(Tasks) : /\ Met(play, Tasks[n]) => Met(play, Tasks[n])'
                               /\ WereUnmasked(play, Tasks[n]) => WereUnmasked(play, Tasks[n])'
  BY <1>1, SameMet DEF WereUnmasked, AskedOn, Lists, Wanted, Enabled
<1>4. /\ quiet /\ pc \notin {"idle", "prepare", "render"} => Behind'
      /\ settled => Rested'
  BY <1>1, <1>3 DEF Account, Behind, Rested, Configured
<1> QED
  BY <1>1, <1>2, <1>4 DEF Account

LEMMA NextAccount ==
  ASSUME Lasting, Inv, Rendered, Account, [Next]_vars
  PROVE  Account'
<1>1. CASE Next
  BY <1>1, BeginPlayAccount, ResolveAccount, RenderAccount, BeginTaskAccount, TaskAccount,
     EndTaskAccount, EndFlushAccount, SetRemoteAccount, RunHandlerAccount, EndPlayAccount,
     OutsideAccount DEF Next, Work
<1> QED
  BY <1>1, StutterAccount

LEMMA InitAccount == Init => Account
  BY DEF Init, Account, Resolved, Notified, Found

LEMMA Accounted == Lasting => (Spec => [](Inv /\ Account))
<1> SUFFICES ASSUME Lasting PROVE Spec => [](Inv /\ Account)
  OBVIOUS
<1>1. Init => Rendered /\ Account
  BY InitAccount DEF Init, Rendered, Finished
<1>2. Inv /\ Rendered /\ Account /\ [Next]_vars => Rendered' /\ Account'
  BY NextRendered, NextAccount
<1> QED
  BY <1>1, <1>2, Invariance, PTL DEF Spec

-----------------------------------------------------------------------------
(* What keeps the tasks of a play from undoing each other *)

\* What a unit enables, disables or starts along with it belongs to its daemon model.
LEMMA SameModel ==
  ASSUME ModelsApart, NEW v \in Units, NEW u \in Filed(v) \cup Woken(v)
  PROVE  /\ v[1] = "libvirtd" => u[1] \in Kept
         /\ v[1] # "libvirtd" => u[1] # "libvirtd"
  BY DEF ModelsApart

LEMMA NoUnits ==
  ASSUME NEW x, x.units = <<>>, NEW u
  PROVE  ~Lists(x, u)
  BY DEF Lists

LEMMA OneUnit ==
  ASSUME NEW x, NEW v, x.units = <<v>>, NEW u, Lists(x, u)
  PROVE  u = v
  BY DEF Lists

LEMMA AllMonolithic ==
  ASSUME NEW x, x.units = Monolithic, NEW u, Lists(x, u)
  PROVE  u[1] = "libvirtd"
<1>1. DOMAIN Monolithic = 1..6
  BY DEF Monolithic
<1>2. PICK j \in 1..6 : Monolithic[j] = u
  BY <1>1 DEF Lists
<1>3. j = 1 \/ j = 2 \/ j = 3 \/ j = 4 \/ j = 5 \/ j = 6
  BY <1>2
<1> QED
  BY <1>2, <1>3 DEF Monolithic, Libvirtd

LEMMA ListedIn ==
  ASSUME NEW x, NEW u, Lists(x, u)
  PROVE  u \in ToSet(x.units)
  BY DEF Lists, ToSet

\* In the modular model only the first task turns anything off, and the others leave
\* libvirtd's units alone.
LEMMA ModularTask ==
  ASSUME NEW s \in Settings, NEW n \in 1..Len(ModularTasks(s))
  PROVE  LET x == ModularTasks(s)[n]
         IN  IF n = 1 THEN x.op = "disable" /\ x.units = Monolithic
             ELSE /\ x.op \in {"enable", "start", "flush"}
                  /\ \A u : Lists(x, u) => u[1] # "libvirtd"
<1> DEFINE a == Task("disable", Monolithic)
           b == Task("enable", modular_sockets(s.services))
           c == Task("enable", modular_services(s.services))
           d == Task("enable", libvirt_proxy_daemons(s.listen))
           e == Task("start", proxy_services)
           f == Task("flush", <<>>)
           list == ModularTasks(s)
           Apart(x) == /\ x.op \in {"enable", "start", "flush"}
                       /\ \A u : Lists(x, u) => u[1] # "libvirtd"
<1>1. IsSequence(s.services)
  BY PlaysAssumption DEF IsSequence, IsList
<1>2. /\ b.units = modular_sockets(s.services) /\ c.units = modular_services(s.services)
      /\ d.units = libvirt_proxy_daemons(s.listen) /\ e.units = proxy_services
      /\ f.units = <<>>
      /\ b.op = "enable" /\ c.op = "enable" /\ d.op = "enable" /\ e.op = "start"
      /\ f.op = "flush"
  BY DEF Task
<1>3. a.op = "disable" /\ a.units = Monolithic
  BY DEF Task
<1>4. list = <<a, b, c>> \o (IF s.listen = {} THEN <<>> ELSE <<d, e>>) \o <<f>>
  BY DEF ModularTasks
<1> HIDE DEF a, b, c, d, e, f, list
<1>5. Apart(b) /\ Apart(c) /\ Apart(d) /\ Apart(e) /\ Apart(f)
  <2>1. \A u \in ToSet(b.units) \cup ToSet(c.units) : u[1] # "libvirtd"
    BY <1>1, <1>2, NamesListed
  <2>2. \A u \in ToSet(d.units) \cup ToSet(e.units) : u[1] = "proxy"
    BY <1>1, <1>2, NamesListed
  <2> QED
    BY <1>2, <2>1, <2>2, ListedIn, NoUnits
<1>6. list[1] = a /\ \A o \in 1..Len(list) : o = 1 \/ list[o] \in {b, c, d, e, f}
  <2>1. CASE s.listen = {}
    <3>1. list = (<<a, b, c>> \o <<>>) \o <<f>>
      BY <1>4, <2>1
    <3>2. Len(list) = 4 /\ list[1] = a /\ list[2] = b /\ list[3] = c /\ list[4] = f
      BY <3>1
    <3>3. \A o \in 1..4 : o = 1 \/ o = 2 \/ o = 3 \/ o = 4
      OBVIOUS
    <3> QED
      BY <3>2, <3>3
  <2>2. CASE s.listen # {}
    <3>1. list = (<<a, b, c>> \o <<d, e>>) \o <<f>>
      BY <1>4, <2>2
    <3>2. /\ Len(list) = 6 /\ list[1] = a /\ list[2] = b /\ list[3] = c
          /\ list[4] = d /\ list[5] = e /\ list[6] = f
      BY <3>1
    <3>3. \A o \in 1..6 : o = 1 \/ o = 2 \/ o = 3 \/ o = 4 \/ o = 5 \/ o = 6
      OBVIOUS
    <3> QED
      BY <3>2, <3>3
  <2> QED
    BY <2>1, <2>2
<1> QED
  BY <1>3, <1>5, <1>6 DEF list

\* In the monolithic model only the first task turns modular units off; libvirtd is
\* ensured last.
LEMMA MonolithicTask ==
  ASSUME NEW s \in Settings, NEW n \in 1..Len(MonolithicTasks(s))
  PROVE  LET list == MonolithicTasks(s)
             x == list[n]
         IN  IF n = 1 THEN x.op = "disable" /\ \A u : Lists(x, u) => u[1] \notin Kept
             ELSE \/ x.op = "remote" /\ \A u : Lists(x, u) => u \in Remotes
                  \/ x.op = "flush" /\ \A u : ~Lists(x, u)
                  \/ x.op = "ensure" /\ n = Len(list) /\ \A u : Lists(x, u) => u = Libvirtd
<1> DEFINE a == Task("disable", modular_daemons_off(s.services))
           b == Task("remote", <<<<"libvirtd", "tcp">>>>)
           c == Task("remote", <<<<"libvirtd", "tls">>>>)
           f == Task("flush", <<>>)
           e == Task("ensure", <<Libvirtd>>)
           list == MonolithicTasks(s)
<1>1. IsSequence(s.services)
  BY PlaysAssumption DEF IsSequence, IsList
<1>2. /\ a.units = modular_daemons_off(s.services) /\ b.units = <<<<"libvirtd", "tcp">>>>
      /\ c.units = <<<<"libvirtd", "tls">>>> /\ f.units = <<>> /\ e.units = <<Libvirtd>>
      /\ a.op = "disable" /\ b.op = "remote" /\ c.op = "remote" /\ f.op = "flush"
      /\ e.op = "ensure"
  BY DEF Task
<1>3. list = <<a>> \o (IF LibvirtdWanted(s) THEN <<b, c, f, e>> ELSE <<f>>)
  BY DEF MonolithicTasks
<1> HIDE DEF a, b, c, e, f, list
<1>4. /\ \A u : Lists(a, u) => u[1] \notin Kept
      /\ \A u : Lists(b, u) \/ Lists(c, u) => u \in Remotes
      /\ \A u : ~Lists(f, u)
      /\ \A u : Lists(e, u) => u = Libvirtd
  <2>1. \A u \in ToSet(a.units) : u[1] \notin Kept
    BY <1>1, <1>2, NamesListed
  <2> QED
    BY <1>2, <2>1, ListedIn, NoUnits, OneUnit DEF Remotes
<1>5. CASE LibvirtdWanted(s)
  <2>1. list = <<a>> \o <<b, c, f, e>>
    BY <1>3, <1>5
  <2>2. /\ Len(list) = 5 /\ list[1] = a /\ list[2] = b /\ list[3] = c
        /\ list[4] = f /\ list[5] = e
    BY <2>1
  <2>3. \A o \in 1..5 : o = 1 \/ o = 2 \/ o = 3 \/ o = 4 \/ o = 5
    OBVIOUS
  <2> QED
    BY <1>2, <1>4, <2>2, <2>3 DEF list
<1>6. CASE ~LibvirtdWanted(s)
  <2>1. list = <<a>> \o <<f>>
    BY <1>3, <1>6
  <2>2. Len(list) = 2 /\ list[1] = a /\ list[2] = f
    BY <2>1
  <2>3. \A o \in 1..2 : o = 1 \/ o = 2
    OBVIOUS
  <2> QED
    BY <1>2, <1>4, <2>2, <2>3 DEF list
<1> QED
  BY <1>5, <1>6

\* What a play may restart belongs to the model it resolves.
LEMMA RestartsModel ==
  ASSUME NEW p \in LibvirtPlays, NEW d \in Restarted(p)
  PROVE  IF UseModular(p.with) THEN d # Libvirtd /\ d[1] # "libvirtd" ELSE d = Libvirtd
<1>1. CASE UseModular(p.with)
  <2>1. d \in {<<svc.daemon, "service">> : svc \in ToSet(p.with.services)} /\ d # Libvirtd
    BY <1>1 DEF Restarted, Configured, LibvirtPlays
  <2>2. PICK svc \in ToSet(p.with.services) : d = <<svc.daemon, "service">>
    BY <2>1
  <2> QED
    BY <1>1, <2>1, <2>2 DEF Libvirtd
<1>2. CASE ~UseModular(p.with)
  BY <1>2 DEF Restarted, Configured, LibvirtPlays
<1> QED
  BY <1>1, <1>2

LEMMA ModularDoes ==
  ASSUME ModelsApart, NEW p \in LibvirtPlays, UseModular(p.with),
         NEW n \in 1..Len(ModularTasks(p.with)), n # 1, NEW u \in Units
  PROVE  LET y == ModularTasks(p.with)[n]
         IN  /\ ~Disables(p, y, u) /\ ~Stops(p, y, u) /\ ~AskedOff(p, y, u) /\ ~AskedDown(y, u)
             /\ Enables(p, y, u) \/ Starts(p, y, u) => u[1] # "libvirtd"
<1> DEFINE y == ModularTasks(p.with)[n]
<1>1. y.op \in {"enable", "start", "flush"} /\ \A v : Lists(y, v) => v[1] # "libvirtd"
  BY ModularTask DEF LibvirtPlays
<1> HIDE DEF y
<1>2. \A v : ~AskedOff(p, y, v) /\ ~AskedDown(y, v) /\ ~FlushesRemote(p, y, v)
  BY <1>1 DEF AskedOff, AskedDown, FlushesRemote
<1>3. ~Disables(p, y, u) /\ ~Stops(p, y, u)
  BY <1>2 DEF Disables, Stops
<1>4. ~Flushes(p, y, Libvirtd)
  BY RestartsModel DEF Flushes
<1>5. ASSUME Enables(p, y, u) PROVE u[1] # "libvirtd"
  <2>1. PICK v \in Units : AskedOn(p, y, v) /\ u \in Filed(v)
    BY <1>4, <1>5 DEF Enables
  <2> QED
    BY <1>1, <2>1, SameModel DEF AskedOn
<1>6. ASSUME Starts(p, y, u) PROVE u[1] # "libvirtd"
  <2>1. CASE \E v \in Units : AskedUp(y, v) /\ u \in {v} \cup Woken(v)
    <3>1. PICK v \in Units : AskedUp(y, v) /\ u \in {v} \cup Woken(v)
      BY <2>1
    <3> QED
      BY <1>1, <3>1, SameModel DEF AskedUp, Filed
  <2>2. CASE \E d \in Restarted(p) : u = MainSocket(d)
    <3>1. PICK d \in Restarted(p) : u = MainSocket(d)
      BY <2>2
    <3> QED
      BY <3>1, RestartsModel DEF MainSocket
  <2> QED
    BY <1>2, <1>4, <1>6, <2>1, <2>2 DEF Starts
<1> QED
  BY <1>2, <1>3, <1>5, <1>6 DEF y

LEMMA MonolithicDoes ==
  ASSUME ModelsApart, NEW p \in LibvirtPlays, ~UseModular(p.with),
         NEW n \in 1..Len(MonolithicTasks(p.with)), n # 1, NEW u \in Units
  PROVE  LET y == MonolithicTasks(p.with)[n]
         IN  /\ Enables(p, y, u) => u[1] \in Kept /\ (u \in Remotes => Wanted(p, u))
             /\ Starts(p, y, u) => u[1] \in Kept
             /\ Disables(p, y, u) => u[1] \in Kept /\ (u \in Remotes => ~Wanted(p, u))
             /\ AskedOff(p, y, u) => u \in Remotes /\ ~Wanted(p, u)
             /\ ~AskedDown(y, u)
             /\ n # Len(MonolithicTasks(p.with)) =>
                  ~AskedUp(y, u) /\ (AskedOn(p, y, u) => u \in Remotes /\ Wanted(p, u))
<1> DEFINE last == Len(MonolithicTasks(p.with))
           y == MonolithicTasks(p.with)[n]
<1>1. \/ y.op = "remote" /\ \A v : Lists(y, v) => v \in Remotes
      \/ y.op = "flush" /\ \A v : ~Lists(y, v)
      \/ y.op = "ensure" /\ n = last /\ \A v : Lists(y, v) => v = Libvirtd
  BY MonolithicTask DEF LibvirtPlays
<1> HIDE DEF y, last
<1>2. /\ \A v : AskedOff(p, y, v) => v \in Remotes /\ ~Wanted(p, v)
      /\ \A v : AskedOn(p, y, v) => v = Libvirtd \/ (v \in Remotes /\ Wanted(p, v))
      /\ \A v : AskedUp(y, v) => v = Libvirtd
      /\ \A v : ~AskedDown(y, v)
      /\ n # last => \A v : /\ ~AskedUp(y, v)
                            /\ AskedOn(p, y, v) => v \in Remotes /\ Wanted(p, v)
  BY <1>1 DEF AskedOff, AskedOn, AskedUp, AskedDown
<1>3. /\ Libvirtd[1] = "libvirtd" /\ Libvirtd \notin Remotes
      /\ \A v \in Remotes : v[1] = "libvirtd"
      /\ "libvirtd" \in Kept
  BY DEF Libvirtd, Remotes, Kept
<1>4. ASSUME NEW v \in Units, v \in Remotes \cup {Libvirtd}, u \in Filed(v)
      PROVE  u[1] \in Kept /\ (u \in Remotes => u = v)
  BY <1>3, <1>4, SameModel DEF ModelsApart, Filed
<1>5. ASSUME Enables(p, y, u) PROVE u[1] \in Kept /\ (u \in Remotes => Wanted(p, u))
  <2>1. PICK v \in Units : /\ v = Libvirtd \/ (v \in Remotes /\ Wanted(p, v))
                           /\ u \in Filed(v)
    BY <1>2, <1>5 DEF Enables, Flushes
  <2> QED
    BY <1>3, <1>4, <2>1
<1>6. ASSUME Disables(p, y, u) PROVE u[1] \in Kept /\ (u \in Remotes => ~Wanted(p, u))
  <2>1. PICK v \in Units : v \in Remotes /\ ~Wanted(p, v) /\ u \in Filed(v)
    BY <1>2, <1>6 DEF Disables
  <2> QED
    BY <1>4, <2>1
<1>7. ASSUME Starts(p, y, u) PROVE u[1] \in Kept
  <2>1. CASE \E v \in Units : v = Libvirtd /\ u \in {v} \cup Woken(v)
    BY <1>3, <2>1, SameModel
  <2>2. CASE u \in Remotes
    BY <1>3, <2>2
  <2>3. ~ \E d \in Restarted(p) : FlushesSocket(p, y, d)
    BY RestartsModel DEF FlushesSocket
  <2> QED
    BY <1>2, <1>7, <2>1, <2>2, <2>3 DEF Starts, Flushes, FlushesRemote
<1> QED
  BY <1>2, <1>5, <1>6, <1>7 DEF y, last

\* No task of a play of the libvirt role undoes an earlier one's work, and neither do its
\* handlers.
LEMMA RoleLasts ==
  ASSUME ModelsApart, NEW p \in LibvirtPlays
  PROVE  LET list == TasksOf(p, UseModular(p.with))
         IN  \A m, n \in 1..Len(list) : m < n => Leaves(p, list[n], p, list[m])
<1> DEFINE list == TasksOf(p, UseModular(p.with))
<1> SUFFICES ASSUME NEW m \in 1..Len(list), NEW n \in 1..Len(list), m < n, NEW u \in Units
             PROVE  /\ Enables(p, list[n], u) => ~AskedOff(p, list[m], u)
                    /\ Disables(p, list[n], u) => ~AskedOn(p, list[m], u)
                    /\ Starts(p, list[n], u) => ~AskedDown(list[m], u)
                    /\ Stops(p, list[n], u) => ~AskedUp(list[m], u)
  BY DEF Leaves
<1>1. n # 1 /\ m # Len(list) /\ p.role = "libvirt" /\ p.with \in Settings
  <2>1. Len(list) \in Nat
    BY TasksOfSound DEF Plays, LibvirtPlays, UseModular
  <2> HIDE DEF list
  <2> QED
    BY <2>1 DEF LibvirtPlays
<1>2. CASE UseModular(p.with)
  <2>1. list = ModularTasks(p.with)
    BY <1>1, <1>2 DEF TasksOf
  <2>2. /\ ~Disables(p, list[n], u) /\ ~Stops(p, list[n], u)
        /\ Enables(p, list[n], u) \/ Starts(p, list[n], u) => u[1] # "libvirtd"
    BY <1>1, <1>2, <2>1, ModularDoes
  <2>3. AskedOff(p, list[m], u) \/ AskedDown(list[m], u) => u[1] = "libvirtd"
    <3>1. CASE m = 1
      BY <1>1, <2>1, <3>1, ModularTask, AllMonolithic DEF AskedOff, AskedDown
    <3>2. CASE m # 1
      BY <1>2, <2>1, <3>2, ModularDoes
    <3> QED
      BY <3>1, <3>2
  <2> QED
    BY <2>2, <2>3
<1>3. CASE ~UseModular(p.with)
  <2>1. list = MonolithicTasks(p.with)
    BY <1>1, <1>3 DEF TasksOf
  <2>2. /\ Enables(p, list[n], u) => u[1] \in Kept /\ (u \in Remotes => Wanted(p, u))
        /\ Starts(p, list[n], u) => u[1] \in Kept
        /\ Disables(p, list[n], u) => u[1] \in Kept /\ (u \in Remotes => ~Wanted(p, u))
    BY <1>1, <1>3, <2>1, MonolithicDoes
  <2>3. CASE m = 1
    <3>1. list[m].op = "disable" /\ (Lists(list[m], u) => u[1] \notin Kept)
      BY <1>1, <2>1, <2>3, MonolithicTask
    <3> QED
      BY <2>2, <3>1 DEF AskedOff, AskedOn, AskedDown, AskedUp
  <2>4. CASE m # 1
    <3>1. /\ AskedOff(p, list[m], u) => u \in Remotes /\ ~Wanted(p, u)
          /\ ~AskedDown(list[m], u) /\ ~AskedUp(list[m], u)
          /\ AskedOn(p, list[m], u) => u \in Remotes /\ Wanted(p, u)
      BY <1>1, <1>3, <2>1, <2>4, MonolithicDoes
    <3> QED
      BY <2>2, <3>1
  <2> QED
    BY <2>3, <2>4
<1> QED
  BY <1>2, <1>3

\* Nor does a later task of an operator's play.
LEMMA UserLasts ==
  ASSUME PlaysApart, NEW p \in Plays, p.role = "user", NEW modular \in BOOLEAN
  PROVE  LET list == TasksOf(p, modular)
         IN  \A m, n \in 1..Len(list) : m < n => Leaves(p, list[n], p, list[m])
<1> DEFINE list == TasksOf(p, modular)
<1>1. /\ p.with \in UserPlays /\ list = p.with.tasks /\ DOMAIN list = 1..Len(list)
      /\ \A n \in 1..Len(list) : list[n].op \in Ops /\ IsList(list[n].units)
  <2>1. p.with \in UserPlays
    BY PlaysAssumption DEF Plays, LibvirtPlays
  <2>2. list = p.with.tasks
    BY DEF TasksOf
  <2> QED
    BY <2>1, <2>2, PlaysAssumption DEF IsList
<1> HIDE DEF list
<1> SUFFICES ASSUME NEW m \in 1..Len(list), NEW n \in 1..Len(list), m < n, NEW u \in Units
             PROVE  /\ Enables(p, list[n], u) => ~AskedOff(p, list[m], u)
                    /\ Disables(p, list[n], u) => ~AskedOn(p, list[m], u)
                    /\ Starts(p, list[n], u) => ~AskedDown(list[m], u)
                    /\ Stops(p, list[n], u) => ~AskedUp(list[m], u)
  BY DEF Leaves, list
<1> DEFINE x == list[m]
           y == list[n]
<1>2. /\ x.op \notin {"flush", "remote"} /\ y.op \notin {"flush", "remote"}
      /\ \A v : Lists(x, v) => v \in ToSet(x.units)
      /\ \A v : Lists(y, v) => v \in ToSet(y.units)
  BY <1>1, ListedIn DEF Ops
<1> DEFINE Agree(a, b) ==
             \A v \in ToSet(a.units) \cap Units, w \in ToSet(b.units) \cap Units :
               /\ a.op \in {"enable", "ensure"} /\ b.op = "disable" =>
                    w \notin Filed(v) /\ v \notin Filed(w)
               /\ a.op \in {"start", "ensure"} /\ b.op \in {"disable", "stop"} =>
                    w \notin {v} \cup Woken(v) /\ v \notin Hanging(w)
<1>3. Agree(x, y) /\ Agree(y, x)
  <2>1. \A a, b \in DOMAIN p.with.tasks : Agree(p.with.tasks[a], p.with.tasks[b])
    BY <1>1 DEF PlaysApart
  <2> HIDE DEF Agree
  <2> QED
    BY <1>1, <2>1
<1> HIDE DEF x, y
<1>4. Enables(p, y, u) => ~AskedOff(p, x, u)
  <2> SUFFICES ASSUME Enables(p, y, u), AskedOff(p, x, u) PROVE FALSE
    OBVIOUS
  <2>1. PICK v \in Units : Lists(y, v) /\ y.op \in {"enable", "ensure"} /\ u \in Filed(v)
    BY <1>2 DEF Enables, AskedOn, Flushes
  <2>2. Lists(x, u) /\ x.op = "disable"
    BY <1>2 DEF AskedOff
  <2> QED
    BY <1>2, <1>3, <2>1, <2>2
<1>5. Disables(p, y, u) => ~AskedOn(p, x, u)
  <2> SUFFICES ASSUME Disables(p, y, u), AskedOn(p, x, u) PROVE FALSE
    OBVIOUS
  <2>1. PICK v \in Units : Lists(y, v) /\ y.op = "disable" /\ u \in Filed(v)
    BY <1>2 DEF Disables, AskedOff
  <2>2. Lists(x, u) /\ x.op \in {"enable", "ensure"}
    BY <1>2 DEF AskedOn
  <2> QED
    BY <1>2, <1>3, <2>1, <2>2
<1>6. Starts(p, y, u) => ~AskedDown(x, u)
  <2> SUFFICES ASSUME Starts(p, y, u), AskedDown(x, u) PROVE FALSE
    OBVIOUS
  <2>1. PICK v \in Units : /\ Lists(y, v) /\ y.op \in {"start", "ensure"}
                           /\ u \in {v} \cup Woken(v)
    BY <1>2 DEF Starts, AskedUp, Flushes, FlushesSocket, FlushesRemote
  <2>2. Lists(x, u) /\ x.op \in {"disable", "stop"}
    BY <1>2 DEF AskedDown
  <2> QED
    BY <1>2, <1>3, <2>1, <2>2
<1>7. Stops(p, y, u) => ~AskedUp(x, u)
  <2> SUFFICES ASSUME Stops(p, y, u), AskedUp(x, u) PROVE FALSE
    OBVIOUS
  <2>1. PICK v \in Units : /\ Lists(y, v) /\ y.op \in {"disable", "stop"}
                           /\ u \in {v} \cup Hanging(v)
    BY <1>2 DEF Stops, AskedDown, FlushesRemote
  <2>2. Lists(x, u) /\ x.op \in {"start", "ensure"}
    BY <1>2 DEF AskedUp
  <2> QED
    BY <1>2, <1>3, <2>1, <2>2
<1> QED
  BY <1>4, <1>5, <1>6, <1>7 DEF x, y

LEMMA DependentTasks ==
  ASSUME NEW p \in Plays, p.role \in Dependents, NEW m \in BOOLEAN
  PROVE  /\ p = [role |-> p.role, with |-> None]
         /\ Len(TasksOf(p, m)) = 1 /\ TasksOf(p, m)[1].op = "ensure"
<1>1. p.role \notin {"libvirt", "user"}
  BY PlaysAssumption
<1>2. p \in [role: Dependents, with: {None}]
  BY <1>1 DEF Plays, LibvirtPlays
<1>3. TasksOf(p, m) = <<Task("ensure", IF m THEN <<<<"qemu", "socket">>, <<p.role, "socket">>>>
                                       ELSE <<Libvirtd>>)>>
  BY <1>1 DEF TasksOf
<1> QED
  BY <1>2, <1>3 DEF Task

LEMMA LastingHolds ==
  ASSUME ModelsApart, PlaysApart
  PROVE  Lasting
<1> SUFFICES ASSUME NEW p \in Plays,
                    NEW modular \in (IF p.role = "libvirt" THEN {UseModular(p.with)} ELSE BOOLEAN)
             PROVE  \A m, n \in 1..Len(TasksOf(p, modular)) :
                      m < n => Leaves(p, TasksOf(p, modular)[n], p, TasksOf(p, modular)[m])
  BY DEF Lasting
<1>1. CASE p.role = "libvirt"
  <2>1. p \in LibvirtPlays /\ modular = UseModular(p.with)
    BY <1>1, PlaysAssumption DEF Plays, LibvirtPlays
  <2> QED
    BY <2>1, RoleLasts
<1>2. CASE p.role = "user"
  BY <1>2, UserLasts
<1>3. CASE p.role \in Dependents
  <2>1. Len(TasksOf(p, modular)) = 1
    BY <1>3, DependentTasks, PlaysAssumption
  <2>2. \A m, n \in 1..1 : ~(m < n)
    OBVIOUS
  <2> QED
    BY <2>1, <2>2
<1> QED
  BY <1>1, <1>2, <1>3 DEF Plays, LibvirtPlays

\* A task of theirs touches only what goes with the units it ensures.
LEMMA EnsureDoes ==
  ASSUME NEW q \in Plays, q.role \in Dependents, NEW y, y.op = "ensure", NEW u \in Units
  PROVE  /\ ~Disables(q, y, u) /\ ~Stops(q, y, u)
         /\ Enables(q, y, u) => \E v \in Units : Lists(y, v) /\ u \in Filed(v)
         /\ Starts(q, y, u) => \E v \in Units : Lists(y, v) /\ u \in {v} \cup Woken(v)
<1>1. q.role # "libvirt" /\ ~Flushes(q, y, Libvirtd)
  BY PlaysAssumption DEF Flushes
<1>2. \A d, v : ~FlushesSocket(q, y, d) /\ ~FlushesRemote(q, y, v)
  BY DEF FlushesSocket, FlushesRemote
<1> QED
  BY <1>1, <1>2 DEF Disables, Stops, Enables, Starts, AskedOn, AskedOff,
                    AskedUp, AskedDown

\* The roles that depend on libvirt ensure units of the daemon model they find.
LEMMA DependentUnits ==
  ASSUME NEW q \in Plays, q.role \in Dependents, NEW m \in BOOLEAN,
         NEW v, Lists(TasksOf(q, m)[1], v)
  PROVE  IF m THEN v[1] # "libvirtd" ELSE v = Libvirtd
<1>1. q.role \notin {"libvirt", "user", "libvirtd"}
  BY PlaysAssumption
<1>2. CASE m
  <2>1. TasksOf(q, m)[1].units = <<<<"qemu", "socket">>, <<q.role, "socket">>>>
    BY <1>1, <1>2 DEF TasksOf, Task
  <2>2. v = <<"qemu", "socket">> \/ v = <<q.role, "socket">>
    BY <2>1 DEF Lists
  <2> QED
    BY <1>1, <1>2, <2>2
<1>3. CASE ~m
  <2>1. TasksOf(q, m)[1].units = <<Libvirtd>>
    BY <1>1, <1>3 DEF TasksOf, Task
  <2> QED
    BY <1>3, <2>1, OneUnit
<1> QED
  BY <1>2, <1>3

LEMMA DependentLeaves ==
  ASSUME ModelsApart, NEW p \in LibvirtPlays, NEW q \in Plays, q.role \in Dependents
  PROVE  LET first == TasksOf(p, UseModular(p.with))
             second == TasksOf(q, UseModular(p.with))
         IN  \A m \in 1..Len(first), n \in 1..Len(second) : Leaves(q, second[n], p, first[m])
<1> DEFINE first == TasksOf(p, UseModular(p.with))
           second == TasksOf(q, UseModular(p.with))
           y == second[1]
<1>1. UseModular(p.with) \in BOOLEAN /\ p.role = "libvirt" /\ p.with \in Settings
  BY DEF LibvirtPlays, UseModular
<1>2. Len(second) = 1 /\ y.op = "ensure" /\ \A n \in 1..1 : n = 1
  BY <1>1, DependentTasks
<1> SUFFICES ASSUME NEW m \in 1..Len(first), NEW u \in Units
             PROVE  /\ Enables(q, y, u) => ~AskedOff(p, first[m], u)
                    /\ Disables(q, y, u) => ~AskedOn(p, first[m], u)
                    /\ Starts(q, y, u) => ~AskedDown(first[m], u)
                    /\ Stops(q, y, u) => ~AskedUp(first[m], u)
  BY <1>2 DEF Leaves
<1>3. \A v : Lists(y, v) => IF UseModular(p.with) THEN v[1] # "libvirtd" ELSE v = Libvirtd
  BY <1>1, DependentUnits
<1> HIDE DEF second, y
<1>4. /\ ~Disables(q, y, u) /\ ~Stops(q, y, u)
      /\ Enables(q, y, u) => \E v \in Units : Lists(y, v) /\ u \in Filed(v)
      /\ Starts(q, y, u) => \E v \in Units : Lists(y, v) /\ u \in {v} \cup Woken(v)
  BY <1>1, <1>2, EnsureDoes
<1>5. CASE UseModular(p.with)
  <2>1. first = ModularTasks(p.with)
    BY <1>1, <1>5 DEF TasksOf
  <2>2. Enables(q, y, u) \/ Starts(q, y, u) => u[1] # "libvirtd"
    BY <1>3, <1>4, <1>5, SameModel DEF Filed
  <2>3. AskedOff(p, first[m], u) \/ AskedDown(first[m], u) => u[1] = "libvirtd"
    <3>1. CASE m = 1
      BY <1>1, <2>1, <3>1, ModularTask, AllMonolithic DEF AskedOff, AskedDown
    <3>2. CASE m # 1
      BY <1>5, <2>1, <3>2, ModularDoes
    <3> QED
      BY <3>1, <3>2
  <2> QED
    BY <1>4, <2>2, <2>3
<1>6. CASE ~UseModular(p.with)
  <2>1. first = MonolithicTasks(p.with)
    BY <1>1, <1>6 DEF TasksOf
  <2>2. /\ Enables(q, y, u) => u[1] \in Kept /\ u \notin Remotes
        /\ Starts(q, y, u) => u[1] \in Kept
    <3>1. /\ Libvirtd[1] = "libvirtd" /\ Libvirtd \notin Remotes
          /\ Libvirtd \in Filed(Libvirtd)
      BY DEF Libvirtd, Remotes, Filed
    <3>2. Enables(q, y, u) => Libvirtd \in Units /\ u \in Filed(Libvirtd)
      BY <1>3, <1>4, <1>6
    <3>3. Starts(q, y, u) => Libvirtd \in Units /\ u \in Filed(Libvirtd) \cup Woken(Libvirtd)
      BY <1>3, <1>4, <1>6, <3>1
    <3>4. Libvirtd \in Units => Also[Libvirtd] \cap Remotes \subseteq {Libvirtd}
      BY DEF ModelsApart
    <3> QED
      BY <3>1, <3>2, <3>3, <3>4, SameModel DEF Filed
  <2>3. /\ AskedOff(p, first[m], u) => u[1] \notin Kept \/ u \in Remotes
        /\ AskedDown(first[m], u) => u[1] \notin Kept
    <3>1. CASE m = 1
      BY <1>1, <2>1, <3>1, MonolithicTask DEF AskedOff, AskedDown
    <3>2. CASE m # 1
      BY <1>6, <2>1, <3>2, MonolithicDoes
    <3> QED
      BY <3>1, <3>2
  <2> QED
    BY <1>4, <2>2, <2>3
<1> QED
  BY <1>5, <1>6

LEMMA SharedHolds ==
  ASSUME ModelsApart
  PROVE  Shared
<1>1. ASSUME NEW d \in Dependents
      PROVE  [role |-> d, with |-> None] \in Plays
  BY DEF Plays
<1> QED
  BY <1>1, DependentLeaves DEF Shared

\* A play that succeeds right after it has succeeded, with nobody else at work, reports no
\* change and notifies no handler: what it has done for one task is not undone by another,
\* nor by the handlers, as long as the units that go along with those of one daemon model
\* belong to it, and an operator's plays do not contradict themselves
\* (roles/libvirt/tasks/services, module_utils/libvirt_service.py).
THEOREM RerunsSilently == ModelsApart /\ PlaysApart => (Spec => []PlayIdempotent)
<1> SUFFICES ASSUME Lasting PROVE Spec => []PlayIdempotent
  BY LastingHolds
<1>1. Inv /\ Account => PlayIdempotent
  <2> SUFFICES ASSUME Inv, Account, settled
               PROVE  pending = {} /\ (TaskEnds => \A j \in DOMAIN entries : ~entries[j].changed)
    BY DEF PlayIdempotent
  <2>1. Rested
    BY DEF Account
  <2>2. ASSUME TaskEnds PROVE ~Changed
    <3>1. pc \in TaskPCs /\ Clean /\ calm /\ host = before
      BY <2>1, <2>2 DEF TaskEnds, Clean, Rested, TaskPCs
    <3> QED
      BY <3>1, <2>2, Ended DEF Progress
  <2> QED
    BY <2>1, <2>2 DEF Rested, Changed
<1> QED
  BY <1>1, Accounted, PTL

-----------------------------------------------------------------------------
(* The daemon model that is kept *)

\* While a daemon model is kept, the plays follow it, and all that its play asked is so.
KeptPlay == [role |-> "libvirt", with |-> kept]
KeptTasks == TasksOf(KeptPlay, UseModular(kept))
KeptMet == \A n \in 1..Len(KeptTasks) : Met(KeptPlay, KeptTasks[n])

Keeping ==
  kept # None =>
    /\ fact = Published(UseModular(kept))
    /\ pc # "idle" =>
         play.role \in Dependents /\ (pc # "prepare" => use = UseModular(kept))
    /\ KeptMet

LEMMA SameKept ==
  ASSUME KeptMet, UNCHANGED <<file, run, kept>>
  PROVE  KeptMet'
<1>1. UNCHANGED <<KeptPlay, KeptTasks>>
  BY DEF KeptPlay, KeptTasks
<1>2. ASSUME NEW n \in 1..Len(KeptTasks)
      PROVE  Met(KeptPlay, KeptTasks[n])'
  <2> DEFINE x == KeptTasks[n]
  <2>1. Met(KeptPlay, x)
    BY DEF KeptMet
  <2> QED
    BY <1>1, <2>1, SameMet
<1> QED
  BY <1>1, <1>2 DEF KeptMet

\* What a dependent role's task does to units leaves what was asked.
LEMMA DependentKeeps ==
  ASSUME Shared, Inv, Keeping, kept # None, pc # "idle", pc # "prepare",
         NEW y, y = Tasks[1], TouchesFiles(play, y), TouchesRuns(play, y), kept' = kept
  PROVE  KeptMet'
<1>1. /\ play \in Plays /\ play.role \in Dependents /\ use = UseModular(kept)
      /\ kept \in Settings /\ KeptMet
  BY DEF Keeping, Inv, TypeOK, Maybe
<1>2. play = [role |-> play.role, with |-> None] /\ Len(Tasks) = 1 /\ y.op = "ensure"
  BY <1>1, DependentTasks DEF Tasks, Inv, TypeOK
<1>3. KeptPlay \in LibvirtPlays /\ KeptPlay.with = kept
  BY <1>1 DEF KeptPlay, LibvirtPlays
<1>4. Tasks = TasksOf([role |-> play.role, with |-> None], UseModular(KeptPlay.with))
  BY <1>1, <1>2, <1>3 DEF Tasks
<1>5. ASSUME NEW n \in 1..Len(KeptTasks)
      PROVE  Leaves(play, y, KeptPlay, KeptTasks[n])
  <2>1. 1 \in 1..Len(Tasks)
    BY <1>2
  <2> QED
    BY <1>1, <1>2, <1>3, <1>4, <2>1 DEF Shared, KeptTasks
<1>6. UNCHANGED <<KeptPlay, KeptTasks>>
  BY DEF KeptPlay, KeptTasks
<1>7. ASSUME NEW n \in 1..Len(KeptTasks)
      PROVE  Met(KeptPlay, KeptTasks[n])'
  <2>1. Met(KeptPlay, KeptTasks[n])
    BY <1>1 DEF KeptMet
  <2> QED
    BY <1>2, <1>5, <1>6, <2>1, TouchedMet
<1> QED
  BY <1>6, <1>7 DEF KeptMet

LEMMA EndPlayKeeping ==
  ASSUME Inv, Account, Keeping, EndPlay
  PROVE  Keeping'
<1>1. /\ pc = "next" /\ pc' = "idle" /\ t \in Nat /\ t > Len(Tasks) /\ Len(Tasks) \in Nat
      /\ UNCHANGED <<file, run, play, use, fact, Tasks>>
  BY InvParts, TasksInHand DEF EndPlay, Tasks, host
<1>2. CASE play.role = "libvirt" /\ quiet
  <2>1. kept' = play.with /\ play \in LibvirtPlays /\ play = [role |-> "libvirt", with |-> kept']
    BY <1>2, PlaysAssumption DEF EndPlay, Inv, TypeOK, Plays, LibvirtPlays
  <2>2. use = UseModular(kept') /\ fact = Published(use)
    BY <1>1, <1>2, <2>1 DEF Account, Resolved
  <2>3. play = KeptPlay' /\ Tasks = KeptTasks'
    BY <2>1, <2>2 DEF KeptPlay, KeptTasks, Tasks
  <2>4. ASSUME NEW n \in 1..Len(Tasks)
        PROVE  Met(play, Tasks[n])'
    <3>1. Met(play, Tasks[n])
      BY <1>1, <1>2 DEF Account, Behind, TaskPCs
    <3> QED
      BY <1>1, <3>1, SameMet
  <2>5. KeptMet'
    BY <1>1, <2>3, <2>4 DEF KeptMet
  <2> QED
    BY <1>1, <2>2, <2>5 DEF Keeping
<1>3. CASE ~(play.role = "libvirt" /\ quiet)
  <2>1. kept' = kept
    BY <1>3 DEF EndPlay
  <2> QED
    BY <1>1, <2>1, SameKept DEF Keeping
<1> QED
  BY <1>2, <1>3

LEMMA BeginPlayKeeping ==
  ASSUME Keeping, BeginPlay
  PROVE  Keeping'
<1>1. /\ pc' = "prepare" /\ UNCHANGED <<file, run, fact>>
      /\ kept' = IF play'.role \in Dependents THEN kept ELSE None
  BY DEF BeginPlay, host
<1> QED
  BY <1>1, SameKept DEF Keeping

LEMMA ResolveKeeping ==
  ASSUME Keeping, Resolve
  PROVE  Keeping'
<1>1. pc = "prepare" /\ UNCHANGED <<file, run, play, kept>>
  BY DEF Resolve, FailPlay, host, plays
<1>2. CASE pc' = "idle"
  <2>1. fact' = fact
    BY <1>2 DEF Resolve, FailPlay
  <2> QED
    BY <1>1, <1>2, <2>1, SameKept DEF Keeping
<1>3. CASE pc' # "idle"
  <2> SUFFICES ASSUME kept # None PROVE Keeping'
    BY <1>1 DEF Keeping
  <2>1. play.role \in Dependents /\ play.role \notin {"libvirt", "user"}
    BY <1>1, PlaysAssumption DEF Keeping
  <2>2. use' = Follow /\ fact' = fact
    BY <1>3, <2>1 DEF Resolve, FailPlay
  <2>3. UseModular(kept) \in BOOLEAN
    BY DEF UseModular
  <2>4. Follow = UseModular(kept)
    BY <1>1, <2>3 DEF Follow, Keeping, Published
  <2> QED
    BY <1>1, <2>1, <2>2, <2>4, SameKept DEF Keeping
<1> QED
  BY <1>2, <1>3

\* A play that keeps a model is one of a dependent role, and has only a task that ensures.
LEMMA OnlyEnsures ==
  ASSUME Inv, Keeping, kept # None, pc # "idle"
  PROVE  /\ pc # "render" /\ ~Doing("flush") /\ ~Doing("remote")
         /\ pc \in TaskPCs => task = Tasks[1] /\ task.op = "ensure"
<1>1. play \in Plays /\ play.role \in Dependents /\ use \in BOOLEAN /\ play.role # "libvirt"
  BY PlaysAssumption DEF Keeping, Inv, TypeOK
<1>2. Len(Tasks) = 1 /\ Tasks[1].op = "ensure"
  BY <1>1, DependentTasks DEF Tasks
<1>3. t \in 1..(Len(Tasks) + 1)
  BY DEF Inv, TypeOK
<1>4. t <= Len(Tasks) => t = 1
  BY <1>2, <1>3
<1> QED
  BY <1>1, <1>2, <1>4 DEF Doing, Inv, Stage, TaskPCs

LEMMA TaskKeeping ==
  ASSUME Shared, Inv, Keeping, (Apply /\ UNCHANGED plays) \/ EnsureUnit
  PROVE  Keeping'
<1>1. InTask /\ Shaped
  BY UnitShaped, EnsureShaped
<1>2. /\ pc \in TaskPCs /\ pc' \in TaskPCs
      /\ UNCHANGED <<play, use, fact, kept>>
  BY <1>1 DEF InTask, TaskPCs, Shaped, Reads, Dies, Halts, GoHalfway, Ends, EndUnit, plays
<1> SUFFICES ASSUME kept # None PROVE Keeping'
  BY <1>2 DEF Keeping
<1>3. task = Tasks[1] /\ task.op = "ensure"
  BY <1>2, OnlyEnsures DEF TaskPCs
<1>4. TouchesFiles(play, task) /\ TouchesRuns(play, task)
  BY <1>3, TaskTouches DEF Inv
<1>5. KeptMet'
  BY <1>2, <1>3, <1>4, DependentKeeps DEF TaskPCs
<1> QED
  BY <1>2, <1>5 DEF Keeping, TaskPCs

\* The steps between the tasks leave the host alone.
LEMMA BetweenKeeping ==
  ASSUME Inv, Keeping,
         Render \/ BeginTask \/ EndTask \/ SetRemote \/ RunHandler \/ EndFlush
  PROVE  Keeping'
<1>1. UNCHANGED <<play, use, fact, kept>> /\ pc \notin {"idle", "prepare"}
  BY DEF Render, BeginTask, EndTask, SetRemote, RunHandler, EndFlush, FailPlay, Doing, plays
<1>2. pc' # "prepare"
  BY <1>1 DEF Render, BeginTask, EndTask, SetRemote, RunHandler, EndFlush, FailPlay
<1> SUFFICES ASSUME kept # None PROVE Keeping'
  BY <1>1 DEF Keeping
<1>3. pc # "render" /\ ~Doing("flush") /\ ~Doing("remote")
  BY <1>1, OnlyEnsures
<1>4. BeginTask \/ EndTask
  BY <1>3 DEF Render, SetRemote, RunHandler, EndFlush
<1>5. UNCHANGED <<file, run>>
  BY <1>4 DEF BeginTask, EndTask, host
<1> QED
  BY <1>1, <1>2, <1>5, SameKept DEF Keeping

LEMMA NextKeeping ==
  ASSUME Shared, Inv, Account, Keeping, [Next]_vars
  PROVE  Keeping'
<1>1. CASE Next /\ kept' # None
  BY <1>1, BeginPlayKeeping, ResolveKeeping, BetweenKeeping, TaskKeeping, EndPlayKeeping
     DEF Next, Work
<1>2. CASE kept' = None
  BY <1>2 DEF Keeping
<1>3. CASE UNCHANGED vars
  BY <1>3, SameKept DEF vars, Keeping
<1> QED
  BY <1>1, <1>2, <1>3

\* Which tasks a play of the libvirt role has.
LEMMA ModularHas ==
  ASSUME NEW s \in Settings
  PROVE  LET list == ModularTasks(s)
             Has(x) == \E n \in 1..Len(list) : list[n] = x
         IN  /\ Has(Task("disable", Monolithic))
             /\ Has(Task("enable", modular_sockets(s.services)))
             /\ Has(Task("enable", modular_services(s.services)))
             /\ s.listen # {} => Has(Task("enable", libvirt_proxy_daemons(s.listen)))
<1> DEFINE a == Task("disable", Monolithic)
           b == Task("enable", modular_sockets(s.services))
           c == Task("enable", modular_services(s.services))
           d == Task("enable", libvirt_proxy_daemons(s.listen))
           e == Task("start", proxy_services)
           f == Task("flush", <<>>)
           list == ModularTasks(s)
<1>1. list = <<a, b, c>> \o (IF s.listen = {} THEN <<>> ELSE <<d, e>>) \o <<f>>
  BY DEF ModularTasks
<1> HIDE DEF a, b, c, d, e, f, list
<1>2. Len(list) \in {4, 6} /\ list[1] = a /\ list[2] = b /\ list[3] = c
      /\ (s.listen # {} => Len(list) = 6 /\ list[4] = d)
  <2>1. CASE s.listen = {}
    <3>1. list = (<<a, b, c>> \o <<>>) \o <<f>>
      BY <1>1, <2>1
    <3> QED
      BY <2>1, <3>1
  <2>2. CASE s.listen # {}
    <3>1. list = (<<a, b, c>> \o <<d, e>>) \o <<f>>
      BY <1>1, <2>2
    <3> QED
      BY <2>2, <3>1
  <2> QED
    BY <2>1, <2>2
<1>3. 1 \in 1..Len(list) /\ 2 \in 1..Len(list) /\ 3 \in 1..Len(list)
      /\ (s.listen # {} => 4 \in 1..Len(list))
  BY <1>2
<1> QED
  BY <1>2, <1>3 DEF a, b, c, d, list

LEMMA MonolithicHas ==
  ASSUME NEW s \in Settings
  PROVE  LET list == MonolithicTasks(s)
             Has(x) == \E n \in 1..Len(list) : list[n] = x
         IN  /\ Has(Task("disable", modular_daemons_off(s.services)))
             /\ LibvirtdWanted(s) =>
                  /\ \A r \in Remotes : Has(Task("remote", <<r>>))
                  /\ Has(Task("ensure", <<Libvirtd>>))
<1> DEFINE a == Task("disable", modular_daemons_off(s.services))
           b == Task("remote", <<<<"libvirtd", "tcp">>>>)
           c == Task("remote", <<<<"libvirtd", "tls">>>>)
           f == Task("flush", <<>>)
           e == Task("ensure", <<Libvirtd>>)
           list == MonolithicTasks(s)
<1>1. list = <<a>> \o (IF LibvirtdWanted(s) THEN <<b, c, f, e>> ELSE <<f>>)
  BY DEF MonolithicTasks
<1>2. \A r \in Remotes : Task("remote", <<r>>) = b \/ Task("remote", <<r>>) = c
  BY DEF Remotes
<1> HIDE DEF a, b, c, e, f, list
<1>3. CASE LibvirtdWanted(s)
  <2>1. list = <<a>> \o <<b, c, f, e>>
    BY <1>1, <1>3
  <2>2. Len(list) = 5 /\ list[1] = a /\ list[2] = b /\ list[3] = c /\ list[5] = e
    BY <2>1
  <2>3. 1 \in 1..Len(list) /\ 2 \in 1..Len(list) /\ 3 \in 1..Len(list) /\ 5 \in 1..Len(list)
    BY <2>2
  <2> QED
    BY <1>2, <2>2, <2>3 DEF a, e, list
<1>4. CASE ~LibvirtdWanted(s)
  <2>1. list = <<a>> \o <<f>>
    BY <1>1, <1>4
  <2>2. 1 \in 1..Len(list) /\ list[1] = a
    BY <2>1
  <2> QED
    BY <1>4, <2>2 DEF a, list
<1> QED
  BY <1>3, <1>4

LEMMA MetOff ==
  ASSUME NEW p, NEW units, IsList(units), Met(p, Task("disable", units))
  PROVE  Off(units)
<1>1. \A u \in ToSet(units) : Lists(Task("disable", units), u)
  BY DEF IsList, ToSet, Lists, Task
<1> QED
  BY <1>1 DEF Off, Met, AskedOff, AskedDown, Task

LEMMA MetOn ==
  ASSUME NEW p, NEW units, IsList(units), Met(p, Task("enable", units))
  PROVE  On(units)
<1>1. \A u \in ToSet(units) : Lists(Task("enable", units), u)
  BY DEF IsList, ToSet, Lists, Task
<1> QED
  BY <1>1 DEF On, Met, AskedOn, Task

LEMMA MetSwitched ==
  ASSUME kept \in Settings, KeptMet
  PROVE  Switched(kept)
<1>1. \A x : (\E n \in 1..Len(KeptTasks) : KeptTasks[n] = x) => Met(KeptPlay, x)
  BY DEF KeptMet
<1>2. KeptPlay.role = "libvirt" /\ KeptPlay.with = kept
  BY DEF KeptPlay
<1>3. CASE UseModular(kept)
  <2>1. KeptTasks = ModularTasks(kept)
    BY <1>2, <1>3 DEF KeptTasks, TasksOf
  <2>2. /\ Met(KeptPlay, Task("disable", Monolithic))
        /\ Met(KeptPlay, Task("enable", modular_sockets(kept.services)))
        /\ Met(KeptPlay, Task("enable", modular_services(kept.services)))
        /\ kept.listen # {} => Met(KeptPlay, Task("enable", libvirt_proxy_daemons(kept.listen)))
    BY <1>1, <2>1, ModularHas
  <2>3. IsList(Monolithic) /\ IsList(libvirt_proxy_daemons(kept.listen))
        /\ IsList(modular_sockets(kept.services)) /\ IsList(modular_services(kept.services))
    BY ModularLists
  <2> QED
    BY <1>3, <2>2, <2>3, MetOff, MetOn DEF Switched
<1>4. CASE ~UseModular(kept)
  <2>1. KeptTasks = MonolithicTasks(kept)
    BY <1>2, <1>4 DEF KeptTasks, TasksOf
  <2>2. Off(modular_daemons_off(kept.services))
    BY <1>1, <2>1, MonolithicHas, MetOff, ModularLists
  <2>3. ASSUME LibvirtdWanted(kept)
        PROVE  file[Libvirtd] = "enabled" /\ run[Libvirtd] # "inactive"
    <3> DEFINE x == Task("ensure", <<Libvirtd>>)
    <3>1. Met(KeptPlay, x)
      BY <1>1, <2>1, <2>3, MonolithicHas
    <3>2. x.op = "ensure" /\ 1 \in DOMAIN x.units /\ x.units[1] = Libvirtd
      BY DEF Task
    <3> HIDE DEF x
    <3>3. Libvirtd \in Units /\ Lists(x, Libvirtd)
      BY <3>1, <3>2 DEF Met, Present, Lists
    <3> QED
      BY <3>1, <3>2, <3>3 DEF Met, AskedOn, AskedUp
  <2>4. ASSUME LibvirtdWanted(kept), NEW r \in Remotes \cap Units, file[r] # "masked"
        PROVE  (file[r] = "enabled") = (r[2] \in Enabled(kept, "libvirtd"))
    <3> DEFINE x == Task("remote", <<r>>)
    <3>1. Met(KeptPlay, x)
      BY <1>1, <2>1, <2>4, MonolithicHas
    <3>2. x.op = "remote" /\ 1 \in DOMAIN x.units /\ x.units[1] = r
      BY DEF Task
    <3> HIDE DEF x
    <3>3. Lists(x, r) /\ (Wanted(KeptPlay, r) <=> r[2] \in Enabled(kept, "libvirtd"))
      BY <1>2, <3>2 DEF Lists, Wanted
    <3> QED
      BY <2>4, <3>1, <3>2, <3>3 DEF Met, AskedOn, AskedOff
  <2> QED
    BY <1>4, <2>2, <2>3, <2>4 DEF Switched
<1> QED
  BY <1>3, <1>4

\* Once a play of the libvirt role has succeeded with nobody else at work, the host stays
\* in the daemon model it asks for through any plays of the roles that rely on it, whether
\* they succeed or fail: none of the play's tasks and handlers undoes an earlier one's, and
\* the fact it publishes leads the other roles to the units of the same model, whose
\* companions belong to it too (roles/libvirt/tasks,
\* roles/storage_pool/tasks/prepare.yml, roles/network/tasks).
THEOREM KeepsModel == ModelsApart /\ PlaysApart => (Spec => []ModelKept)
<1> SUFFICES ASSUME Lasting, Shared PROVE Spec => []ModelKept
  BY LastingHolds, SharedHolds
<1>1. Init => Keeping
  BY DEF Init, Keeping
<1>2. Inv /\ Account /\ Keeping /\ [Next]_vars => Keeping'
  BY NextKeeping
<1>3. Inv /\ Keeping => ModelKept
  <2> SUFFICES ASSUME Inv, Keeping, kept # None PROVE Switched(kept)
    BY DEF ModelKept
  <2> QED
    BY MetSwitched DEF Keeping, Inv, TypeOK, Maybe
<1> QED
  BY <1>1, <1>2, <1>3, Accounted, PTL DEF Spec
=============================================================================
