--------------------------- MODULE LibvirtService ---------------------------
(***************************************************************************)
(* The unit modules: LibvirtService (plugins/module_utils/                 *)
(* libvirt_service.py) and its two front ends modular_services.py and      *)
(* monolithic_services.py.  One task applies enable, disable, start or     *)
(* stop to a list of units: it reads the state of all of them once and     *)
(* then decides on each from that reading, one systemd call per step.      *)
(* Meanwhile clients connect to listening sockets, which starts daemons,   *)
(* and idle daemons exit.                                                  *)
(*                                                                         *)
(* file and run are systemd's state; task, status, k and entries are the   *)
(* module's; calm and before observe.  DaemonModel composes tasks into the *)
(* plays of the libvirt role.                                              *)
(***************************************************************************)
EXTENDS Naturals, Sequences

CONSTANTS
  Units,       \* the installed units
  Services,    \* those of them that are daemons
  SocketsOf,   \* the sockets that activate a service, and start with it
  RemoteOf,    \* the sockets that activate a service from afar
  Bound,       \* services that stop when one of their sockets is stopped
  Also,        \* the units enabled and disabled along with a unit
  MaxFaults,   \* bound on systemd errors
  MaxMeddle,   \* bound on steps of clients and idle exits
  MaxTrouble   \* bound on both together

VARIABLES file, run, pc, task, status, k, entries, faults, meddle, calm, before

host == <<file, run>>
bounds == <<faults, meddle>>

FileStates == {"enabled", "disabled", "masked"}
RunStates == {"inactive", "activating", "active"}
Ops == {"enable", "disable", "start", "stop", "ensure"}

\* UnitStatus, as far as the module looks at it.
Status == [enabled: BOOLEAN, masked: BOOLEAN, active: BOOLEAN]
Entry == [changed: BOOLEAN, failed: BOOLEAN]

ASSUME UnitsAssumption ==
  /\ Services \subseteq Units /\ Bound \subseteq Services
  /\ {SocketsOf, RemoteOf} \subseteq [Services -> SUBSET (Units \ Services)]
  /\ Also \in [Units -> SUBSET Units]
ASSUME LimitsAssumption == {MaxFaults, MaxMeddle, MaxTrouble} \subseteq Nat

-----------------------------------------------------------------------------
(* systemd *)

\* Starting a service starts its sockets; stopping a socket stops the services
\* bound to it.
Starting(u, how) ==
  [v \in Units |-> IF v = u THEN how
                   ELSE IF u \in Services /\ v \in SocketsOf[u] THEN "active"
                   ELSE run[v]]

Stopping(u) ==
  [v \in Units |-> IF v = u \/ (v \in Bound /\ u \in SocketsOf[v])
                   THEN "inactive" ELSE run[v]]

\* Unit files; a masked unit resists.
Marked(u, mark) ==
  [v \in Units |-> IF (v = u \/ v \in Also[u]) /\ file[v] # "masked"
                   THEN mark ELSE file[v]]

Unmasked(u) == [file EXCEPT ![u] = "disabled"]

-----------------------------------------------------------------------------
(* The module *)

Unit == task.units[k]
Was == status[Unit]

\* Control is at the current unit, or between the two calls it may need.
AtUnit(op) == pc = "unit" /\ task.op = op /\ Unit \in Units
Halfway(op) == pc = "half" /\ task.op = op

Done(changed) == [changed |-> changed, failed |-> FALSE]
Error == [changed |-> FALSE, failed |-> TRUE]

\* Faulty variant: the entry is lost.
EndUnitUnrecorded(entry) ==
  /\ IF k < Len(task.units) THEN k' = k + 1 /\ pc' = "unit"
                            ELSE k' = k /\ pc' = "result"
  /\ UNCHANGED <<entries, task, status, calm, before>>

\* The current unit's entry joins the result, and the next unit is up.
EndUnit(entry) ==
  /\ entries' = Append(entries, entry)
  /\ IF k < Len(task.units) THEN k' = k + 1 /\ pc' = "unit"
                            ELSE k' = k /\ pc' = "result"
  /\ UNCHANGED <<task, status, calm, before>>

EndQuietly(entry) == EndUnit(entry) /\ UNCHANGED <<host, bounds>>

GoHalfway == pc' = "half" /\ UNCHANGED <<task, status, k, entries, calm, before>>

Quiet == faults + meddle < MaxTrouble
Fault == Quiet /\ faults < MaxFaults /\ faults' = faults + 1 /\ UNCHANGED meddle

\* A systemd call fails: the unit is reported failed and unchanged, whatever an
\* earlier call did to it.
CallFails == Fault /\ EndUnit(Error) /\ UNCHANGED host

SetFile(new) == file' = new /\ UNCHANGED <<run, bounds>>
SetRun(new) == run' = new /\ UNCHANGED <<file, bounds>>

\* _apply connects and reads the state of every unit, or dies.
ReadStatus ==
  /\ pc = "status"
  /\ UNCHANGED <<host, task, k, calm, before>>
  /\ \/ /\ pc' = "unit"
        /\ status' = [u \in Units |-> [enabled |-> file[u] = "enabled",
                                       masked |-> file[u] = "masked",
                                       active |-> run[u] = "active"]]
        /\ UNCHANGED <<entries, bounds>>
     \/ Fault /\ pc' = "result" /\ entries' = <<Error>> /\ UNCHANGED status

SkipAbsentUnit ==
  pc = "unit" /\ task.op # "ensure" /\ Unit \notin Units /\ EndQuietly(Done(FALSE))

\* _enable_one
Unmask ==
  /\ AtUnit("enable") /\ Was.masked
  /\ \/ GoHalfway /\ SetFile(Unmasked(Unit))
     \/ CallFails

\* Faulty variant: unmasking is taken for enabling.
EnableUnlessUnmasked ==
  \/ Halfway("enable") /\ EndQuietly(Done(TRUE))
  \/ /\ AtUnit("enable") /\ ~Was.masked /\ ~Was.enabled
     /\ \/ EndUnit(Done(TRUE)) /\ SetFile(Marked(Unit, "enabled"))
        \/ CallFails

EnableUnit ==
  /\ Halfway("enable") \/ (AtUnit("enable") /\ ~Was.masked)
  /\ ~Was.enabled
  /\ \/ EndUnit(Done(TRUE)) /\ SetFile(Marked(Unit, "enabled"))
     \/ CallFails

AlreadyEnabled ==
  AtUnit("enable") /\ ~Was.masked /\ Was.enabled /\ EndQuietly(Done(FALSE))

\* _disable_one
StopToDisable ==
  /\ AtUnit("disable") /\ Was.active
  /\ \/ GoHalfway /\ SetRun(Stopping(Unit))
     \/ CallFails

DisableUnit ==
  /\ Halfway("disable") \/ (AtUnit("disable") /\ ~Was.active)
  /\ Was.enabled
  /\ \/ EndUnit(Done(TRUE)) /\ SetFile(Marked(Unit, "disabled"))
     \/ CallFails

\* Faulty variant: a unit that was only stopped counts as unchanged.
AlreadyDisabledSilently ==
  /\ Halfway("disable") \/ (AtUnit("disable") /\ ~Was.active)
  /\ ~Was.enabled
  /\ EndQuietly(Done(FALSE))

AlreadyDisabled ==
  /\ Halfway("disable") \/ (AtUnit("disable") /\ ~Was.active)
  /\ ~Was.enabled
  /\ EndQuietly(Done(Was.active))

\* _start_one waits for the unit; the wait may time out while the unit goes on
\* starting.
StartUnit ==
  /\ AtUnit("start") /\ ~Was.active
  /\ \/ EndUnit(Done(TRUE)) /\ SetRun(Starting(Unit, "active"))
     \/ CallFails
     \/ /\ Unit \in Services
        /\ Fault /\ EndUnit(Error)
        /\ run' = Starting(Unit, "activating") /\ UNCHANGED file

AlreadyRunning == AtUnit("start") /\ Was.active /\ EndQuietly(Done(FALSE))

\* _stop_one
StopUnit ==
  /\ AtUnit("stop") /\ Was.active
  /\ \/ EndUnit(Done(TRUE)) /\ SetRun(Stopping(Unit))
     \/ CallFails

AlreadyStopped == AtUnit("stop") /\ ~Was.active /\ EndQuietly(Done(FALSE))

Apply ==
  \/ ReadStatus \/ SkipAbsentUnit
  \/ Unmask \/ EnableUnit \/ AlreadyEnabled
  \/ StopToDisable \/ DisableUnit \/ AlreadyDisabled
  \/ StartUnit \/ AlreadyRunning
  \/ StopUnit \/ AlreadyStopped

-----------------------------------------------------------------------------
(* Clients and daemons *)

Meddle == Quiet /\ meddle < MaxMeddle /\ meddle' = meddle + 1 /\ UNCHANGED faults

Elsewhere ==
  calm' = FALSE /\ UNCHANGED <<file, pc, task, status, k, entries, before>>

\* A client connects to a listening socket: its daemon starts.
ClientConnects ==
  /\ Meddle /\ Elsewhere
  /\ \E s \in Services, how \in {"activating", "active"} :
       /\ run[s] = "inactive"
       /\ \E u \in SocketsOf[s] \cup RemoteOf[s] : run[u] = "active"
       /\ run' = Starting(s, how)

\* A daemon is up at last.
ComesUp ==
  /\ Elsewhere /\ UNCHANGED bounds
  /\ \E s \in Services :
       run[s] = "activating" /\ run' = [run EXCEPT ![s] = "active"]

\* An idle daemon exits; its sockets keep listening.
IdleExit ==
  /\ Meddle /\ Elsewhere
  /\ \E s \in Services : run[s] = "active" /\ run' = [run EXCEPT ![s] = "inactive"]

Outside == ClientConnects \/ ComesUp \/ IdleExit

-----------------------------------------------------------------------------
(* What a task promises *)

TaskEnds == pc = "result" /\ \A j \in DOMAIN entries : ~entries[j].failed

Listed == {task.units[j] : j \in DOMAIN task.units} \cap Units

\* A task that succeeds with nobody else at work reports a change exactly when
\* systemd's state changed, although units it handles disable and stop each other
\* after their state was read (libvirt_service.py:98-119).
TaskChangedExact ==
  TaskEnds /\ calm => (\E j \in DOMAIN entries : entries[j].changed) = (host # before)

\* And it leaves all of its units as asked, masked ones included
\* (libvirt_service.py:67-85).
TaskApplied ==
  TaskEnds /\ calm =>
    \A u \in Listed :
      /\ task.op = "enable" => file[u] = "enabled"
      /\ task.op = "disable" => file[u] # "enabled" /\ run[u] # "active"
      /\ task.op = "start" => run[u] = "active"
      /\ task.op = "stop" => run[u] # "active"
      /\ task.op = "ensure" => file[u] = "enabled" /\ run[u] # "inactive"

\* "Stop (if active) and disable (if enabled) each unit" (libvirt_service.py:73),
\* and "the monolithic 'libvirtd' is disabled automatically" (roles/libvirt/
\* molecule/configured/group_vars/all/vars.yml:5): none of them runs afterwards.
DisableStops ==
  TaskEnds /\ task.op = "disable" => \A u \in Listed : run[u] = "inactive"
=============================================================================
