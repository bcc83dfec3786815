--------------------------- MODULE LibvirtNetwork ---------------------------
(***************************************************************************)
(* The libvirt_network module (plugins/modules/libvirt_network.py), run    *)
(* again and again by the network role: the shared reconciler with the     *)
(* network's definition and its bridge name.                               *)
(***************************************************************************)
EXTENDS DefineOnce

CONSTANTS
  Playbooks,  \* the lists a task may be given, as network_specs makes them
  InitHosts   \* networks a behaviour may start from

VARIABLE settled  \* whether the playbook has succeeded undisturbed: "no", "maybe"
                  \* while a first run is under way, or "yes"

vars == <<host, pc, items, i, check, loc, entries, faults, meddle, alone, moved,
          settled>>

NetworkSpecs == [name: Names, state: States, form: {"good", "malformed"},
                 cfg: Cfgs, uuid: Maybe(UUIDs), autostart: Maybe(BOOLEAN)]

ASSUME NetworkAssumption ==
  /\ \A p \in Playbooks : p \in Seq(NetworkSpecs) /\ p # <<>>
  /\ \A h \in InitHosts : SaneHost(h)

-----------------------------------------------------------------------------

DefineNetwork == WouldDefine \/ Define("autostart")

\* _apply_run_state
ApplyRunState ==
  ReadActive("factName") \/ Start(TRUE, "factName") \/ Stop("factName")

\* _network_facts: whether bridgeName answers or raises, the facts go on.
FactBridge ==
  pc = "factName" /\ Continue("factActive") /\ Observe /\ UNCHANGED loc

ReconcileNetwork ==
  \/ Lookup \/ AlreadyAbsent \/ WouldUndefine
  \/ AbsentIsActive \/ AbsentDestroy \/ AbsentUndefine \/ AbsentReturn
  \/ DefineNetwork \/ ReadAutostart \/ SetAutostart \/ ApplyRunState
  \/ FactBridge \/ FactActive \/ FactAutostart \/ FactPersistent

-----------------------------------------------------------------------------

Init ==
  /\ host \in InitHosts
  /\ pc = "idle" /\ items = <<>> /\ i = 0 /\ check = FALSE /\ loc = NoLocals
  /\ entries = <<>> /\ faults = 0 /\ meddle = 0 /\ alone = TRUE /\ moved = FALSE
  /\ settled = "no"

StartRun(c) ==
  /\ pc = "idle"
  /\ \E p \in Playbooks :
       /\ BeginRun(p, c)
       /\ settled' = IF p = items /\ settled = "yes" THEN "yes"
                     ELSE IF c THEN "no" ELSE "maybe"

Exit ==
  /\ pc' = "idle" /\ i' = 0 /\ check' = FALSE /\ loc' = NoLocals /\ entries' = <<>>
  /\ alone' = TRUE /\ moved' = FALSE
  /\ UNCHANGED <<host, items>>

FinishRun ==
  /\ Finishing
  /\ Exit
  /\ settled' = IF check THEN settled
                ELSE IF AllOk /\ settled # "no" THEN "yes" ELSE "no"
  /\ UNCHANGED bounds

Kill ==
  /\ pc # "idle"
  /\ Fault
  /\ Exit
  /\ settled' = "no"

Module == ((ReconcileNetwork \/ NextItem) /\ UNCHANGED settled) \/ FinishRun

Clients ==
  /\ \E u \in UUIDs : ClientDrives(u, TRUE) \/ ClientDefines(u)
  /\ settled' = "no"

Next == Module \/ (\E c \in BOOLEAN : StartRun(c)) \/ Kill \/ Clients

NetworkSpec == Init /\ [][Next]_vars

\* Ansible steps the module, and the operator keeps running the role for real.
Fairness == WF_vars(Module) /\ SF_vars(StartRun(FALSE))

FairSpec == NetworkSpec /\ Fairness

-----------------------------------------------------------------------------
(* Properties *)

\* Types, a sane network list, and one entry per item.
TypeOK ==
  /\ ModuleTypes
  /\ items \in Playbooks \cup {<<>>}
  /\ settled \in {"no", "maybe", "yes"}

\* What each item does to its network, and what its entry says of that, is what
\* Reconciler promises, interference and failures included, although libvirt lets
\* an undefined network run on (libvirt_network.py:273-300, 320-365).
Promised == Abstract!Spec

\* A dry run touches nothing, autostart included (libvirt_network.py:286, 329-349).
CheckInert == [][Module /\ check => UNCHANGED host]_vars

\* A playbook that has just succeeded is silent when run again, dry or not.
Idempotent == settled = "yes" /\ pc = "next" /\ ~entries[i].failed => ~entries[i].changed

\* Failures and other clients notwithstanding, re-running a playbook brings every
\* network whose definition libvirt can accept to its state and autostart flag.
Converges ==
  \A p \in Playbooks :
    <>[](items = p) =>
      <>[](\A k \in DOMAIN p :
             Feasible(p[k]) =>
               Level(p[k].name) \in Abstract!Reached(p[k].state) /\ AutostartAsked(p[k]))

\* Each network is listed once; a list that asks twice for different states of one
\* network changes it in every run.
Distinct == \A p \in Playbooks : \A m, n \in 1..Len(p) : p[m].name = p[n].name => m = n
=============================================================================
