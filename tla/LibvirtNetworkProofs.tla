------------------------ MODULE LibvirtNetworkProofs ------------------------
(***************************************************************************)
(* Proofs about LibvirtNetwork for any number of networks, items, failures *)
(* and steps of other clients: it is well typed, its dry runs are inert,   *)
(* it implements Reconciler, and a second run of a list is silent.  The    *)
(* steps themselves are in DefineOnceProofs; here is the loop around them.  *)
(***************************************************************************)
EXTENDS LibvirtNetwork, DefineOnceProofs

Inv ==
  /\ TypeOK
  /\ \/ pc \in {"idle", "next"}
     \/ pc \in Working /\ Here(pc, loc, host, moved)

LEMMA ItemsType ==
  ASSUME TypeOK
  PROVE  items \in Seq(NetworkSpecs) /\ Len(items) \in Nat
<1>1. CASE items = <<>>
  BY <1>1
<1>2. CASE items # <<>>
  BY <1>2, NetworkAssumption DEF TypeOK
<1> QED
  BY <1>1, <1>2

LEMMA InHand ==
  ASSUME TypeOK, pc \notin {"idle", "task"}
  PROVE  Item \in NetworkSpecs
  BY ItemsType DEF TypeOK, ModuleTypes, RunTypes, Item

LEMMA InvReady ==
  ASSUME Inv, pc \notin {"idle", "next"}
  PROVE  Ready /\ Item \in NetworkSpecs
<1>1. pc \in Working /\ Here(pc, loc, host, moved)
  BY DEF Inv
<1>2. Item \in NetworkSpecs
  BY <1>1, InHand DEF Inv, Working
<1> QED
  BY <1>1, <1>2 DEF Inv, TypeOK, Ready, NetworkSpecs

\* Of the network's own steps, only the bridge name is not the pool's too.
LEMMA BridgeStepped ==
  ASSUME Ready, FactBridge
  PROVE  Stepped
<1>1. Here("factActive", loc, host, moved)
  BY WorkingHere DEF FactBridge, Here, Placed, Held, Recorded, Met, Removing, Settling,
     Reporting, Writing, Untouched
<1> QED
  BY <1>1, QuietStepped DEF FactBridge, Quiet

LEMMA ReconcileStepped ==
  ASSUME Inv, ReconcileNetwork
  PROVE  Stepped /\ Ready
<1>1. pc \notin {"idle", "next"}
  BY DEF ReconcileNetwork, Lookup, AlreadyAbsent, WouldUndefine, AbsentIsActive,
     AbsentDestroy, AbsentUndefine, AbsentReturn, DefineNetwork, WouldDefine, Define,
     ReadAutostart, SetAutostart, ApplyRunState, ReadActive, Start, Stop, FactBridge,
     FactActive, FactAutostart, FactPersistent
<1>2. Ready /\ Item.cfg \in Cfgs
  BY <1>1, InvReady DEF NetworkSpecs
<1>3. ASSUME DefineNetwork PROVE Stepped
  BY <1>2, <1>3, DefineStepped DEF DefineNetwork
<1>4. ASSUME ApplyRunState PROVE Stepped
  BY <1>2, <1>4, RunStateStepped DEF ApplyRunState
<1> QED
  BY <1>2, <1>3, <1>4, LookupStepped, RemovalStepped, AutostartStepped, FactsStepped,
     BridgeStepped DEF ReconcileNetwork

LEMMA LoopInv ==
  ASSUME Inv,
         \/ NextItem /\ UNCHANGED settled
         \/ FinishRun \/ Kill \/ (\E c \in BOOLEAN : StartRun(c))
  PROVE  Inv'
<1>0. TypeOK /\ ModuleTypes /\ RunTypes
  BY DEF Inv, TypeOK, ModuleTypes
<1>1. CASE NextItem /\ UNCHANGED settled
  <2>1. /\ ItemUp(i + 1) /\ UNCHANGED <<host, items, check, entries, bounds, settled>>
        /\ pc = "next" /\ i < Len(items)
    BY <1>1 DEF NextItem
  <2>2. /\ i \in 1..Len(items) /\ Len(entries) = i /\ Len(items) \in Nat
        /\ check \in BOOLEAN /\ entries \in Seq(Entry)
    BY <1>0, <2>1, ItemsType DEF RunTypes
  <2>3. i + 1 \in 1..Len(items') /\ Len(entries') = (i + 1) - 1
    BY <2>1, <2>2
  <2> QED
    BY <1>0, <2>1, <2>2, <2>3, ItemUpInv DEF Inv, TypeOK
<1>2. ASSUME Exit, faults' \in 0..MaxFaults, UNCHANGED meddle,
             settled' \in {"no", "maybe", "yes"}
      PROVE  Inv'
  <2>1. /\ pc' = "idle" /\ check' = FALSE /\ loc' = NoLocals /\ entries' = <<>>
        /\ alone' = TRUE /\ moved' = FALSE /\ UNCHANGED <<host, items>>
    BY <1>2 DEF Exit
  <2>2. ModuleTypes'
    BY <1>0, <1>2, <2>1, GoneTypes
  <2> QED
    BY <1>0, <1>2, <2>1, <2>2 DEF Inv, TypeOK
<1>3. CASE FinishRun
  <2>1. settled' \in {"no", "maybe", "yes"}
    BY <1>0, <1>3 DEF FinishRun, TypeOK
  <2>2. faults' \in 0..MaxFaults /\ UNCHANGED meddle
    BY <1>0, <1>3 DEF FinishRun, RunTypes, bounds
  <2> QED
    BY <1>2, <1>3, <2>1, <2>2 DEF FinishRun
<1>4. CASE Kill
  <2>1. faults' \in 0..MaxFaults /\ UNCHANGED meddle
    BY <1>0, <1>4, RunAssumption DEF Kill, Fault, RunTypes
  <2> QED
    BY <1>2, <1>4, <2>1 DEF Kill
<1>5. ASSUME NEW c \in BOOLEAN, StartRun(c)
      PROVE  Inv'
  <2>1. PICK p \in Playbooks :
          /\ BeginRun(p, c)
          /\ settled' = IF p = items /\ settled = "yes" THEN "yes"
                        ELSE IF c THEN "no" ELSE "maybe"
    BY <1>5 DEF StartRun
  <2>2. /\ UNCHANGED <<host, bounds>> /\ items' = p /\ check' = c
        /\ entries' = <<>> /\ ItemUp(1)
    BY <2>1 DEF BeginRun
  <2>3. p \in Seq(NetworkSpecs) /\ p # <<>> /\ Len(p) \in Nat /\ 1 <= Len(p)
    BY NetworkAssumption
  <2>4. 1 \in 1..Len(items') /\ Len(entries') = 1 - 1 /\ entries' \in Seq(Entry)
    BY <2>2, <2>3, NoEntriesType
  <2>5. items' \in Playbooks /\ settled' \in {"no", "maybe", "yes"}
    BY <2>1, <2>2
  <2> QED
    BY <1>0, <2>2, <2>4, <2>5, ItemUpInv DEF Inv, TypeOK
<1> QED
  BY <1>1, <1>3, <1>4, <1>5

LEMMA ClientsInv ==
  ASSUME Inv, Clients
  PROVE  Inv' /\ Abstract!Others
<1>0. PICK u \in UUIDs : ClientDrives(u, TRUE) \/ ClientDefines(u)
  BY DEF Clients
<1>1. UNCHANGED <<pc, items>> /\ settled' = "no"
  BY <1>0 DEF Clients, ClientDrives, ClientDefines, Outside
<1>2. Busy => Item.name \in Names /\ Item.state \in States
  BY InvReady DEF Busy, NetworkSpecs
<1>3. ModuleTypes' /\ Abstract!Others
  BY <1>0, <1>2, ClientMaps DEF Inv, TypeOK
<1>4. pc \notin {"idle", "next"} => Here(pc, loc, host, moved)'
  BY <1>0, InvReady, ClientHere
<1> QED
  BY <1>1, <1>3, <1>4 DEF Inv, TypeOK

LEMMA InitInv == Init => Inv
<1> SUFFICES ASSUME Init PROVE Inv
  OBVIOUS
<1>1. SaneHost(host)
  BY NetworkAssumption DEF Init
<1>2. faults \in 0..MaxFaults /\ meddle \in 0..MaxMeddle
  BY RunAssumption DEF Init
<1>3. RunTypes
  BY <1>2, NoEntriesType DEF Init, RunTypes
<1> QED
  BY <1>1, <1>3, NoLocalsType DEF Init, Inv, TypeOK, ModuleTypes, PCs

LEMMA NextInv ==
  ASSUME Inv, [Next]_vars
  PROVE  Inv'
<1>1. CASE ReconcileNetwork /\ UNCHANGED settled
  BY <1>1, ReconcileStepped, SteppedInv DEF Inv, TypeOK
<1>2. CASE UNCHANGED vars
  BY <1>2 DEF vars, Inv, TypeOK, ModuleTypes, RunTypes, Here, Placed, Held, Recorded,
     Met, Item
<1> QED
  BY <1>1, <1>2, LoopInv, ClientsInv DEF Next, Module

LEMMA Invariance == NetworkSpec => []Inv
  BY InitInv, NextInv, PTL DEF NetworkSpec

-----------------------------------------------------------------------------
(* Theorems *)

\* Whoever edits the networks and whatever fails, the module's state stays well
\* typed and the list of networks sane (libvirt_network.py:247-365).
THEOREM TypeCorrect == NetworkSpec => []TypeOK
  BY Invariance, PTL DEF Inv

\* However long the list, no call of a dry run writes (libvirt_network.py:286,
\* 329-349).
THEOREM CheckModeInert == NetworkSpec => CheckInert
<1>1. ASSUME Inv, Module, check PROVE UNCHANGED host
  BY <1>1, ReconcileStepped, SteppedInert DEF Module, NextItem, FinishRun, Exit
<1>2. Inv /\ [Next]_vars => [Module /\ check => UNCHANGED host]_vars
  BY <1>1
<1> QED
  BY <1>2, Invariance, PTL DEF NetworkSpec, CheckInert

LEMMA NextMaps ==
  ASSUME Inv, [Next]_vars
  PROVE  [Abstract!Next]_(Abstract!vars)
<1>1. CASE ReconcileNetwork
  BY <1>1, ReconcileStepped, SteppedMaps DEF Abstract!Next
<1>2. CASE Clients
  BY <1>2, ClientsInv DEF Abstract!Next
<1>3. CASE NextItem \/ \E c \in BOOLEAN : StartRun(c)
  <2>1. /\ pc \in {"idle", "next"} /\ pc' = "lookup" /\ UNCHANGED host
        /\ alone' = TRUE /\ moved' = FALSE
    BY <1>3 DEF NextItem, StartRun, BeginRun, ItemUp
  <2>2. TypeOK'
    BY NextInv DEF Inv
  <2>3. items' \in Playbooks /\ i' \in 1..Len(items') /\ (check \in BOOLEAN)'
    BY <2>1, <2>2 DEF TypeOK, ModuleTypes, RunTypes
  <2>4. items' \in Seq(NetworkSpecs)
    BY <2>3, NetworkAssumption
  <2>5. Item' \in NetworkSpecs
    BY <2>3, <2>4 DEF Item
  <2> QED
    BY <2>1, <2>3, <2>5, TakesItem DEF Abstract!Next, Busy, NetworkSpecs
<1>4. CASE FinishRun \/ Kill
  BY <1>4, LeavesItem DEF FinishRun, Kill, Exit, Abstract!Next
<1>5. CASE UNCHANGED vars
  <2>1. \A n \in Names : Level(n)' = Level(n)
    BY <1>5 DEF vars, Level, Named
  <2> QED
    BY <1>5, <2>1 DEF vars, Abstract!vars, Busy, Item
<1> QED
  BY <1>1, <1>2, <1>3, <1>4, <1>5 DEF Next, Module

\* For every number of networks and items, failures and other clients, the module
\* keeps what Reconciler promises: it moves only the network asked for, only
\* towards the state asked for, and a success says truly whether it did something
\* and that the state is reached (libvirt_network.py:273-365).
THEOREM KeepsPromise == NetworkSpec => Promised
<1>1. Init => Abstract!Init
  BY IdleMaps DEF Init
<1>2. Inv /\ [Next]_vars => [Abstract!Next]_(Abstract!vars)
  BY NextMaps
<1> QED
  BY <1>1, <1>2, Invariance, PTL DEF NetworkSpec, Promised, Abstract!Spec

-----------------------------------------------------------------------------
(* A second run is silent *)

Resting == RestsAt(pc, loc, FALSE)
Nearing == alone /\ NearsAt(pc, loc, host)

\* Every item that a first run has not failed on is met, and after it all of them.
Silent ==
  /\ settled = "yes" =>
       /\ \A j \in 1..Len(items) : SpecMet(items[j], host)
       /\ pc \in Working => Resting
       /\ pc = "next" => ~entries[i].changed
  /\ settled = "maybe" =>
       /\ pc # "idle" /\ ~check
       /\ \A j \in 1..Len(entries) : entries[j].failed \/ SpecMet(items[j], host)
       /\ pc \in Working => Nearing

LEMMA NetworkRests ==
  ASSUME Inv, ReconcileNetwork, Resting, SpecMet(Item, host)
  PROVE  Rests(FALSE)
<1>0. Ready
  BY ReconcileStepped
<1>1. CASE FactBridge
  <2>1. RestsAt("factActive", loc, FALSE)
    BY <1>1 DEF Resting, RestsAt, Reporting
  <2> QED
    BY <1>1, <2>1, RestingGoes DEF FactBridge
<1>2. CASE \/ Lookup \/ AlreadyAbsent \/ ReadAutostart \/ ReadActive("factName")
           \/ FactActive \/ FactAutostart \/ FactPersistent
  BY <1>0, <1>2, RestingStep DEF Resting
<1> QED
  BY <1>1, <1>2 DEF Resting, RestsAt, Reporting, ReconcileNetwork, WouldUndefine, AbsentIsActive,
     AbsentDestroy, AbsentUndefine, AbsentReturn, DefineNetwork, WouldDefine, Define,
     SetAutostart, ApplyRunState, Start, Stop

LEMMA NetworkNears ==
  ASSUME Inv, ReconcileNetwork, Nearing, ~check
  PROVE  Nears
<1>0. Ready
  BY ReconcileStepped
<1>1. CASE FactBridge
  <2>1. NearsAt("factActive", loc', host') /\ UNCHANGED alone
    BY <1>1 DEF FactBridge, Observe, Nearing, NearsAt, Flagged, Reporting
  <2> QED
    BY <1>1, <2>1, NearingGoes DEF FactBridge
<1> QED
  BY <1>0, <1>1, NearingStep DEF Nearing, ReconcileNetwork, DefineNetwork, ApplyRunState

\* The items before the one in hand stay met, whatever the module does for it.
LEMMA EarlierMet ==
  ASSUME Distinct, Inv, ReconcileNetwork,
         NEW j \in 1..Len(items), j # i, SpecMet(items[j], host)
  PROVE  SpecMet(items[j], host')
<1>1. Stepped /\ Ready /\ pc \in Working
  BY ReconcileStepped, WorkingHere
<1>2. items[j].name # Item.name
  <2>1. i \in 1..Len(items) /\ items \in Playbooks \cup {<<>>} /\ Len(items) \in Nat
    BY <1>1, ItemsType DEF Inv, TypeOK, ModuleTypes, RunTypes, Working
  <2>2. items \in Playbooks
    BY <2>1
  <2> QED
    BY <2>1, <2>2 DEF Distinct, Item
<1> QED
  BY <1>1, <1>2, SteppedOthers

LEMMA ReconcileSilent ==
  ASSUME Distinct, Inv, Silent, ReconcileNetwork, UNCHANGED settled
  PROVE  Silent'
<1>0. /\ pc \in Working /\ UNCHANGED <<items, i, check>>
      /\ pc' \in Working \cup {"next"} /\ check \in BOOLEAN
      /\ i \in 1..Len(items) /\ Len(entries) = i - 1 /\ Len(items) \in Nat /\ ModuleTypes
  <2>1. Stepped /\ Ready
    BY ReconcileStepped
  <2>2. pc \in Working
    BY <2>1, WorkingHere
  <2> QED
    BY <2>1, <2>2, SteppedInv, WorkingHere, ItemsType DEF Inv, TypeOK, ModuleTypes, RunTypes, Working
<1>1. CASE settled = "yes"
  <2>1. Resting /\ SpecMet(Item, host) /\ \A j \in 1..Len(items) : SpecMet(items[j], host)
    BY <1>0, <1>1 DEF Silent, Item
  <2>2. /\ UNCHANGED host
        /\ \/ pc' = "next" /\ \E e : EndItem(e) /\ ~e.changed
           \/ RestsAt(pc', loc', FALSE)
    BY <2>1, NetworkRests DEF Rests
  <2>3. pc' = "next" => ~entries'[i'].changed
    BY <1>0, <2>2, EntriesGrow DEF RestsAt, Reporting
  <2>4. pc' \in Working => Resting'
    BY <2>2 DEF Working, Resting
  <2>5. \A j \in 1..Len(items') : SpecMet(items'[j], host')
    BY <1>0, <2>1, <2>2
  <2> QED
    BY <1>1, <2>3, <2>4, <2>5 DEF Silent
<1>2. CASE settled = "maybe"
  <2>1. Nearing /\ ~check /\ \A j \in 1..Len(entries) : entries[j].failed \/ SpecMet(items[j], host)
    BY <1>0, <1>2 DEF Silent
  <2>2. Nears
    BY <2>1, NetworkNears
  <2>3. \A j \in 1..(i - 1) : entries[j].failed \/ SpecMet(items[j], host')
    BY <1>0, <2>1, EarlierMet
  <2>4. CASE pc' = "next"
    <3>1. PICK e : EndItem(e) /\ (e.failed \/ (UNCHANGED host /\ SpecMet(Item, host)))
      BY <2>2, <2>4 DEF Nears
    <3>2. /\ Len(entries') = i /\ entries'[i] = e
          /\ \A j \in 1..(i - 1) : entries'[j] = entries[j]
      BY <1>0, <3>1, EntriesGrow
    <3>3. entries'[i].failed \/ SpecMet(items[i], host')
      BY <3>1, <3>2 DEF Item
    <3>4. \A j \in 1..i : j = i \/ j \in 1..(i - 1)
      BY <1>0
    <3>5. \A j \in 1..Len(entries') : entries'[j].failed \/ SpecMet(items'[j], host')
      BY <1>0, <2>3, <3>2, <3>3, <3>4
    <3> QED
      BY <1>0, <1>2, <2>1, <2>4, <3>5 DEF Silent, Working
  <2>5. CASE pc' # "next"
    <3>1. NearsAt(pc', loc', host') /\ UNCHANGED <<alone, items, i, entries>> /\ pc' # "idle"
      BY <1>0, <2>2, <2>5 DEF Nears, Working
    <3>2. Nearing'
      BY <2>1, <3>1 DEF Nearing, NearsAt, Item
    <3> QED
      BY <1>0, <1>2, <2>1, <2>3, <3>1, <3>2 DEF Silent
  <2> QED
    BY <2>4, <2>5
<1>3. CASE settled \notin {"yes", "maybe"}
  BY <1>3 DEF Silent
<1> QED
  BY <1>1, <1>2, <1>3

LEMMA LoopSilent ==
  ASSUME Inv, Silent,
         \/ NextItem /\ UNCHANGED settled
         \/ FinishRun \/ Kill \/ Clients \/ (\E c \in BOOLEAN : StartRun(c))
  PROVE  Silent'
<1>0. /\ settled \in {"no", "maybe", "yes"} /\ check \in BOOLEAN /\ entries \in Seq(Entry)
      /\ pc \notin {"idle", "task"} => Len(entries) = IF pc = "next" THEN i ELSE i - 1
  BY DEF Inv, TypeOK, ModuleTypes, RunTypes
<1>1. ASSUME ItemUp(i') PROVE Resting' /\ Nearing' /\ pc' \in Working
  BY <1>1 DEF ItemUp, Resting, Nearing, RestsAt, NearsAt, Flagged, NoLocals, Working, PCs, Reporting
<1>2. CASE NextItem /\ UNCHANGED settled
  <2>1. ItemUp(i') /\ UNCHANGED <<host, items, check, entries, settled>>
    BY <1>2 DEF NextItem, ItemUp
  <2> QED
    BY <1>1, <2>1 DEF Silent, Working
<1>3. CASE Kill \/ Clients
  BY <1>3 DEF Kill, Clients, Silent
<1>4. CASE FinishRun
  <2>1. /\ pc = "next" /\ i = Len(items) /\ pc' = "idle" /\ UNCHANGED <<host, items>>
        /\ settled' = IF check THEN settled
                      ELSE IF AllOk /\ settled # "no" THEN "yes" ELSE "no"
    BY <1>4 DEF FinishRun, Finishing, Exit
  <2>2. settled' \in {"yes", "no"}
    BY <1>0, <2>1 DEF Silent
  <2>3. settled' = "yes" => \A j \in 1..Len(items) : SpecMet(items[j], host)
    <3>1. CASE settled = "yes"
      BY <3>1 DEF Silent
    <3>2. CASE settled = "maybe" /\ settled' = "yes"
      <4>1. AllOk /\ Len(entries) = Len(items)
        BY <1>0, <2>1, <3>2
      <4> QED
        BY <1>0, <3>2, <4>1 DEF Silent, AllOk
    <3> QED
      BY <1>0, <2>1, <3>1, <3>2
  <2> QED
    BY <2>1, <2>2, <2>3 DEF Silent, Working
<1>5. ASSUME NEW c \in BOOLEAN, StartRun(c) PROVE Silent'
  <2>1. PICK p \in Playbooks :
          /\ BeginRun(p, c)
          /\ settled' = IF p = items /\ settled = "yes" THEN "yes"
                        ELSE IF c THEN "no" ELSE "maybe"
    BY <1>5 DEF StartRun
  <2>2. /\ UNCHANGED host /\ items' = p /\ check' = c /\ entries' = <<>> /\ ItemUp(1)
        /\ i' = 1
    BY <2>1 DEF BeginRun, ItemUp
  <2>3. Resting' /\ Nearing' /\ pc' \in Working
    BY <1>1, <2>2
  <2> QED
    BY <2>1, <2>2, <2>3 DEF Silent, Working
<1> QED
  BY <1>2, <1>3, <1>4, <1>5

LEMMA NextSilent ==
  ASSUME Distinct, Inv, Silent, [Next]_vars
  PROVE  Silent'
<1>1. CASE UNCHANGED vars
  BY <1>1 DEF vars, Silent, Resting, Nearing, NearsAt, Item
<1> QED
  BY <1>1, ReconcileSilent, LoopSilent DEF Next, Module

\* Where each network is listed once, a list that has just succeeded undisturbed is
\* silent when it is run again, dry or not: the first run leaves every network as
\* asked, no later item takes an earlier one's back, and a network that is as asked
\* gives the module nothing to do (libvirt_network.py:273-365).
THEOREM RerunsSilently == Distinct => (NetworkSpec => []Idempotent)
<1> SUFFICES ASSUME Distinct PROVE NetworkSpec => []Idempotent
  OBVIOUS
<1>1. Init => Silent
  BY DEF Init, Silent
<1>2. Inv /\ Silent /\ [Next]_vars => Silent'
  BY NextSilent
<1>3. Silent => Idempotent
  BY DEF Silent, Idempotent
<1> QED
  BY <1>1, <1>2, <1>3, Invariance, PTL DEF NetworkSpec
=============================================================================
