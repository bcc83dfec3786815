--------------------------- MODULE LibvirtDomain ---------------------------
(***************************************************************************)
(* The libvirt_domain module (plugins/modules/libvirt_domain.py): one      *)
(* Ansible task reconciles a list of domain specs against a libvirt host,  *)
(* one libvirt call per step.  Between two calls guests and other clients  *)
(* of the same libvirtd act, any call may raise libvirtError, and the      *)
(* module process may be killed and the playbook run again.                *)
(*                                                                         *)
(* host is libvirt's persistent and runtime state, keyed by UUID the way   *)
(* libvirt resolves a virDomain handle.  pc, items, i, check, loc and      *)
(* entries are the module process.  The other variables only bound or      *)
(* observe: faults and meddle count adversary steps, and calm, disturbed,  *)
(* touched, settled and forecast record what has happened for the          *)
(* properties to speak about.                                              *)
(***************************************************************************)
EXTENDS Integers, Sequences, FiniteSets

CONSTANTS
  Names,       \* domain names
  UUIDs,       \* domain UUIDs
  Cfgs,        \* everything of a definition but identity: memory, disks, ...
  Macs,        \* interface MAC addresses
  None,        \* Python's None, and an unused slot of host
  Playbooks,   \* the "domains" lists a task may be given
  InitHosts,   \* the hosts a behaviour may start from
  MaxFaults,   \* bound on libvirt errors and kills of the module
  MaxMeddle    \* bound on steps of other clients and of guests on their own

VARIABLES host, pc, items, i, check, loc, entries, faults, meddle,
          calm, disturbed, touched, settled, forecast

task == <<items, check>>
bounds == <<faults, meddle>>
ghosts == <<calm, disturbed, touched, settled, forecast>>
vars == <<host, pc, items, i, check, loc, entries, faults, meddle,
          calm, disturbed, touched, settled, forecast>>

-----------------------------------------------------------------------------
(* Data *)

States == {"present", "running", "shutdown", "paused", "destroyed", "absent"}

\* "pmsuspended" stands for every active state that is neither running nor
\* paused: the module treats them alike.
RunStates == {"shutoff", "running", "paused", "pmsuspended"}

Maybe(S) == S \cup {None}

\* The part of a definition the inactive XML shows besides name and UUID.
Xml == [cfg: Cfgs, macs: Seq(Macs)]

Domain == [name: Names, cfg: Cfgs, macs: Seq(Macs), run: RunStates,
           acpi: BOOLEAN, autostart: BOOLEAN, persistent: BOOLEAN]

\* form says what validation makes of the spec: "broken" violates the
\* raw_xml / memory_mb+vcpus contract, "malformed" does not survive
\* _build_xml, "good" yields a definition.
DomainSpec == [name: Names, state: States, form: {"good", "broken", "malformed"},
               uuid: Maybe(UUIDs), cfg: Cfgs, macs: Seq(Maybe(Macs)),
               autostart: Maybe(BOOLEAN)]

Facts == [run: Maybe(RunStates), active: Maybe(BOOLEAN),
          autostart: Maybe(BOOLEAN), persistent: Maybe(BOOLEAN)]

Entry == [changed: BOOLEAN, failed: BOOLEAN, facts: Maybe(Facts)]

\* What a dry run reported for a playbook.
Forecasts == [items: Playbooks, entries: Seq(Entry)]

\* Locals of _reconcile_one and the methods it calls.
Locals == [existing: Maybe(UUIDs), before: Maybe(Xml), dom: Maybe(UUIDs),
           defined: BOOLEAN, changed: BOOLEAN, active: BOOLEAN,
           run: Maybe(RunStates), facts: Facts]

NoFacts == [run |-> None, active |-> None, autostart |-> None,
            persistent |-> None]

NoLocals == [existing |-> None, before |-> None, dom |-> None,
             defined |-> FALSE, changed |-> FALSE, active |-> FALSE,
             run |-> None, facts |-> NoFacts]

\* libvirt keeps names unique, and a transient domain exists only while active.
SaneHost(h) ==
  /\ h \in [UUIDs -> Maybe(Domain)]
  /\ \A u, v \in UUIDs :
       h[u] # None /\ h[v] # None /\ h[u].name = h[v].name => u = v
  /\ \A u \in UUIDs : h[u] # None /\ ~h[u].persistent => h[u].run # "shutoff"

\* None is told apart from every value it can stand beside.
ASSUME NoneAssumption ==
  /\ None \notin UUIDs /\ None \notin Macs /\ None \notin BOOLEAN
  /\ None \notin Domain /\ None \notin Xml /\ None \notin Facts
  /\ None \notin Forecasts /\ None \notin Playbooks
ASSUME PlaybooksAssumption == \A p \in Playbooks : p \in Seq(DomainSpec) /\ p # <<>>
ASSUME HostsAssumption == \A h \in InitHosts : SaneHost(h)
ASSUME BoundsAssumption == MaxFaults \in Nat /\ MaxMeddle \in Nat

-----------------------------------------------------------------------------
(* libvirt, as the module's calls see it *)

Exists(u) == u # None /\ host[u] # None
Named(n) == {u \in UUIDs : host[u] # None /\ host[u].name = n}
IsActive(u) == host[u].run # "shutoff"
XmlOf(u) == [cfg |-> host[u].cfg, macs |-> host[u].macs]
MacsInUse == UNION {{host[u].macs[k] : k \in DOMAIN host[u].macs} :
                      u \in {v \in UUIDs : host[v] # None}}

\* Stopping a transient domain makes it vanish.
Stopped(d) ==
  IF d.persistent THEN [d EXCEPT !.run = "shutoff", !.acpi = FALSE] ELSE None

\* libvirt draws a fresh address for every interface that names none.
Filled(macs) ==
  {ms \in [1..Len(macs) -> Macs] :
     \A k \in 1..Len(macs) :
       IF macs[k] # None THEN ms[k] = macs[k]
       ELSE /\ ms[k] \notin MacsInUse
            /\ \A l \in 1..Len(macs) : l # k => ms[l] # ms[k]}

\* defineXML refuses a name that another UUID holds and a UUID that another
\* name holds; without a <uuid> it draws an unused one.
DefineTargets(n, uuid) ==
  {u \in UUIDs : /\ IF uuid = None THEN host[u] = None ELSE u = uuid
                 /\ host[u] # None => host[u].name = n
                 /\ Named(n) \subseteq {u}}

\* Defining keeps run state and autostart, and makes a transient domain
\* persistent.
DefinedAs(u, n, cfg, macs) ==
  IF host[u] = None
    THEN [name |-> n, cfg |-> cfg, macs |-> macs, run |-> "shutoff",
          acpi |-> FALSE, autostart |-> FALSE, persistent |-> TRUE]
    ELSE [host[u] EXCEPT !.cfg = cfg, !.macs = macs, !.persistent = TRUE]

-----------------------------------------------------------------------------
(* Observers *)

\* A host without the persistent flag, which the inactive XML does not show.
Visible(h) ==
  [u \in UUIDs |-> IF h[u] = None THEN None
                   ELSE [h[u] EXCEPT !.persistent = TRUE]]

\* The module replaces one domain.
Mutate(u, d) ==
  /\ host' = [host EXCEPT ![u] = d]
  /\ touched' = (touched \/ Visible(host') # Visible(host))
  /\ UNCHANGED <<calm, disturbed, settled, forecast>>

\* The module only reads.
Observe == UNCHANGED <<host, calm, disturbed, touched, settled, forecast>>

-----------------------------------------------------------------------------
(* The module process: control *)

Item == items[i]

\* Faulty variant: the entry is lost.
EndItemUnrecorded(entry) ==
  pc' = "next" /\ UNCHANGED <<entries, task, i>>

\* _reconcile_one returns or raises; run() appends the entry.
EndItem(entry) ==
  /\ pc' = "next"
  /\ entries' = Append(entries, entry)
  /\ UNCHANGED <<task, i>>

Ok(changed, facts) == [changed |-> changed, failed |-> FALSE, facts |-> facts]

\* run() turns any libvirtError, lookup or validation error of an item into
\* this entry, whatever the item had changed before it.
Raised == [changed |-> FALSE, failed |-> TRUE, facts |-> None]

Raise == EndItem(Raised) /\ Observe /\ UNCHANGED <<loc, bounds>>

\* A libvirt call that cannot succeed raises; one that could may raise anyway.
CallFails(possible) ==
  /\ IF possible THEN faults < MaxFaults /\ faults' = faults + 1
                 ELSE faults' = faults
  /\ EndItem(Raised)
  /\ Observe
  /\ UNCHANGED <<loc, meddle>>

\* Control moves on within the item.
Continue(to) ==
  /\ pc' = to
  /\ UNCHANGED <<task, i, entries, bounds>>

\* A read of u: set the locals to new and go on, or raise.
Read(to, u, new) ==
  \/ Exists(u) /\ Continue(to) /\ Observe /\ loc' = new
  \/ CallFails(Exists(u))

\* A mutating call on u that libvirt accepts when possible, turning u into d.
Call(to, u, possible, d, new) ==
  \/ possible /\ Continue(to) /\ Mutate(u, d) /\ loc' = new
  \/ CallFails(possible)

-----------------------------------------------------------------------------
(* run(): the connection and the loop over the specs *)

\* A playbook run starts; opening the connection fails for all items at once,
\* which leaves the module idle.
StartRun(c) ==
  /\ pc = "idle" /\ pc' = "validate"
  /\ items' \in Playbooks
  /\ i' = 1
  /\ check' = c
  /\ loc' = NoLocals
  /\ entries' = <<>>
  /\ calm' = TRUE
  /\ disturbed' = FALSE
  /\ touched' = FALSE
  /\ settled' = IF c \/ settled = items' THEN settled ELSE None
  /\ forecast' = IF ~c /\ forecast # None /\ forecast.items = items'
                 THEN forecast ELSE None
  /\ UNCHANGED <<host, bounds>>

NextItem ==
  /\ pc = "next" /\ pc' = "validate"
  /\ i < Len(items)
  /\ i' = i + 1
  /\ loc' = NoLocals
  /\ disturbed' = FALSE
  /\ touched' = FALSE
  /\ UNCHANGED <<host, task, entries, bounds, calm, settled, forecast>>

AllOk == \A k \in DOMAIN entries : ~entries[k].failed

\* The process is gone, and with it what it knew.
Exit ==
  /\ pc' = "idle" /\ i' = 0 /\ check' = FALSE
  /\ loc' = NoLocals /\ entries' = <<>>
  /\ calm' = FALSE /\ disturbed' = FALSE /\ touched' = FALSE
  /\ UNCHANGED <<host, items>>

\* The module exits with the collected entries.
FinishRun ==
  /\ pc = "next" /\ i = Len(items)
  /\ Exit
  /\ settled' = IF check THEN settled
                ELSE IF calm /\ AllOk THEN items ELSE None
  /\ forecast' = IF check /\ calm
                 THEN [items |-> items, entries |-> entries] ELSE None
  /\ UNCHANGED bounds

\* The module process is killed between two calls and returns nothing.
Kill ==
  /\ pc # "idle"
  /\ faults < MaxFaults
  /\ faults' = faults + 1
  /\ Exit
  /\ settled' = None
  /\ forecast' = None
  /\ UNCHANGED meddle

-----------------------------------------------------------------------------
(* _reconcile_one *)

ValidateSpec ==
  /\ pc = "validate"
  /\ \/ Item.form # "broken" /\ Continue("lookup") /\ Observe /\ UNCHANGED loc
     \/ Item.form = "broken" /\ Raise

\* Faulty variant: removal does not look at check mode.
AfterLookupUnchecked(existing) ==
  IF Item.state # "absent" THEN "build"
  ELSE IF existing = None THEN "gone" ELSE "absActive"

\* Where control goes once the lookup has answered.
AfterLookup(existing) ==
  IF Item.state # "absent" THEN "build"
  ELSE IF existing = None THEN "gone"
  ELSE IF check THEN "would" ELSE "absActive"

\* Faulty variant: any domain answers for the name.
LookupAnyDomain ==
  /\ pc = "lookup"
  /\ \E e \in {u \in UUIDs : Exists(u)} :
       /\ Continue(AfterLookup(e))
       /\ loc' = [loc EXCEPT !.existing = e]
       /\ Observe

LookupDomain ==
  /\ pc = "lookup"
  /\ \/ \E e \in (IF Named(Item.name) = {} THEN {None} ELSE Named(Item.name)) :
          /\ Continue(AfterLookup(e))
          /\ loc' = [loc EXCEPT !.existing = e]
          /\ Observe
     \/ CallFails(TRUE)

\* _absent_one: nothing to remove, or check mode only says it would.
AlreadyAbsent ==
  pc = "gone" /\ EndItem(Ok(FALSE, None)) /\ Observe /\ UNCHANGED <<loc, bounds>>
\* Faulty variant: the dry run of a removal announces nothing.
WouldUndefineSilently ==
  pc = "would" /\ EndItem(Ok(FALSE, None)) /\ Observe /\ UNCHANGED <<loc, bounds>>

WouldUndefine ==
  pc = "would" /\ EndItem(Ok(TRUE, None)) /\ Observe /\ UNCHANGED <<loc, bounds>>

\* Faulty variant: destroys without asking whether the domain runs.
AbsentAssumeActive ==
  pc = "absActive" /\ Read("absDestroy", loc.existing, loc)

AbsentIsActive ==
  /\ pc = "absActive"
  /\ Read(IF Exists(loc.existing) /\ IsActive(loc.existing)
          THEN "absDestroy" ELSE "absUndefine", loc.existing, loc)

AbsentDestroy ==
  LET e == loc.existing
  IN  /\ pc = "absDestroy"
      /\ Call("absUndefine", e, Exists(e) /\ IsActive(e), Stopped(host[e]), loc)

\* Undefining an active domain leaves it running as a transient one.
Undefined(d) ==
  IF d.run = "shutoff" THEN None
  ELSE [d EXCEPT !.persistent = FALSE, !.autostart = FALSE]

AbsentUndefine ==
  LET e == loc.existing
      possible == Exists(e) /\ host[e].persistent
  IN  /\ pc = "absUndefine"
      /\ \/ /\ possible
            /\ EndItem(Ok(TRUE, None))
            /\ Mutate(e, Undefined(host[e]))
            /\ UNCHANGED <<loc, bounds>>
         \/ CallFails(possible)

\* _build_xml, which may refuse the spec, and _define up to its first call.
BuildXml ==
  /\ pc = "build"
  /\ \/ Item.form = "malformed" /\ Raise
     \/ /\ Item.form = "good" /\ (loc.existing # None \/ ~check)
        /\ Continue(IF loc.existing = None THEN "define" ELSE "xmlDesc")
        /\ Observe /\ UNCHANGED loc
     \/ /\ Item.form = "good" /\ loc.existing = None /\ check
        /\ EndItem(Ok(TRUE, None)) /\ Observe /\ UNCHANGED <<loc, bounds>>

\* _define reads the inactive XML; _carry_over_identity refuses another UUID.
\* In check mode the definition is left alone and counts as unchanged.
ReadDefinition ==
  LET e == loc.existing
      clash == Item.uuid # None /\ Item.uuid # e
  IN  /\ pc = "xmlDesc"
      /\ \/ /\ Exists(e)
            /\ ~clash
            /\ Continue(IF check THEN "autostart" ELSE "define")
            /\ loc' = [loc EXCEPT !.before = XmlOf(e),
                                  !.dom = IF check THEN e ELSE None]
            /\ Observe
         \/ Exists(e) /\ clash /\ Raise
         \/ CallFails(Exists(e))

\* Faulty variant: MACs are not carried over.
CarryOverNothing(macs, before) == macs

\* Faulty variant: the index check is off by one.
CarryOverButLast(macs, before) ==
  IF before = None THEN macs
  ELSE [k \in 1..Len(macs) |->
          IF macs[k] # None \/ k >= Len(before.macs) THEN macs[k]
          ELSE before.macs[k]]

\* _carry_over_identity: an interface without a MAC takes the one the
\* interface at its index had.
CarryOver(macs, before) ==
  IF before = None THEN macs
  ELSE [k \in 1..Len(macs) |->
          IF macs[k] # None \/ k > Len(before.macs) THEN macs[k]
          ELSE before.macs[k]]

IncomingUuid == IF loc.existing = None THEN Item.uuid ELSE loc.existing

\* A new domain counts as changed; an existing one is compared afterwards.
DefineDomain ==
  LET created == loc.existing = None
      targets == DefineTargets(Item.name, IncomingUuid)
  IN  /\ pc = "define"
      /\ \/ \E u \in targets, macs \in Filled(CarryOver(Item.macs, loc.before)) :
              /\ Continue(IF created THEN "autostart" ELSE "newXml")
              /\ Mutate(u, DefinedAs(u, Item.name, Item.cfg, macs))
              /\ loc' = [loc EXCEPT !.dom = u, !.defined = created,
                                    !.changed = created]
         \/ CallFails(targets # {})

CompareDefinition ==
  LET differs == Exists(loc.dom) /\ XmlOf(loc.dom) # loc.before
  IN  /\ pc = "newXml"
      /\ Read("autostart", loc.dom,
              [loc EXCEPT !.defined = differs, !.changed = differs])

-----------------------------------------------------------------------------
(* _apply_autostart, _apply_run_state and _domain_facts *)

AfterAutostart == IF Item.state = "present" THEN "factState" ELSE "isActive"

ReadAutostart ==
  LET differs == Exists(loc.dom) /\ host[loc.dom].autostart # Item.autostart
  IN  /\ pc = "autostart"
      /\ \/ /\ Item.autostart = None
            /\ Continue(AfterAutostart) /\ Observe /\ UNCHANGED loc
         \/ /\ Item.autostart # None
            /\ Read(IF differs /\ ~check THEN "setAutostart" ELSE AfterAutostart,
                    loc.dom,
                    [loc EXCEPT !.changed = loc.changed \/ (differs /\ check)])

\* Faulty variant: the flag is set but not reported.
SetAutostartSilently ==
  LET d == loc.dom
  IN  /\ pc = "setAutostart"
      /\ Call(AfterAutostart, d, Exists(d) /\ host[d].persistent,
              [host[d] EXCEPT !.autostart = Item.autostart], loc)

SetAutostart ==
  LET d == loc.dom
  IN  /\ pc = "setAutostart"
      /\ Call(AfterAutostart, d, Exists(d) /\ host[d].persistent,
              [host[d] EXCEPT !.autostart = Item.autostart],
              [loc EXCEPT !.changed = TRUE])

ReadActive ==
  LET active == Exists(loc.dom) /\ IsActive(loc.dom)
  IN  /\ pc = "isActive"
      /\ Read(IF active THEN "state" ELSE "drive", loc.dom,
              [loc EXCEPT !.active = active])

ReadState ==
  /\ pc = "state"
  /\ Read("drive", loc.dom, [loc EXCEPT !.run = host[loc.dom].run])

\* Faulty variant: a paused domain counts as running.
OperationWithoutResume ==
  IF Item.state = "running" /\ ~loc.active THEN "create"
  ELSE IF Item.state = "paused" /\ loc.active /\ loc.run = "running" THEN "suspend"
  ELSE IF Item.state = "shutdown" /\ loc.active THEN "shutdown"
  ELSE IF Item.state = "destroyed" /\ loc.active THEN "destroy"
  ELSE "nothing"

\* The libvirt call the requested state asks for in view of what was read.
Operation ==
  IF Item.state = "running" /\ ~loc.active THEN "create"
  ELSE IF Item.state = "running" /\ loc.run = "paused" THEN "resume"
  ELSE IF Item.state = "paused" /\ loc.active /\ loc.run = "running" THEN "suspend"
  ELSE IF Item.state = "shutdown" /\ loc.active THEN "shutdown"
  ELSE IF Item.state = "destroyed" /\ loc.active THEN "destroy"
  ELSE "nothing"

\* What libvirt accepts in which run state, and what it does.
Accepts(op, d) ==
  CASE op = "create"   -> d.run = "shutoff"
    [] op = "resume"   -> d.run \in {"paused", "running"}
    [] op = "suspend"  -> d.run \in {"paused", "running"}
    [] op = "shutdown" -> d.run # "shutoff"
    [] op = "destroy"  -> d.run # "shutoff"
    [] OTHER           -> FALSE

Effect(op, d) ==
  CASE op = "create"   -> [d EXCEPT !.run = "running"]
    [] op = "resume"   -> [d EXCEPT !.run = "running"]
    [] op = "suspend"  -> [d EXCEPT !.run = "paused"]
    [] op = "shutdown" -> [d EXCEPT !.acpi = TRUE]
    [] op = "destroy"  -> Stopped(d)
    [] OTHER           -> d

ApplyRunState ==
  LET d == loc.dom
      driven == [loc EXCEPT !.changed = TRUE]
  IN  /\ pc = "drive"
      /\ \/ /\ Operation = "nothing"
            /\ Continue("factState") /\ Observe /\ UNCHANGED loc
         \/ /\ Operation # "nothing" /\ check
            /\ Continue("factState") /\ Observe /\ loc' = driven
         \/ /\ Operation # "nothing" /\ ~check
            /\ Call("factState", d, Exists(d) /\ Accepts(Operation, host[d]),
                    Effect(Operation, host[d]), driven)

\* _domain_facts makes four calls; the UUID comes from the handle.
FactState ==
  /\ pc = "factState"
  /\ Read("factActive", loc.dom, [loc EXCEPT !.facts.run = host[loc.dom].run])

\* Faulty variant: reports what was read before the domain was driven.
FactActiveStale ==
  /\ pc = "factActive"
  /\ Read("factAutostart", loc.dom, [loc EXCEPT !.facts.active = loc.active])

FactActive ==
  /\ pc = "factActive"
  /\ Read("factAutostart", loc.dom, [loc EXCEPT !.facts.active = IsActive(loc.dom)])

FactAutostart ==
  /\ pc = "factAutostart"
  /\ Read("factPersistent", loc.dom,
          [loc EXCEPT !.facts.autostart = host[loc.dom].autostart])

FactPersistent ==
  LET d == loc.dom
  IN  /\ pc = "factPersistent"
      /\ \/ /\ Exists(d)
            /\ EndItem(Ok(loc.changed,
                          [loc.facts EXCEPT !.persistent = host[d].persistent]))
            /\ Observe /\ UNCHANGED <<loc, bounds>>
         \/ CallFails(Exists(d))

-----------------------------------------------------------------------------
(* Guests and other clients of the same libvirtd *)

\* u becomes d by somebody else's hand; name is the domain it is about.
Outside(u, d, name) ==
  /\ host' = [host EXCEPT ![u] = d]
  /\ calm' = FALSE
  /\ disturbed' = (disturbed \/ (pc # "idle" /\ name = Item.name))
  /\ settled' = None
  /\ forecast' = None
  /\ UNCHANGED <<pc, task, i, loc, entries, faults, touched>>

\* A guest that was asked to shut down does so when it gets round to it.
GuestObeys ==
  \E u \in UUIDs :
    /\ Exists(u) /\ host[u].run = "running" /\ host[u].acpi
    /\ Outside(u, Stopped(host[u]), host[u].name)
    /\ UNCHANGED meddle

Meddle == meddle < MaxMeddle /\ meddle' = meddle + 1

\* A guest powers off, goes to sleep or wakes up on its own.
GuestActs ==
  \E u \in UUIDs :
    /\ Meddle
    /\ Exists(u)
    /\ \/ /\ host[u].run = "running"
          /\ Outside(u, Stopped(host[u]), host[u].name)
       \/ /\ host[u].run = "running"
          /\ Outside(u, [host[u] EXCEPT !.run = "pmsuspended"], host[u].name)
       \/ /\ host[u].run = "pmsuspended"
          /\ Outside(u, [host[u] EXCEPT !.run = "running"], host[u].name)

\* Another client drives, flags, edits, undefines or defines a domain.
ClientDrives ==
  \E u \in UUIDs, op \in {"create", "resume", "suspend", "shutdown", "destroy"} :
    /\ Meddle
    /\ Exists(u) /\ Accepts(op, host[u])
    /\ Outside(u, Effect(op, host[u]), host[u].name)

ClientEdits ==
  \E u \in UUIDs :
    /\ Meddle
    /\ Exists(u) /\ host[u].persistent
    /\ \/ \E cfg \in Cfgs :
            Outside(u, [host[u] EXCEPT !.cfg = cfg], host[u].name)
       \/ Outside(u, [host[u] EXCEPT !.autostart = ~host[u].autostart], host[u].name)

ClientUndefines ==
  \E u \in UUIDs :
    /\ Meddle
    /\ Exists(u) /\ host[u].persistent
    /\ Outside(u, Undefined(host[u]), host[u].name)

\* A UUID the module holds a handle to is not given to another name.
ClientDefines ==
  \E u \in UUIDs, n \in Names, cfg \in Cfgs :
    /\ Meddle
    /\ host[u] = None /\ Named(n) = {}
    /\ u \in {loc.existing, loc.dom} => n = Item.name
    /\ Outside(u, DefinedAs(u, n, cfg, <<>>), n)

Environment ==
  GuestObeys \/ GuestActs \/ ClientDrives \/ ClientEdits \/ ClientUndefines
  \/ ClientDefines

-----------------------------------------------------------------------------

Init ==
  /\ host \in InitHosts
  /\ pc = "idle" /\ items = <<>> /\ i = 0 /\ check = FALSE
  /\ loc = NoLocals /\ entries = <<>>
  /\ faults = 0 /\ meddle = 0
  /\ calm = FALSE /\ disturbed = FALSE /\ touched = FALSE
  /\ settled = None /\ forecast = None

Reconcile ==
  \/ ValidateSpec \/ LookupDomain \/ AlreadyAbsent \/ WouldUndefine
  \/ AbsentIsActive \/ AbsentDestroy \/ AbsentUndefine
  \/ BuildXml \/ ReadDefinition \/ DefineDomain \/ CompareDefinition
  \/ ReadAutostart \/ SetAutostart \/ ReadActive \/ ReadState \/ ApplyRunState
  \/ FactState \/ FactActive \/ FactAutostart \/ FactPersistent

Module == Reconcile \/ NextItem \/ FinishRun

Next == Module \/ (\E c \in BOOLEAN : StartRun(c)) \/ Kill \/ Environment

Spec == Init /\ [][Next]_vars

\* Ansible steps the module process for as long as it lives, a guest asked to
\* shut down eventually does, and the operator keeps re-running the playbook
\* for real, dry runs in between or not.
Fairness == WF_vars(Module) /\ WF_vars(GuestObeys) /\ SF_vars(StartRun(FALSE))

FairSpec == Spec /\ Fairness

-----------------------------------------------------------------------------
(* Properties *)

PCs == {"idle", "next", "validate", "lookup", "gone", "would", "absActive",
        "absDestroy", "absUndefine", "build", "xmlDesc", "define", "newXml",
        "autostart", "setAutostart", "isActive", "state", "drive", "factState",
        "factActive", "factAutostart", "factPersistent"}

\* Types, and what libvirt guarantees of its domain list whoever edits it: a
\* name belongs to one UUID, and only active domains are transient.
TypeOK ==
  /\ SaneHost(host)
  /\ pc \in PCs
  /\ items \in Playbooks \cup {<<>>}
  /\ i \in Nat /\ (pc # "idle" => i \in 1..Len(items))
  /\ check \in BOOLEAN
  /\ loc \in Locals
  /\ entries \in Seq(Entry)
  /\ pc # "idle" => Len(entries) = IF pc = "next" THEN i ELSE i - 1
  /\ faults \in 0..MaxFaults /\ meddle \in 0..MaxMeddle
  /\ calm \in BOOLEAN /\ disturbed \in BOOLEAN /\ touched \in BOOLEAN
  /\ settled \in Maybe(Playbooks)
  /\ forecast \in Maybe(Forecasts)

\* The item just ended with an entry that reports no failure.
Succeeded == pc = "next" /\ ~entries[i].failed
Alone == ~disturbed

\* An item that succeeds, with nobody else at its domain, says "changed" exactly
\* when it changed the domain: no edit, start, stop, autostart flip or removal is
\* hidden, and none is claimed (libvirt_domain.py:341-359, 444-450).  A shutdown
\* request is repeated, and reported, until the guest obeys.
ChangedExact ==
  Succeeded /\ Alone /\ ~check =>
    \/ entries[i].changed = touched
    \/ Item.state = "shutdown" /\ entries[i].changed

\* What the module takes for the state a spec asks of the host.  It resumes paused
\* domains only (libvirt_domain.py:504-513): for state running it leaves one that has
\* gone to sleep (pmsuspended) as it is, and so does this predicate; RunningRuns
\* below asks for what the documentation says.
Goal(spec) ==
  IF spec.state = "absent" THEN Named(spec.name) = {}
  ELSE \E u \in Named(spec.name) :
    /\ host[u].persistent
    /\ spec.uuid \in {None, u}
    /\ host[u].cfg = spec.cfg
    /\ Len(host[u].macs) = Len(spec.macs)
    /\ \A k \in 1..Len(spec.macs) : spec.macs[k] \in {None, host[u].macs[k]}
    /\ spec.autostart \in {None, host[u].autostart}
    /\ spec.state = "running" => host[u].run \in {"running", "pmsuspended"}
    /\ spec.state = "paused" => host[u].run # "running"
    /\ spec.state = "shutdown" => host[u].run = "shutoff" \/ host[u].acpi
    /\ spec.state = "destroyed" => host[u].run = "shutoff"

\* A successful item leaves its domain as the spec asks (options of
\* libvirt_domain.py:57-66), even when earlier steps of the same item changed
\* what later ones read; shutdown is only requested, and a domain that sleeps
\* passes for running.
Converged == Succeeded /\ Alone /\ ~check => Goal(Item)

\* The facts of a successful item are those of one existing domain, although
\* four calls collect them, and a domain that should exist has facts
\* (libvirt_domain.py:559-568 and RETURN "domains").
FactsCurrent ==
  Succeeded /\ Alone /\ Item.state # "absent" =>
    IF entries[i].facts = None THEN Named(Item.name) = {}
    ELSE \E u \in Named(Item.name) :
           entries[i].facts = [run |-> host[u].run, active |-> IsActive(u),
                               autostart |-> host[u].autostart,
                               persistent |-> host[u].persistent]

\* Each domain is listed once; a list that asks twice for different states of one
\* domain changes it in every run.
Distinct == \A p \in Playbooks : \A m, n \in 1..Len(p) : p[m].name = p[n].name => m = n

\* "Defining an existing domain is idempotent" (libvirt_domain.py:43-45): the
\* same playbook run again on a host nobody touched changes nothing, MACs that
\* libvirt generated included; only shutdown requests repeat.
Idempotent ==
  pc = "next" /\ ~check /\ settled = items =>
    ~entries[i].changed \/ Item.state = "shutdown"

\* A dry run foretells the real run after it: on a host nobody else touched the
\* real run changes just the items the dry run named and those whose definition
\* it rewrites, which check mode cannot see (libvirt_domain.py:428-431).
CheckForecast ==
  Succeeded /\ ~check /\ forecast # None /\ ~forecast.entries[i].failed =>
    entries[i].changed = (forecast.entries[i].changed \/ loc.defined)

\* Check mode never touches the host (libvirt_domain.py:342, 439, 490, 556).
CheckInert == [][Module /\ check => UNCHANGED host]_vars

\* The module touches only the domain its item names, and takes a persistent
\* domain away only when told "absent" (libvirt_domain.py:336-359, 537-550).
\* A handle survives other clients' undefine and define of the same name.
OnlyAsked ==
  [][Module => \A u \in UUIDs : host'[u] # host[u] =>
       /\ host[u] # None => host[u].name = Item.name
       /\ host'[u] # None => host'[u].name = Item.name
       /\ host'[u] = None => Item.state = "absent" \/ ~host[u].persistent]_vars

\* "Generated by libvirt (and kept stable across runs) when omitted": redefining
\* a domain never gives an interface without explicit MAC another address, unless
\* someone else edits the domain meanwhile (libvirt_domain.py:452-477).
MacsKept ==
  [][Module /\ Alone => \A u \in UUIDs : host[u] # None /\ host'[u] # None =>
       \A k \in DOMAIN host[u].macs \cap DOMAIN host'[u].macs :
         host'[u].macs[k] = host[u].macs[k] \/ Item.macs[k] # None]_vars

\* Whatever fails or is killed half-way, once failures and other clients cease
\* the playbook, run again and again, brings every domain to what it asks for, a
\* sleeping one passing for running; an item that can only fail holds none of the
\* others back (libvirt_domain.py:299-308).
Converges ==
  \A p \in Playbooks :
    <>[](items = p) => <>[](\A k \in DOMAIN p : p[k].form = "good" => Goal(p[k]))

-----------------------------------------------------------------------------
(* A statement of the documentation that the code does not live up to *)

\* "C(running) defines and starts (or resumes) the domain." (libvirt_domain.py:67):
\* the domain of an item that succeeds with it runs.
RunningRuns ==
  Succeeded /\ Alone /\ ~check /\ Item.state = "running" =>
    \E u \in Named(Item.name) : host[u].run = "running"
=============================================================================
