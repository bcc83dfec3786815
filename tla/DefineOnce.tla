----------------------------- MODULE DefineOnce -----------------------------
(***************************************************************************)
(* The reconciler that libvirt_pool.py and libvirt_network.py have in      *)
(* common: a resource is looked up by name, defined if it is missing and   *)
(* never rewritten, its autostart flag and run state are enforced, and it  *)
(* is stopped and undefined on request.  LibvirtPool and LibvirtNetwork    *)
(* add what is their own.  One action is one libvirt call.                 *)
(*                                                                         *)
(* host is libvirt's list of pools or networks, keyed by UUID as handles   *)
(* are; loc the locals.  alone and moved record, for the item in hand,     *)
(* whether its resource is ours and whether the module has done anything.  *)
(***************************************************************************)
EXTENDS ModuleRun

CONSTANTS
  Names,            \* resource names
  UUIDs,            \* resource UUIDs
  Cfgs,             \* definitions; of a pool, its target path
  UndefinesActive   \* libvirt undefines an active resource, which goes on as a
                    \* transient one (networks), or refuses to (pools)

VARIABLES host, loc, alone, moved

States == {"present", "active", "inactive", "absent"}
Resource == [name: Names, cfg: Cfgs, active: BOOLEAN, autostart: BOOLEAN,
             persistent: BOOLEAN]

\* Locals of _reconcile_one and the methods it calls.
Locals == [it: Maybe(UUIDs), changed: BOOLEAN, path: Maybe(Cfgs)]
NoLocals == [it |-> None, changed |-> FALSE, path |-> None]

\* Names and definitions (a target path, a bridge) are unique, and a transient
\* resource exists only while active.
SaneHost(h) ==
  /\ h \in [UUIDs -> Maybe(Resource)]
  /\ \A u, v \in UUIDs :
       /\ h[u] # None /\ h[v] # None
       /\ h[u].name = h[v].name \/ h[u].cfg = h[v].cfg
       => u = v
  /\ \A u \in UUIDs : h[u] # None /\ ~h[u].persistent => h[u].active

ASSUME DefineOnceAssumption ==
  /\ None \notin UUIDs /\ None \notin Cfgs /\ None \notin Resource
  /\ None \notin [name: Names, state: States, dry: BOOLEAN]
  /\ UndefinesActive \in BOOLEAN

-----------------------------------------------------------------------------
(* libvirt *)

Exists(u) == u # None /\ host[u] # None
Named(n) == {u \in UUIDs : host[u] # None /\ host[u].name = n}

Stopped(d) == IF d.persistent THEN [d EXCEPT !.active = FALSE] ELSE None

Undefinable(d) == d.persistent /\ (UndefinesActive \/ ~d.active)
Undefined(d) ==
  IF d.active THEN [d EXCEPT !.persistent = FALSE, !.autostart = FALSE] ELSE None

Defined(n, cfg) == [name |-> n, cfg |-> cfg, active |-> FALSE,
                    autostart |-> FALSE, persistent |-> TRUE]

\* Where a definition may go: to the UUID it names or an unused one.  A name,
\* UUID, target path or bridge that is taken is refused; the module only defines
\* what it found missing.
Free(n, uuid, cfg) ==
  IF \E u \in UUIDs : host[u] # None /\ (host[u].name = n \/ host[u].cfg = cfg) THEN {}
  ELSE {u \in UUIDs : host[u] = None /\ uuid \in {None, u}}

-----------------------------------------------------------------------------
(* The shape of a step *)

Observe == UNCHANGED <<host, alone, moved>>

Return(entry) == EndItem(entry) /\ Observe /\ UNCHANGED <<loc, bounds>>

CallFails(possible) == EndsRaised(possible) /\ Observe /\ UNCHANGED loc

\* The module changes u to d.
Mutate(u, d) ==
  /\ host' = [host EXCEPT ![u] = d]
  /\ moved' = TRUE
  /\ UNCHANGED alone

\* A read of the resource in hand.
Read(to, new) ==
  \/ Exists(loc.it) /\ Continue(to) /\ Observe /\ loc' = new
  \/ CallFails(Exists(loc.it))

\* A mutating call that libvirt accepts when possible and that makes d of it.
Call(to, possible, d, new) ==
  \/ Exists(loc.it) /\ possible /\ Continue(to) /\ Mutate(loc.it, d) /\ loc' = new
  \/ CallFails(Exists(loc.it) /\ possible)

ItemUp(n) ==
  /\ i' = n
  /\ pc' = "lookup"
  /\ loc' = NoLocals
  /\ alone' = TRUE /\ moved' = FALSE

\* The process starts and connects; a dry run when c.
BeginRun(specs, c) ==
  /\ items' = specs /\ check' = c
  /\ entries' = <<>>
  /\ ItemUp(1)
  /\ UNCHANGED <<host, bounds>>

NextItem ==
  /\ pc = "next" /\ i < Len(items)
  /\ ItemUp(i + 1)
  /\ UNCHANGED <<host, items, check, entries, bounds>>

-----------------------------------------------------------------------------
(* _reconcile_one and _absent_one *)

\* Faulty variant: removal does not look at check mode.
AfterLookupUnchecked(it) ==
  IF Item.state # "absent" THEN IF it = None THEN "define" ELSE "autostart"
  ELSE IF it = None THEN "gone" ELSE "absActive"

AfterLookup(it) ==
  IF Item.state # "absent" THEN IF it = None THEN "define" ELSE "autostart"
  ELSE IF it = None THEN "gone" ELSE IF check THEN "would" ELSE "absActive"

Lookup ==
  /\ pc = "lookup"
  /\ \/ \E it \in (IF Named(Item.name) = {} THEN {None} ELSE Named(Item.name)) :
          Continue(AfterLookup(it)) /\ Observe /\ loc' = [loc EXCEPT !.it = it]
     \/ CallFails(TRUE)

AlreadyAbsent == pc = "gone" /\ Return(Ok(FALSE))
WouldUndefine == pc = "would" /\ Return(Ok(TRUE))

\* Faulty variant: stops without asking whether it runs.
AbsentAssumeActive == pc = "absActive" /\ Read("absDestroy", loc)

AbsentIsActive ==
  /\ pc = "absActive"
  /\ Read(IF Exists(loc.it) /\ host[loc.it].active THEN "absDestroy" ELSE "absUndefine",
          loc)

AbsentDestroy ==
  /\ pc = "absDestroy"
  /\ Call("absUndefine", host[loc.it].active, Stopped(host[loc.it]), loc)

AbsentUndefine ==
  /\ pc = "absUndefine"
  /\ Call("undefined", Undefinable(host[loc.it]), Undefined(host[loc.it]), loc)

AbsentReturn == pc = "undefined" /\ Return(Ok(TRUE))

\* The resource is missing; the XML builder may refuse the spec.
\* Faulty variant: the dry run announces nothing.
WouldDefineSilently == pc = "define" /\ check /\ Return(Ok(FALSE))

WouldDefine == pc = "define" /\ check /\ Return(Ok(TRUE))

Define(to) ==
  /\ pc = "define" /\ ~check
  /\ \/ Item.form = "malformed" /\ Return(Raised)
     \/ /\ Item.form = "good"
        /\ \/ \E u \in Free(Item.name, Item.uuid, Item.cfg) :
                /\ Continue(to)
                /\ Mutate(u, Defined(Item.name, Item.cfg))
                /\ loc' = [loc EXCEPT !.it = u, !.changed = TRUE]
           \/ CallFails(Free(Item.name, Item.uuid, Item.cfg) # {})

-----------------------------------------------------------------------------
(* _apply_autostart, _apply_run_state and the facts *)

\* Faulty variant: the flag is set whatever it was.
ReadAutostartUncompared ==
  /\ pc = "autostart"
  /\ \/ Item.autostart = None /\ Continue("isActive") /\ Observe /\ UNCHANGED loc
     \/ /\ Item.autostart # None
        /\ Read(IF ~check THEN "setAutostart" ELSE "isActive",
                [loc EXCEPT !.changed = loc.changed \/ check])

ReadAutostart ==
  LET differs == Exists(loc.it) /\ host[loc.it].autostart # Item.autostart
  IN  /\ pc = "autostart"
      /\ \/ Item.autostart = None /\ Continue("isActive") /\ Observe /\ UNCHANGED loc
         \/ /\ Item.autostart # None
            /\ Read(IF differs /\ ~check THEN "setAutostart" ELSE "isActive",
                    [loc EXCEPT !.changed = loc.changed \/ (differs /\ check)])

SetAutostart ==
  /\ pc = "setAutostart"
  /\ Call("isActive", host[loc.it].persistent,
          [host[loc.it] EXCEPT !.autostart = Item.autostart],
          [loc EXCEPT !.changed = TRUE])

\* Faulty variant: nothing is ever stopped.
OperationUpOnly(active) ==
  IF Item.state = "active" /\ ~active THEN "create" ELSE "nothing"

\* What the run state asks for in view of what isActive answered.
Operation(active) ==
  IF Item.state = "active" /\ ~active THEN "create"
  ELSE IF Item.state = "inactive" /\ active THEN "destroy" ELSE "nothing"

\* Faulty variant: check mode is forgotten.
ReadActiveUnchecked(to) ==
  LET op == IF Exists(loc.it) THEN Operation(host[loc.it].active) ELSE "nothing"
  IN  pc = "isActive" /\ Read(IF op = "nothing" THEN to ELSE op, loc)

ReadActive(to) ==
  LET op == IF Exists(loc.it) THEN Operation(host[loc.it].active) ELSE "nothing"
  IN  /\ pc = "isActive"
      /\ Read(IF op = "nothing" \/ check THEN to ELSE op,
              [loc EXCEPT !.changed = loc.changed \/ (op # "nothing" /\ check)])

\* Faulty variant: starting is not reported.
StartSilently(startable, to) ==
  /\ pc = "create"
  /\ Call(to, startable /\ ~host[loc.it].active,
          [host[loc.it] EXCEPT !.active = TRUE], loc)

Start(startable, to) ==
  /\ pc = "create"
  /\ Call(to, startable /\ ~host[loc.it].active,
          [host[loc.it] EXCEPT !.active = TRUE], [loc EXCEPT !.changed = TRUE])

Stop(to) ==
  /\ pc = "destroy"
  /\ Call(to, host[loc.it].active, Stopped(host[loc.it]),
          [loc EXCEPT !.changed = TRUE])

FactActive == pc = "factActive" /\ Read("factAutostart", loc)
FactAutostart == pc = "factAutostart" /\ Read("factPersistent", loc)

FactPersistent ==
  /\ pc = "factPersistent"
  /\ \/ Exists(loc.it) /\ Return(Ok(loc.changed))
     \/ CallFails(Exists(loc.it))

-----------------------------------------------------------------------------
(* Other clients *)

Outside(u, d, name) ==
  /\ meddle < MaxMeddle /\ meddle' = meddle + 1
  /\ host' = [host EXCEPT ![u] = d]
  /\ alone' = (alone /\ ~(Busy /\ name = Item.name))
  /\ UNCHANGED <<pc, items, i, check, loc, entries, faults, moved>>

ClientDrives(u, startable) ==
  /\ Exists(u)
  /\ LET d == host[u]
     IN  \/ ~d.active /\ startable /\ Outside(u, [d EXCEPT !.active = TRUE], d.name)
         \/ d.active /\ Outside(u, Stopped(d), d.name)
         \/ d.persistent /\ Outside(u, [d EXCEPT !.autostart = ~d.autostart], d.name)
         \/ Undefinable(d) /\ Outside(u, Undefined(d), d.name)

\* A UUID the module holds a handle to is not given to another name.
ClientDefines(u) ==
  \E n \in Names, cfg \in Cfgs :
    /\ u \in Free(n, None, cfg)
    /\ u = loc.it => n = Item.name
    /\ Outside(u, Defined(n, cfg), n)

-----------------------------------------------------------------------------
(* For the components' properties *)

PCs == {"idle", "task", "next", "lookup", "gone", "would", "absActive",
        "absDestroy", "absUndefine", "undefined", "define", "build", "autostart",
        "setAutostart", "isActive", "create", "destroy", "refreshActive",
        "refresh", "factName", "factActive", "factAutostart", "factPersistent"}

ModuleTypes ==
  /\ SaneHost(host)
  /\ pc \in PCs
  /\ RunTypes
  /\ loc \in Locals
  /\ alone \in BOOLEAN /\ moved \in BOOLEAN

Level(n) ==
  IF Named(n) = {} THEN "missing"
  ELSE LET u == CHOOSE v \in Named(n) : TRUE
       IN  IF ~host[u].persistent THEN "transient"
           ELSE IF host[u].active THEN "active" ELSE "inactive"

\* A spec is good unless it is malformed or what it would define is taken.
Feasible(spec) ==
  /\ spec.form = "good"
  /\ Named(spec.name) = {} => Free(spec.name, spec.uuid, spec.cfg) # {}

\* The autostart flag is as asked; a transient resource has none.
AutostartAsked(spec) ==
  spec.state # "absent" =>
    \A u \in Named(spec.name) :
      host[u].persistent => spec.autostart \in {None, host[u].autostart}

Abstract == INSTANCE Reconciler WITH
  level  <- [n \in Names |-> Level(n)],
  asked  <- IF Busy THEN [name |-> Item.name, state |-> Item.state, dry |-> check]
            ELSE None,
  moved  <- Busy /\ moved,
  alone  <- Busy => alone,
  report <- IF pc # "next" THEN "none"
            ELSE IF entries[i].failed THEN "failed"
            ELSE IF entries[i].changed THEN "changed" ELSE "unchanged"
=============================================================================
