-------------------------- MODULE DefineOnceProofs --------------------------
(***************************************************************************)
(* Lemmas about DefineOnce: what libvirt's effects do to a sane host and   *)
(* to the levels of its resources, and which step of Reconciler each shape *)
(* of a step of the module is, and what it keeps of the types.  Then the   *)
(* steps of DefineOnce, proved once for pools and networks: what the calls *)
(* before each call have established (Here), and one lemma per action that *)
(* it takes one of three shapes, to a place where that holds again.  What  *)
(* the modules promise follows from the shapes alone.                      *)
(***************************************************************************)
EXTENDS DefineOnce, TLAPS

Working == PCs \ {"idle", "task", "next"}

-----------------------------------------------------------------------------
(* A host and its levels *)

\* d may take the place of old: the name and the definition stay, and what is
\* not persistent is active.
Replaces(d, old) ==
  /\ d \in Maybe(Resource)
  /\ d # None => /\ d.name = old.name /\ d.cfg = old.cfg
                 /\ d.persistent \/ d.active

LEMMA StoppedReplaces ==
  ASSUME NEW d \in Resource
  PROVE  Replaces(Stopped(d), d)
  BY DefineOnceAssumption DEF Resource, Stopped, Replaces, Maybe

LEMMA UndefinedReplaces ==
  ASSUME NEW d \in Resource
  PROVE  Replaces(Undefined(d), d)
  BY DefineOnceAssumption DEF Resource, Undefined, Replaces, Maybe

LEMMA ExistsType ==
  ASSUME SaneHost(host), NEW u \in Maybe(UUIDs), Exists(u)
  PROVE  /\ u \in UUIDs /\ host[u] # None /\ host[u] \in Resource
         /\ host[u].persistent \/ host[u].active
  BY DEF SaneHost, Exists, Maybe

LEMMA ReplacesSane ==
  ASSUME SaneHost(host), NEW u \in UUIDs, host[u] # None, NEW d,
         Replaces(d, host[u])
  PROVE  SaneHost([host EXCEPT ![u] = d])
  BY DEF SaneHost, Replaces

LEMMA DefinedType ==
  ASSUME NEW n \in Names, NEW cfg \in Cfgs
  PROVE  Defined(n, cfg) \in Resource
  BY DEF Defined, Resource

\* What libvirt accepts as a new definition keeps the host sane.
LEMMA DefineSane ==
  ASSUME SaneHost(host), NEW n \in Names, NEW cfg \in Cfgs, NEW uuid,
         NEW u \in Free(n, uuid, cfg)
  PROVE  /\ u \in UUIDs /\ host[u] = None /\ Named(n) = {}
         /\ SaneHost([host EXCEPT ![u] = Defined(n, cfg)])
<1> DEFINE d == Defined(n, cfg)
<1>1. /\ u \in UUIDs /\ host[u] = None
      /\ \A v \in UUIDs : host[v] # None => host[v].name # n /\ host[v].cfg # cfg
  BY DEF Free
<1>2. Named(n) = {}
  BY <1>1 DEF Named
<1>3. d \in Resource /\ d.name = n /\ d.cfg = cfg /\ d.persistent
  BY DefinedType DEF Defined
<1> HIDE DEF d
<1>4. SaneHost([host EXCEPT ![u] = d])
  BY <1>1, <1>3 DEF SaneHost, Maybe
<1> QED
  BY <1>1, <1>2, <1>4 DEF d

\* The level of a resource, and of a name on a host h.
LevelOf(d) ==
  IF d = None THEN "missing"
  ELSE IF ~d.persistent THEN "transient"
  ELSE IF d.active THEN "active" ELSE "inactive"

LEMMA ResourceLevel ==
  ASSUME NEW d \in Resource
  PROVE  LevelOf(d) = IF ~d.persistent THEN "transient"
                      ELSE IF d.active THEN "active" ELSE "inactive"
  BY DefineOnceAssumption DEF LevelOf

LEMMA StoppedLevel ==
  ASSUME NEW d \in Resource
  PROVE  /\ LevelOf(Stopped(d)) = IF d.persistent THEN "inactive" ELSE "missing"
         /\ Stopped(d) # None => ~Stopped(d).active
<1>1. [d EXCEPT !.active = FALSE] \in Resource
  BY DEF Resource
<1> QED
  BY <1>1, ResourceLevel DEF Stopped, LevelOf, Resource

LEMMA UndefinedLevel ==
  ASSUME NEW d \in Resource
  PROVE  LevelOf(Undefined(d)) = IF d.active THEN "transient" ELSE "missing"
<1>1. [d EXCEPT !.persistent = FALSE, !.autostart = FALSE] \in Resource
  BY DEF Resource
<1> QED
  BY <1>1, ResourceLevel DEF Undefined, LevelOf, Resource

LEMMA FlaggedLevel ==
  ASSUME NEW d \in Resource, d.persistent, NEW b \in BOOLEAN
  PROVE  /\ Replaces([d EXCEPT !.autostart = b], d)
         /\ LevelOf([d EXCEPT !.autostart = b]) = LevelOf(d)
<1>1. [d EXCEPT !.autostart = b] \in Resource
  BY DEF Resource
<1> QED
  BY <1>1, ResourceLevel DEF Replaces, Resource, Maybe

LEMMA StartedLevel ==
  ASSUME NEW d \in Resource, d.persistent
  PROVE  /\ Replaces([d EXCEPT !.active = TRUE], d)
         /\ LevelOf([d EXCEPT !.active = TRUE]) = "active"
<1>1. [d EXCEPT !.active = TRUE] \in Resource
  BY DEF Resource
<1> QED
  BY <1>1, ResourceLevel DEF Replaces, Resource, Maybe

LEMMA DefinedLevel ==
  ASSUME NEW n \in Names, NEW cfg \in Cfgs
  PROVE  LevelOf(Defined(n, cfg)) = "inactive"
  BY DefinedType, ResourceLevel DEF Defined

NamedIn(h, n) == {u \in UUIDs : h[u] # None /\ h[u].name = n}
LevelIn(h, n) ==
  IF NamedIn(h, n) = {} THEN "missing"
  ELSE LET u == CHOOSE v \in NamedIn(h, n) : TRUE
       IN  IF ~h[u].persistent THEN "transient"
           ELSE IF h[u].active THEN "active" ELSE "inactive"

LEMMA LevelNow ==
  ASSUME NEW n
  PROVE  Level(n) = LevelIn(host, n) /\ Named(n) = NamedIn(host, n)
  BY DEF Level, LevelIn, Named, NamedIn

LEMMA LevelNext ==
  ASSUME NEW n
  PROVE  Level(n)' = LevelIn(host', n) /\ Named(n)' = NamedIn(host', n)
  BY DEF Level, LevelIn, Named, NamedIn

LEMMA LevelMissing ==
  ASSUME NEW h, NEW n, NamedIn(h, n) = {}
  PROVE  LevelIn(h, n) = "missing"
  BY DEF LevelIn

LEMMA LevelHeld ==
  ASSUME NEW h, SaneHost(h), NEW u \in UUIDs, h[u] # None
  PROVE  /\ NamedIn(h, h[u].name) = {u}
         /\ LevelIn(h, h[u].name) = LevelOf(h[u])
<1>1. NamedIn(h, h[u].name) = {u}
  BY DEF NamedIn, SaneHost
<1>2. (CHOOSE v \in {u} : TRUE) = u
  OBVIOUS
<1> QED
  BY <1>1, <1>2 DEF LevelIn, LevelOf

LEMMA LevelType ==
  ASSUME NEW n
  PROVE  Level(n) \in {"missing", "inactive", "active", "transient"}
  BY DEF Level

\* Writing d for the resource of the name n moves the level of n and no other.
LEMMA LevelStep ==
  ASSUME SaneHost(host), SaneHost(host'), NEW u \in UUIDs, NEW d, NEW n,
         host'[u] = d, \A v \in UUIDs : v # u => host'[v] = host[v],
         host[u] # None => host[u].name = n,
         host[u] = None => Named(n) = {},
         d # None => d.name = n
  PROVE  /\ Level(n) = LevelOf(host[u])
         /\ Level(n)' = LevelOf(d)
         /\ \A m \in Names : m # n => Level(m)' = Level(m)
<1>1. Level(n) = LevelOf(host[u])
  <2>1. CASE host[u] = None
    BY <2>1 DEF Level, LevelOf
  <2>2. CASE host[u] # None
    BY <2>2, LevelHeld, LevelNow
  <2> QED
    BY <2>1, <2>2
<1>2. Level(n)' = LevelOf(d)
  <2>1. CASE d = None
    <3>1. ASSUME host[u] = None PROVE NamedIn(host', n) = {}
      BY <2>1, <3>1 DEF NamedIn, Named
    <3>2. ASSUME host[u] # None PROVE NamedIn(host', n) = {}
      BY <2>1, <3>2 DEF NamedIn, SaneHost
    <3>3. Level(n)' = "missing"
      BY <3>1, <3>2, LevelNext, LevelMissing
    <3> QED
      BY <2>1, <3>3 DEF LevelOf
  <2>2. CASE d # None
    <3>1. host'[u] # None
      BY <2>2
    <3>2. LevelIn(host', host'[u].name) = LevelOf(host'[u])
      BY <3>1, LevelHeld
    <3> QED
      BY <2>2, <3>2, LevelNext
  <2> QED
    BY <2>1, <2>2
<1>3. ASSUME NEW m \in Names, m # n
      PROVE  Level(m)' = Level(m)
  <2>1. NamedIn(host', m) = NamedIn(host, m) /\ u \notin NamedIn(host, m)
    BY <1>3 DEF NamedIn
  <2>2. \A v \in NamedIn(host', m) : host'[v] = host[v]
    BY <2>1 DEF NamedIn
  <2>3. LevelIn(host', m) = LevelIn(host, m)
    <3> DEFINE S == NamedIn(host, m)
               v == CHOOSE w \in S : TRUE
    <3>1. CASE S = {}
      BY <2>1, <3>1 DEF LevelIn
    <3>2. CASE S # {}
      <4>1. host'[v] = host[v]
        BY <2>1, <2>2, <3>2
      <4> QED
        BY <2>1, <3>2, <4>1 DEF LevelIn
    <3> QED
      BY <3>1, <3>2
  <2>4. Level(m) = LevelIn(host, m)
    BY LevelNow
  <2>5. Level(m)' = LevelIn(host', m)
    BY LevelNext
  <2> QED
    BY <2>3, <2>4, <2>5
<1> QED
  BY <1>1, <1>2, <1>3
-----------------------------------------------------------------------------
(* The shapes of the module's steps *)

\* A step that changes nothing on the host, one that changes resource u to d, and
\* one that ends the item.
Quiet(to, new) == Continue(to) /\ Observe /\ loc' = new
Changing(to, u, d, new) == Continue(to) /\ Mutate(u, d) /\ loc' = new
Ends(e) ==
  /\ EndItem(e) /\ Observe /\ UNCHANGED <<loc, meddle>>
  /\ faults' \in 0..MaxFaults

LEMMA ReturnEnds ==
  ASSUME ModuleTypes, NEW e, Return(e)
  PROVE  Ends(e)
  BY DEF Return, Ends, ModuleTypes, RunTypes, bounds

LEMMA CallFailsEnds ==
  ASSUME ModuleTypes, NEW possible, CallFails(possible)
  PROVE  Ends(Raised)
  BY RunAssumption DEF CallFails, EndsRaised, Fault, Ends, ModuleTypes, RunTypes, bounds

LEMMA ReadShape ==
  ASSUME ModuleTypes, NEW to, NEW new, Read(to, new)
  PROVE  (Exists(loc.it) /\ Quiet(to, new)) \/ Ends(Raised)
  BY CallFailsEnds DEF Read, Quiet

LEMMA CallShape ==
  ASSUME ModuleTypes, NEW to, NEW possible, NEW d, NEW new,
         Call(to, possible, d, new)
  PROVE  \/ Exists(loc.it) /\ possible /\ Changing(to, loc.it, d, new)
         \/ Ends(Raised)
  BY CallFailsEnds DEF Call, Changing

LEMMA QuietType ==
  ASSUME ModuleTypes, pc \in Working, NEW to \in Working, NEW new \in Locals,
         Quiet(to, new)
  PROVE  ModuleTypes'
  BY DEF Quiet, Continue, Observe, ModuleTypes, RunTypes, Working, bounds

LEMMA ChangingType ==
  ASSUME ModuleTypes, pc \in Working, NEW to \in Working, NEW new \in Locals,
         NEW u, NEW d, SaneHost([host EXCEPT ![u] = d]), Changing(to, u, d, new)
  PROVE  ModuleTypes'
  BY DEF Changing, Continue, Mutate, ModuleTypes, RunTypes, Working, bounds

LEMMA EndsType ==
  ASSUME ModuleTypes, pc \in Working, NEW e \in Entry, Ends(e)
  PROVE  ModuleTypes' /\ entries'[i] = e
<1>1. pc' = "next" /\ entries' = Append(entries, e) /\ UNCHANGED <<items, i, check>>
  BY DEF Ends, EndItem
<1>2. i \in 1..Len(items) /\ Len(entries) = i - 1 /\ entries \in Seq(Entry)
  BY DEF ModuleTypes, RunTypes, Working
<1>3. entries' \in Seq(Entry) /\ Len(entries') = i /\ entries'[i] = e
  BY <1>1, <1>2
<1>4. /\ UNCHANGED <<host, loc, alone, moved, meddle>>
      /\ faults' \in 0..MaxFaults
  BY DEF Ends, Observe
<1> QED
  BY <1>1, <1>2, <1>3, <1>4 DEF ModuleTypes, RunTypes, PCs

LEMMA OutsideType ==
  ASSUME ModuleTypes, NEW u, NEW d, NEW name,
         SaneHost([host EXCEPT ![u] = d]), Outside(u, d, name)
  PROVE  ModuleTypes'
<1>1. meddle' \in 0..MaxMeddle
  BY RunAssumption DEF Outside, ModuleTypes, RunTypes
<1>2. alone' \in BOOLEAN
  BY DEF Outside, ModuleTypes, Busy
<1> QED
  BY <1>1, <1>2 DEF Outside, ModuleTypes, RunTypes

\* What other clients do keeps the host sane.
LEMMA ClientShape ==
  ASSUME ModuleTypes, NEW u \in UUIDs, NEW startable,
         ClientDrives(u, startable) \/ ClientDefines(u)
  PROVE  \E d, n :
           /\ Outside(u, d, n) /\ n \in Names
           /\ SaneHost([host EXCEPT ![u] = d])
           /\ host[u] # None => host[u].name = n
           /\ host[u] = None => Named(n) = {} /\ (u = loc.it => n = Item.name)
           /\ d # None => d.name = n
<1>0. SaneHost(host)
  BY DEF ModuleTypes
<1>1. CASE ClientDrives(u, startable)
  <2> DEFINE d == host[u]
  <2>1. /\ Exists(u) /\ d # None /\ d \in Resource
        /\ d.persistent \/ d.active
    BY <1>0, <1>1, ExistsType DEF ClientDrives, Maybe
  <2>2. PICK e : Outside(u, e, d.name) /\ Replaces(e, d)
    <3>1. CASE ~d.active /\ startable /\ Outside(u, [d EXCEPT !.active = TRUE], d.name)
      <4>1. Replaces([d EXCEPT !.active = TRUE], d)
        BY <2>1 DEF Resource, Replaces, Maybe
      <4> QED
        BY <3>1, <4>1
    <3>2. CASE d.active /\ Outside(u, Stopped(d), d.name)
      BY <2>1, <3>2, StoppedReplaces
    <3>3. CASE d.persistent /\ Outside(u, [d EXCEPT !.autostart = ~d.autostart], d.name)
      <4>1. Replaces([d EXCEPT !.autostart = ~d.autostart], d)
        BY <2>1 DEF Resource, Replaces, Maybe
      <4> QED
        BY <3>3, <4>1
    <3>4. CASE Undefinable(d) /\ Outside(u, Undefined(d), d.name)
      BY <2>1, <3>4, UndefinedReplaces
    <3> QED
      BY <1>1, <3>1, <3>2, <3>3, <3>4 DEF ClientDrives
  <2>3. SaneHost([host EXCEPT ![u] = e])
    BY <1>0, <2>1, <2>2, ReplacesSane
  <2>4. d.name \in Names /\ (e # None => e.name = d.name)
    BY <2>1, <2>2 DEF Resource, Replaces
  <2> QED
    BY <2>1, <2>2, <2>3, <2>4
<1>2. CASE ClientDefines(u)
  <2> PICK n \in Names, cfg \in Cfgs :
        /\ u \in Free(n, None, cfg)
        /\ u = loc.it => n = Item.name
        /\ Outside(u, Defined(n, cfg), n)
    BY <1>2 DEF ClientDefines
  <2>1. host[u] = None /\ Named(n) = {} /\ SaneHost([host EXCEPT ![u] = Defined(n, cfg)])
    BY <1>0, DefineSane
  <2>2. Defined(n, cfg).name = n
    BY DEF Defined
  <2> QED
    BY <2>1, <2>2
<1> QED
  BY <1>1, <1>2

-----------------------------------------------------------------------------
(* The steps of Reconciler *)

LEMMA AskedSome ==
  ASSUME ModuleTypes, Item.name \in Names, Item.state \in States
  PROVE  [name |-> Item.name, state |-> Item.state, dry |-> check] # None
  BY DefineOnceAssumption DEF ModuleTypes, RunTypes

LEMMA QuietStutters ==
  ASSUME pc \in Working, NEW to \in Working, NEW new, Quiet(to, new)
  PROVE  UNCHANGED Abstract!vars
<1>1. UNCHANGED <<host, items, i, check, moved, alone, entries>> /\ pc' = to
  BY DEF Quiet, Continue, Observe
<1>2. Busy /\ Busy' /\ pc # "next" /\ pc' # "next" /\ Item' = Item
  BY <1>1 DEF Busy, Working, Item
<1>3. \A n \in Names : Level(n)' = Level(n)
  BY <1>1 DEF Level, Named
<1> QED
  BY <1>1, <1>2, <1>3 DEF Abstract!vars

LEMMA ChangingActs ==
  ASSUME ModuleTypes, pc \in Working, NEW to \in Working, NEW new,
         NEW u \in UUIDs, NEW d, SaneHost([host EXCEPT ![u] = d]),
         Item.name \in Names, Item.state \in States, ~check,
         host[u] # None => host[u].name = Item.name,
         host[u] = None => Named(Item.name) = {},
         d # None => d.name = Item.name,
         \/ LevelOf(d) = LevelOf(host[u])
         \/ <<LevelOf(host[u]), LevelOf(d)>> \in Abstract!Moves(Item.state),
         Changing(to, u, d, new)
  PROVE  Abstract!Act
<1>1. /\ host' = [host EXCEPT ![u] = d] /\ moved' = TRUE
      /\ UNCHANGED <<items, i, check, alone, entries>> /\ pc' = to
  BY DEF Changing, Continue, Mutate
<1>2. Busy /\ Busy' /\ pc # "next" /\ pc' # "next" /\ Item' = Item
  BY <1>1 DEF Busy, Working, Item
<1>3. SaneHost(host) /\ SaneHost(host')
  BY <1>1 DEF ModuleTypes
<1> PICK n \in Names : n = Item.name
  OBVIOUS
<1>4. /\ Level(n) = LevelOf(host[u])
      /\ Level(n)' = LevelOf(d)
      /\ \A m \in Names : m # n => Level(m)' = Level(m)
  <2>1. /\ host[u] # None => host[u].name = n
        /\ host[u] = None => Named(n) = {}
        /\ d # None => d.name = n
    OBVIOUS
  <2>2. host'[u] = d /\ \A v \in UUIDs : v # u => host'[v] = host[v]
    BY <1>1 DEF ModuleTypes, SaneHost
  <2> QED
    BY <1>3, <2>1, <2>2, LevelStep
<1> DEFINE asked == [name |-> Item.name, state |-> Item.state, dry |-> check]
<1>5. asked # None
  BY AskedSome
<1>6. LevelOf(d) \in Abstract!Levels
  BY DEF Abstract!Levels, LevelOf
<1>7. [m \in Names |-> Level(m)'] = [[m \in Names |-> Level(m)] EXCEPT ![n] = LevelOf(d)]
  BY <1>4
<1> QED
  BY <1>1, <1>2, <1>4, <1>5, <1>6, <1>7 DEF Abstract!Act

\* The end of an item, with an answer that its state allows.
LEMMA EndsAnswers ==
  ASSUME ModuleTypes, pc \in Working, NEW e \in Entry, Ends(e),
         Item.name \in Names, Item.state \in States,
         ~e.failed =>
           /\ e.changed => moved \/ check
           /\ ~e.changed => ~moved
           /\ alone /\ ~(e.changed /\ check) =>
                Level(Item.name) \in Abstract!Reached(Item.state)
  PROVE  Abstract!Answer
<1>1. /\ pc' = "next" /\ UNCHANGED <<host, items, i, check, moved, alone>>
  BY DEF Ends, EndItem, Observe
<1>2. entries'[i] = e
  BY EndsType
<1>3. Busy /\ ~Busy' /\ pc # "next" /\ Item' = Item
  BY <1>1 DEF Busy, Working, Item
<1> DEFINE asked == [name |-> Item.name, state |-> Item.state, dry |-> check]
<1>4. asked # None
  BY AskedSome
<1>5. \A n \in Names : Level(n)' = Level(n)
  BY <1>1 DEF Level, Named
<1>6. (IF e.failed THEN "failed" ELSE IF e.changed THEN "changed" ELSE "unchanged")
        = (IF entries'[i'].failed THEN "failed"
           ELSE IF entries'[i'].changed THEN "changed" ELSE "unchanged")
  BY <1>1, <1>2
<1>7. alone \in BOOLEAN /\ moved \in BOOLEAN
  BY DEF ModuleTypes
<1> QED
  BY <1>1, <1>2, <1>3, <1>4, <1>5, <1>6, <1>7 DEF Abstract!Answer, Abstract!There, Entry

\* Another client's step.
LEMMA OutsideOthers ==
  ASSUME ModuleTypes, NEW u \in UUIDs, NEW d, NEW n \in Names,
         Outside(u, d, n), SaneHost([host EXCEPT ![u] = d]),
         host[u] # None => host[u].name = n,
         host[u] = None => Named(n) = {},
         d # None => d.name = n,
         Busy => Item.name \in Names /\ Item.state \in States
  PROVE  Abstract!Others
<1>1. /\ host' = [host EXCEPT ![u] = d]
      /\ alone' = (alone /\ ~(Busy /\ n = Item.name))
      /\ UNCHANGED <<pc, items, i, check, moved, entries>>
  BY DEF Outside
<1>2. SaneHost(host) /\ SaneHost(host')
  BY <1>1 DEF ModuleTypes
<1>3. host'[u] = d /\ \A v \in UUIDs : v # u => host'[v] = host[v]
  BY <1>1, <1>2 DEF SaneHost
<1>4. /\ Level(n)' = LevelOf(d)
      /\ \A m \in Names : m # n => Level(m)' = Level(m)
  BY <1>2, <1>3, LevelStep
<1>5. [m \in Names |-> Level(m)'] = [[m \in Names |-> Level(m)] EXCEPT ![n] = LevelOf(d)]
  BY <1>4
<1>6. LevelOf(d) \in Abstract!Levels
  BY DEF Abstract!Levels, LevelOf
<1>7. Busy' = Busy /\ Item' = Item
  BY <1>1 DEF Busy, Item
<1> DEFINE asked == [name |-> Item.name, state |-> Item.state, dry |-> check]
<1>8. Busy => asked # None
  BY AskedSome
<1> QED
  BY <1>1, <1>4, <1>5, <1>6, <1>7, <1>8 DEF Abstract!Others

-----------------------------------------------------------------------------
Reporting == {"refreshActive", "refresh", "factName", "factActive", "factAutostart",
              "factPersistent"}
Removing == {"gone", "would", "absActive", "absDestroy", "absUndefine", "undefined"}
Settling ==
  {"build", "autostart", "setAutostart", "isActive", "create", "destroy"} \cup Reporting
Writing == {"absActive", "absDestroy", "absUndefine", "undefined", "build",
            "setAutostart", "create", "destroy", "refresh"}
Untouched == {"lookup", "gone", "would", "absActive", "absDestroy", "define"}

\* Which items and runs reach a call p.
Placed(p) ==
  /\ p \in {"lookup", "define"} \cup Removing \cup Settling
  /\ p \in Removing => Item.state = "absent"
  /\ p \in Settling \cup {"define"} => Item.state # "absent"
  /\ p \in Writing => ~check
  /\ p = "would" => check
  /\ p = "create" => Item.state = "active"
  /\ p = "destroy" => Item.state = "inactive"
  /\ p = "setAutostart" => Item.autostart # None

\* The handle in the locals l is to a resource of the item's name in host h, or to
\* none any more.
Held(l, h) ==
  l \in Locals /\ (l.it # None /\ h[l.it] # None => h[l.it].name = Item.name)

\* What the locals remember of whether the module has moved anything (m).
Recorded(p, l, m) ==
  /\ check => ~m
  /\ p \in Untouched => ~m /\ ~l.changed
  /\ p = "undefined" => m
  /\ p \in Settling /\ ~check => l.changed = m

\* What is established at p of the resource itself, if nobody else has touched it.
Met(p, l, h) ==
  alone =>
    /\ p \in {"gone", "undefined"} => NamedIn(h, Item.name) = {}
    /\ p = "absUndefine" /\ l.it # None /\ h[l.it] # None => ~h[l.it].active
    /\ p \in Reporting /\ l.it # None /\ h[l.it] # None /\ (check => ~l.changed) =>
         /\ Item.state = "active" => h[l.it].active
         /\ Item.state = "inactive" => ~h[l.it].active

Here(p, l, h, m) == Placed(p) /\ Held(l, h) /\ Recorded(p, l, m) /\ Met(p, l, h)


\* An item is in hand, of the kinds of values that matter to the steps.
Ready ==
  /\ pc \in Working /\ ModuleTypes /\ Here(pc, loc, host, moved)
  /\ Item.name \in Names /\ Item.state \in States
  /\ Item.autostart \in Maybe(BOOLEAN)

-----------------------------------------------------------------------------
(* The three shapes, with what each needs *)

MayChange(u, d) ==
  /\ u \in UUIDs /\ ~check
  /\ SaneHost([host EXCEPT ![u] = d])
  /\ host[u] # None => host[u].name = Item.name
  /\ host[u] = None => Named(Item.name) = {}
  /\ d # None => d.name = Item.name
  /\ \/ LevelOf(d) = LevelOf(host[u])
     \/ <<LevelOf(host[u]), LevelOf(d)>> \in Abstract!Moves(Item.state)

MayAnswer(e) ==
  /\ e \in Entry
  /\ ~e.failed =>
       /\ e.changed => moved \/ check
       /\ ~e.changed => ~moved
       /\ alone /\ ~(e.changed /\ check) =>
            Level(Item.name) \in Abstract!Reached(Item.state)

QuietStep == \E to, new : Quiet(to, new) /\ Here(to, new, host, moved)

ChangingStep ==
  \E to, new, u, d :
    /\ Changing(to, u, d, new)
    /\ MayChange(u, d)
    /\ Here(to, new, [host EXCEPT ![u] = d], TRUE)

EndingStep == \E e : Ends(e) /\ MayAnswer(e)

Stepped == QuietStep \/ ChangingStep \/ EndingStep

LEMMA PlacedWorking ==
  ASSUME NEW p, Placed(p)
  PROVE  p \in Working
  BY DEF Placed, Working, PCs, Removing, Settling, Reporting

LEMMA WorkingHere ==
  ASSUME Ready
  PROVE  /\ pc \in Working /\ Here(pc, loc, host, moved)
         /\ ModuleTypes /\ SaneHost(host) /\ loc \in Locals
         /\ Item.name \in Names /\ Item.state \in States
         /\ Item.autostart \in Maybe(BOOLEAN)
         /\ moved \in BOOLEAN /\ alone \in BOOLEAN /\ check \in BOOLEAN
         /\ loc.changed \in BOOLEAN
  BY DEF Ready, ModuleTypes, RunTypes, Locals

LEMMA RaisedEnds ==
  ASSUME Ends(Raised)
  PROVE  Stepped
<1>1. MayAnswer(Raised)
  BY DEF MayAnswer, Raised, Entry
<1> QED
  BY <1>1 DEF Stepped, EndingStep

-----------------------------------------------------------------------------
(* What follows from the shapes *)

LEMMA SteppedInv ==
  ASSUME Ready, Stepped
  PROVE  /\ ModuleTypes' /\ UNCHANGED <<items, i, check>>
         /\ \/ pc' = "next"
            \/ pc' \in Working /\ Here(pc, loc, host, moved)'
<1>0. pc \in Working /\ ModuleTypes
  BY WorkingHere
<1>1. CASE QuietStep
  <2> PICK to, new : Quiet(to, new) /\ Here(to, new, host, moved)
    BY <1>1 DEF QuietStep
  <2>1. /\ pc' = to /\ loc' = new
        /\ UNCHANGED <<host, alone, moved, items, i, check>>
    BY DEF Quiet, Continue, Observe
  <2>2. to \in Working /\ new \in Locals
    BY PlacedWorking DEF Here, Held
  <2>3. ModuleTypes'
    BY <1>0, <2>2, QuietType
  <2>4. Here(pc, loc, host, moved)'
    BY <2>1 DEF Here, Placed, Held, Recorded, Met, Item
  <2> QED
    BY <2>1, <2>2, <2>3, <2>4
<1>2. CASE ChangingStep
  <2> PICK to, new, u, d :
        /\ Changing(to, u, d, new) /\ MayChange(u, d)
        /\ Here(to, new, [host EXCEPT ![u] = d], TRUE)
    BY <1>2 DEF ChangingStep
  <2>1. /\ pc' = to /\ loc' = new /\ host' = [host EXCEPT ![u] = d] /\ moved' = TRUE
        /\ UNCHANGED <<alone, items, i, check>>
    BY DEF Changing, Continue, Mutate
  <2>2. to \in Working /\ new \in Locals
    BY PlacedWorking DEF Here, Held
  <2>3. ModuleTypes'
    BY <1>0, <2>2, ChangingType DEF MayChange
  <2>4. Here(pc, loc, host, moved)'
    BY <2>1 DEF Here, Placed, Held, Recorded, Met, Item
  <2> QED
    BY <2>1, <2>2, <2>3, <2>4
<1>3. CASE EndingStep
  <2> PICK e : Ends(e) /\ MayAnswer(e)
    BY <1>3 DEF EndingStep
  <2>1. ModuleTypes'
    BY <1>0, EndsType DEF MayAnswer
  <2>2. pc' = "next" /\ UNCHANGED <<items, i, check>>
    BY DEF Ends, EndItem
  <2> QED
    BY <2>1, <2>2
<1> QED
  BY <1>1, <1>2, <1>3 DEF Stepped

LEMMA SteppedMaps ==
  ASSUME Ready, Stepped
  PROVE  Abstract!Act \/ Abstract!Answer \/ UNCHANGED Abstract!vars
<1>0. /\ pc \in Working /\ ModuleTypes
      /\ Item.name \in Names /\ Item.state \in States
  BY WorkingHere
<1>1. CASE QuietStep
  BY <1>0, <1>1, PlacedWorking, QuietStutters DEF QuietStep, Here
<1>2. CASE ChangingStep
  <2> PICK to, new, u, d :
        /\ Changing(to, u, d, new) /\ MayChange(u, d)
        /\ Here(to, new, [host EXCEPT ![u] = d], TRUE)
    BY <1>2 DEF ChangingStep
  <2>1. to \in Working
    BY PlacedWorking DEF Here
  <2> QED
    BY <1>0, <2>1, ChangingActs DEF MayChange
<1>3. CASE EndingStep
  BY <1>0, <1>3, EndsAnswers DEF EndingStep, MayAnswer
<1> QED
  BY <1>1, <1>2, <1>3 DEF Stepped

LEMMA SteppedInert ==
  ASSUME Stepped, check
  PROVE  UNCHANGED host
  BY DEF Stepped, QuietStep, ChangingStep, EndingStep, MayChange, Quiet, Ends, Observe

-----------------------------------------------------------------------------
(* The shape of each action *)

LEMMA QuietStepped ==
  ASSUME NEW to, NEW new, Quiet(to, new), Here(to, new, host, moved)
  PROVE  Stepped
  BY DEF Stepped, QuietStep

LEMMA ChangingStepped ==
  ASSUME NEW to, NEW new, NEW u, NEW d, Changing(to, u, d, new), MayChange(u, d),
         Here(to, new, [host EXCEPT ![u] = d], TRUE)
  PROVE  Stepped
  BY DEF Stepped, ChangingStep

LEMMA ReturnStepped ==
  ASSUME Ready, NEW e, Return(e), MayAnswer(e)
  PROVE  Stepped
  BY WorkingHere, ReturnEnds DEF Stepped, EndingStep

LEMMA CallFailsStepped ==
  ASSUME Ready, NEW possible, CallFails(possible)
  PROVE  Stepped
  BY WorkingHere, CallFailsEnds, RaisedEnds

LEMMA ReadStepped ==
  ASSUME Ready, NEW to, NEW new, Read(to, new),
         Exists(loc.it) => Here(to, new, host, moved)
  PROVE  Stepped
  BY WorkingHere, ReadShape, RaisedEnds, QuietStepped

LEMMA CallStepped ==
  ASSUME Ready, NEW to, NEW possible, NEW d, NEW new,
         Call(to, possible, d, new),
         Exists(loc.it) /\ possible =>
           MayChange(loc.it, d) /\ Here(to, new, [host EXCEPT ![loc.it] = d], TRUE)
  PROVE  Stepped
  BY WorkingHere, CallShape, RaisedEnds, ChangingStepped

\* The resource behind the handle.
LEMMA HeldResource ==
  ASSUME Ready, Exists(loc.it)
  PROVE  /\ loc.it \in UUIDs /\ host[loc.it] # None /\ host[loc.it] \in Resource
         /\ host[loc.it].persistent \/ host[loc.it].active
         /\ host[loc.it].name = Item.name
         /\ NamedIn(host, Item.name) = {loc.it}
         /\ Level(Item.name) = LevelOf(host[loc.it])
<1>1. /\ SaneHost(host) /\ loc \in Locals /\ loc.it \in Maybe(UUIDs)
      /\ Held(loc, host)
  BY WorkingHere DEF Locals, Here
<1>2. /\ loc.it \in UUIDs /\ host[loc.it] # None /\ host[loc.it] \in Resource
      /\ host[loc.it].persistent \/ host[loc.it].active
  BY <1>1, ExistsType
<1>3. host[loc.it].name = Item.name
  BY <1>1, <1>2 DEF Held, Exists
<1>4. /\ NamedIn(host, host[loc.it].name) = {loc.it}
      /\ LevelIn(host, host[loc.it].name) = LevelOf(host[loc.it])
  BY <1>1, <1>2, LevelHeld
<1>5. Level(Item.name) = LevelIn(host, Item.name)
  BY LevelNow
<1> QED
  BY <1>2, <1>3, <1>4, <1>5

\* A change of the resource behind the handle.
LEMMA HeldMayChange ==
  ASSUME Ready, Exists(loc.it), ~check,
         NEW d, Replaces(d, host[loc.it]),
         \/ LevelOf(d) = LevelOf(host[loc.it])
         \/ <<LevelOf(host[loc.it]), LevelOf(d)>> \in Abstract!Moves(Item.state)
  PROVE  MayChange(loc.it, d)
<1>1. SaneHost([host EXCEPT ![loc.it] = d])
  BY HeldResource, ReplacesSane, WorkingHere
<1>2. d # None => d.name = Item.name
  BY HeldResource DEF Replaces
<1> QED
  BY <1>1, <1>2, HeldResource DEF MayChange

LEMMA LookupStepped ==
  ASSUME Ready, Lookup
  PROVE  Stepped
<1>0. /\ pc = "lookup" /\ Here(pc, loc, host, moved) /\ loc \in Locals
      /\ moved \in BOOLEAN /\ loc.changed \in BOOLEAN
  BY WorkingHere DEF Lookup
<1>1. ASSUME NEW it \in (IF Named(Item.name) = {} THEN {None} ELSE Named(Item.name)),
             Continue(AfterLookup(it)), Observe, loc' = [loc EXCEPT !.it = it]
      PROVE  Stepped
  <2> DEFINE new == [loc EXCEPT !.it = it]
  <2>1. /\ it # None => it \in UUIDs /\ host[it].name = Item.name
        /\ it = None => Named(Item.name) = {}
    BY DefineOnceAssumption DEF Named
  <2>2. new \in Locals /\ new.it = it /\ new.changed = loc.changed
    BY <1>0, <2>1 DEF Locals, Maybe
  <2> HIDE DEF new
  <2>3. Placed(AfterLookup(it))
    BY <1>0 DEF AfterLookup, Placed, Removing, Settling, Reporting, Writing
  <2>4. Held(new, host)
    BY <2>1, <2>2 DEF Held
  <2>5. Recorded(AfterLookup(it), new, moved)
    BY <1>0, <2>2 DEF AfterLookup, Here, Recorded, Untouched, Settling, Reporting
  <2>6. Met(AfterLookup(it), new, host)
    BY <2>1 DEF AfterLookup, Met, Reporting, Named, NamedIn
  <2>7. Quiet(AfterLookup(it), new)
    BY <1>1 DEF Quiet, new
  <2> QED
    BY <2>3, <2>4, <2>5, <2>6, <2>7, QuietStepped DEF Here
<1> QED
  BY <1>0, <1>1, CallFailsStepped DEF Lookup

LEMMA RemovalStepped ==
  ASSUME Ready,
         \/ AlreadyAbsent \/ WouldUndefine
         \/ AbsentIsActive \/ AbsentDestroy \/ AbsentUndefine \/ AbsentReturn
  PROVE  Stepped
<1> DEFINE d == host[loc.it]
<1>0. /\ pc \in Removing /\ Here(pc, loc, host, moved) /\ loc \in Locals
      /\ Item.state = "absent" /\ SaneHost(host) /\ alone \in BOOLEAN
  BY WorkingHere DEF AlreadyAbsent, WouldUndefine, AbsentIsActive, AbsentDestroy,
     AbsentUndefine, AbsentReturn, Removing, Here, Placed, ModuleTypes
<1>1. CASE AlreadyAbsent
  <2>1. MayAnswer(Ok(FALSE))
    BY <1>0, <1>1 DEF AlreadyAbsent, MayAnswer, Ok, Entry, Here, Recorded, Untouched,
       Met, Level, Named, NamedIn, Abstract!Reached
  <2> QED
    BY <1>1, <2>1, ReturnStepped DEF AlreadyAbsent
<1>2. CASE WouldUndefine
  <2>1. MayAnswer(Ok(TRUE))
    BY <1>0, <1>2 DEF WouldUndefine, MayAnswer, Ok, Entry, Here, Placed
  <2> QED
    BY <1>2, <2>1, ReturnStepped DEF WouldUndefine
<1>3. CASE AbsentIsActive
  <2>1. Here(IF Exists(loc.it) /\ d.active THEN "absDestroy" ELSE "absUndefine",
             loc, host, moved)
    BY <1>0, <1>3 DEF AbsentIsActive, Here, Placed, Recorded, Met, Removing, Settling,
       Reporting, Writing, Untouched, Exists
  <2> QED
    BY <1>3, <2>1, ReadStepped DEF AbsentIsActive
<1>4. CASE AbsentDestroy
  <2>1. ASSUME Exists(loc.it), d.active
        PROVE  /\ MayChange(loc.it, Stopped(d))
               /\ Here("absUndefine", loc, [host EXCEPT ![loc.it] = Stopped(d)], TRUE)
    <3>1. d \in Resource /\ loc.it \in UUIDs /\ (d.persistent \/ d.active)
      BY <2>1, <1>4, HeldResource DEF AbsentDestroy
    <3>2. <<LevelOf(d), LevelOf(Stopped(d))>> \in Abstract!Moves("absent")
      BY <2>1, <3>1, StoppedLevel, ResourceLevel DEF Abstract!Moves
    <3>3. MayChange(loc.it, Stopped(d))
      BY <1>0, <1>4, <2>1, <3>1, <3>2, StoppedReplaces, HeldMayChange
         DEF AbsentDestroy, Here, Placed, Writing
    <3>4. [host EXCEPT ![loc.it] = Stopped(d)][loc.it] = Stopped(d)
      BY <1>0, <3>1 DEF SaneHost
    <3>5. Here("absUndefine", loc, [host EXCEPT ![loc.it] = Stopped(d)], TRUE)
      BY <1>0, <1>4, <3>3, <3>4, StoppedLevel, <3>1 DEF AbsentDestroy, Here, Placed,
         Held, Recorded, Met, MayChange, Removing, Settling, Reporting, Writing, Untouched
    <3> QED
      BY <3>3, <3>5
  <2> QED
    BY <1>4, <2>1, CallStepped DEF AbsentDestroy
<1>5. CASE AbsentUndefine
  <2>1. ASSUME Exists(loc.it), Undefinable(d)
        PROVE  /\ MayChange(loc.it, Undefined(d))
               /\ Here("undefined", loc, [host EXCEPT ![loc.it] = Undefined(d)], TRUE)
    <3>1. d \in Resource /\ loc.it \in UUIDs /\ NamedIn(host, Item.name) = {loc.it}
      BY <2>1, <1>5, HeldResource DEF AbsentUndefine
    <3>2. <<LevelOf(d), LevelOf(Undefined(d))>> \in Abstract!Moves("absent")
      BY <2>1, <3>1, UndefinedLevel, ResourceLevel DEF Abstract!Moves, Undefinable
    <3>3. MayChange(loc.it, Undefined(d))
      BY <1>0, <1>5, <2>1, <3>1, <3>2, UndefinedReplaces, HeldMayChange
         DEF AbsentUndefine, Here, Placed, Writing
    <3> DEFINE g == [host EXCEPT ![loc.it] = Undefined(d)]
    <3>4. g[loc.it] = Undefined(d) /\ \A u \in UUIDs : u # loc.it => g[u] = host[u]
      BY <1>0, <3>1 DEF SaneHost
    <3>5. alone => NamedIn(g, Item.name) = {}
      <4>1. alone => Undefined(d) = None
        BY <1>0, <1>5, <2>1 DEF AbsentUndefine, Here, Met, Exists, Undefined
      <4> QED
        BY <3>1, <3>4, <4>1 DEF NamedIn
    <3> HIDE DEF g
    <3>6. Here("undefined", loc, g, TRUE)
      BY <1>0, <1>5, <3>3, <3>4, <3>5 DEF AbsentUndefine, Here, Placed,
         Held, Recorded, Met, MayChange, Removing, Settling, Reporting, Writing, Untouched
    <3> QED
      BY <3>3, <3>6 DEF g
  <2> QED
    BY <1>5, <2>1, CallStepped DEF AbsentUndefine
<1>6. CASE AbsentReturn
  <2>1. MayAnswer(Ok(TRUE))
    <3>1. alone => Level(Item.name) = "missing"
      BY <1>0, <1>6 DEF AbsentReturn, Here, Met, Level, Named, NamedIn
    <3> QED
      BY <1>0, <1>6, <3>1 DEF AbsentReturn, MayAnswer, Ok, Entry, Here, Recorded,
         Abstract!Reached
  <2> QED
    BY <1>6, <2>1, ReturnStepped DEF AbsentReturn
<1> QED
  BY <1>1, <1>2, <1>3, <1>4, <1>5, <1>6

\* A pool is built after it was defined, a network is not.
LEMMA DefineStepped ==
  ASSUME Ready, NEW to \in {"build", "autostart"}, WouldDefine \/ Define(to),
         Item.cfg \in Cfgs
  PROVE  Stepped
<1>0. /\ pc = "define" /\ Here(pc, loc, host, moved) /\ loc \in Locals
      /\ Item.name \in Names /\ Item.cfg \in Cfgs /\ Item.state # "absent"
      /\ SaneHost(host)
  BY WorkingHere DEF WouldDefine, Define, Here, Placed, Settling
<1>1. CASE WouldDefine
  <2>1. MayAnswer(Ok(TRUE))
    BY <1>1 DEF WouldDefine, MayAnswer, Ok, Entry
  <2> QED
    BY <1>0, <1>1, <2>1, ReturnStepped DEF WouldDefine
<1>2. CASE Define(to)
  <2>1. CASE Return(Raised)
    BY <1>0, <2>1, ReturnEnds, RaisedEnds, WorkingHere
  <2>2. CASE \E possible : CallFails(possible)
    BY <1>0, <2>2, CallFailsStepped
  <2>3. ASSUME NEW u \in Free(Item.name, Item.uuid, Item.cfg),
               Continue(to), Mutate(u, Defined(Item.name, Item.cfg)),
               loc' = [loc EXCEPT !.it = u, !.changed = TRUE]
        PROVE  Stepped
    <3> DEFINE d == Defined(Item.name, Item.cfg)
               new == [loc EXCEPT !.it = u, !.changed = TRUE]
               g == [host EXCEPT ![u] = d]
    <3>1. /\ u \in UUIDs /\ host[u] = None /\ Named(Item.name) = {}
          /\ SaneHost(g)
      BY <1>0, DefineSane
    <3>2. /\ d.name = Item.name /\ LevelOf(d) = "inactive"
          /\ LevelOf(host[u]) = "missing"
      BY <1>0, <3>1, DefinedLevel DEF Defined, LevelOf
    <3>3. <<LevelOf(host[u]), LevelOf(d)>> \in Abstract!Moves(Item.state)
      BY <1>0, <3>2 DEF Abstract!Moves
    <3>4. new \in Locals /\ new.it = u /\ new.changed = TRUE
      BY <1>0, <3>1 DEF Locals, Maybe
    <3>5. g[u] = d
      BY <1>0, <3>1 DEF SaneHost
    <3>6. Changing(to, u, d, new)
      BY <2>3 DEF Changing
    <3> HIDE DEF d, new, g
    <3>7. ~check
      BY <1>2 DEF Define
    <3>8. MayChange(u, d)
      BY <3>1, <3>2, <3>3, <3>7 DEF MayChange, g
    <3>9. Here(to, new, g, TRUE)
      BY <1>0, <3>2, <3>4, <3>5, <3>7 DEF Here, Placed, Held, Recorded, Met, Removing,
         Settling, Reporting, Writing, Untouched
    <3> QED
      BY <3>6, <3>8, <3>9, ChangingStepped DEF g
  <2> QED
    BY <1>2, <2>1, <2>2, <2>3 DEF Define
<1> QED
  BY <1>1, <1>2

LEMMA AutostartStepped ==
  ASSUME Ready, ReadAutostart \/ SetAutostart
  PROVE  Stepped
<1> DEFINE d == host[loc.it]
<1>0. /\ pc \in {"autostart", "setAutostart"} /\ Here(pc, loc, host, moved)
      /\ loc \in Locals /\ loc.changed \in BOOLEAN /\ moved \in BOOLEAN
      /\ check \in BOOLEAN /\ SaneHost(host)
      /\ Item.state # "absent" /\ Item.autostart \in Maybe(BOOLEAN)
  BY WorkingHere DEF ReadAutostart, SetAutostart, Here, Placed, Settling
<1>1. CASE ReadAutostart
  <2> DEFINE differs == Exists(loc.it) /\ d.autostart # Item.autostart
             to == IF differs /\ ~check THEN "setAutostart" ELSE "isActive"
             new == [loc EXCEPT !.changed = loc.changed \/ (differs /\ check)]
  <2>1. CASE Continue("isActive") /\ Observe /\ UNCHANGED loc
    <3>1. Here("isActive", loc, host, moved)
      BY <1>0, <1>1 DEF ReadAutostart, Here, Placed, Held, Recorded, Met, Removing,
         Settling, Reporting, Writing, Untouched
    <3>2. Quiet("isActive", loc)
      BY <2>1 DEF Quiet
    <3> QED
      BY <3>1, <3>2, QuietStepped
  <2>2. CASE Item.autostart # None /\ Read(to, new)
    <3>1. /\ new \in Locals /\ new.it = loc.it
          /\ ~check => new.changed = loc.changed
      BY <1>0 DEF Locals
    <3>2. to \in {"setAutostart", "isActive"} /\ (to = "setAutostart" => ~check)
      OBVIOUS
    <3> HIDE DEF to, new
    <3>3. Here(to, new, host, moved)
      BY <1>0, <1>1, <2>2, <3>1, <3>2 DEF ReadAutostart, Here, Placed, Held, Recorded,
         Met, Removing, Settling, Reporting, Writing, Untouched
    <3> QED
      BY <1>0, <2>2, <3>3, ReadStepped
  <2> QED
    BY <1>1, <2>1, <2>2 DEF ReadAutostart
<1>2. CASE SetAutostart
  <2> DEFINE flagged == [d EXCEPT !.autostart = Item.autostart]
             new == [loc EXCEPT !.changed = TRUE]
             g == [host EXCEPT ![loc.it] = flagged]
  <2>1. ASSUME Exists(loc.it), d.persistent
        PROVE  MayChange(loc.it, flagged) /\ Here("isActive", new, g, TRUE)
    <3>1. ~check /\ Item.autostart \in BOOLEAN
      BY <1>0, <1>2 DEF SetAutostart, Here, Placed, Writing, Maybe
    <3>2. d \in Resource /\ loc.it \in UUIDs /\ d.name = Item.name
      BY <1>0, <2>1, HeldResource
    <3>3. Replaces(flagged, d) /\ LevelOf(flagged) = LevelOf(d)
      BY <2>1, <3>1, <3>2, FlaggedLevel
    <3>4. g[loc.it] = flagged
      BY <1>0, <3>2 DEF SaneHost
    <3>5. new \in Locals /\ new.it = loc.it /\ new.changed = TRUE
      BY <1>0 DEF Locals
    <3> HIDE DEF flagged, new, g
    <3>6. MayChange(loc.it, flagged)
      BY <1>0, <2>1, <3>1, <3>3, HeldMayChange
    <3>7. Here("isActive", new, g, TRUE)
      BY <1>0, <1>2, <3>1, <3>4, <3>5, <3>6 DEF SetAutostart, Here, Placed, Held,
         Recorded, Met, MayChange, Removing, Settling, Reporting, Writing, Untouched
    <3> QED
      BY <3>6, <3>7
  <2> QED
    BY <1>0, <1>2, <2>1, CallStepped DEF SetAutostart
<1> QED
  BY <1>1, <1>2

LEMMA RunStateStepped ==
  ASSUME Ready, NEW to \in {"refreshActive", "factName"}, NEW startable,
         ReadActive(to) \/ Start(startable, to) \/ Stop(to)
  PROVE  Stepped
<1> DEFINE d == host[loc.it]
           new == [loc EXCEPT !.changed = TRUE]
<1>0. /\ pc \in {"isActive", "create", "destroy"} /\ Here(pc, loc, host, moved)
      /\ loc \in Locals /\ loc.changed \in BOOLEAN /\ moved \in BOOLEAN
      /\ check \in BOOLEAN /\ SaneHost(host)
      /\ Item.state # "absent" /\ Item.state \in States
  BY WorkingHere DEF ReadActive, Start, Stop, Here, Placed, Settling
<1>a. new \in Locals /\ new.it = loc.it /\ new.changed = TRUE
  BY <1>0 DEF Locals
<1>1. CASE ReadActive(to)
  <2> DEFINE op == IF Exists(loc.it) THEN Operation(d.active) ELSE "nothing"
             go == IF op = "nothing" \/ check THEN to ELSE op
             read == [loc EXCEPT !.changed = loc.changed \/ (op # "nothing" /\ check)]
  <2>1. ASSUME Exists(loc.it)
        PROVE  Here(go, read, host, moved)
    <3>1. /\ read \in Locals /\ read.it = loc.it
          /\ ~check => read.changed = loc.changed
          /\ check /\ op # "nothing" => read.changed
      BY <1>0 DEF Locals
    <3>2. /\ op \in {"nothing", "create", "destroy"}
          /\ op = "create" => Item.state = "active"
          /\ op = "destroy" => Item.state = "inactive"
          /\ op = "nothing" => /\ Item.state = "active" => d.active
                               /\ Item.state = "inactive" => ~d.active
      BY <2>1 DEF Operation
    <3>3. /\ go \in {to, "create", "destroy"}
          /\ go # to => ~check /\ op = go
          /\ go = to => check \/ op = "nothing"
      BY <3>2
    <3> HIDE DEF op, go, read
    <3>4. Placed(go)
      BY <1>0, <3>2, <3>3 DEF Placed, Removing, Settling, Reporting, Writing
    <3>5. Held(read, host)
      BY <1>0, <3>1 DEF Here, Held
    <3>6. Recorded(go, read, moved)
      BY <1>0, <3>1, <3>3 DEF Here, Recorded, Untouched, Settling, Reporting
    <3>7. Met(go, read, host)
      BY <3>1, <3>2, <3>3 DEF Met, Reporting
    <3> QED
      BY <3>4, <3>5, <3>6, <3>7 DEF Here
  <2> QED
    BY <1>0, <1>1, <2>1, ReadStepped DEF ReadActive
<1>2. CASE Start(startable, to)
  <2> DEFINE started == [d EXCEPT !.active = TRUE]
             g == [host EXCEPT ![loc.it] = started]
  <2>1. ASSUME Exists(loc.it), ~d.active
        PROVE  MayChange(loc.it, started) /\ Here(to, new, g, TRUE)
    <3>1. ~check /\ Item.state = "active"
      BY <1>0, <1>2 DEF Start, Here, Placed, Writing
    <3>2. d \in Resource /\ loc.it \in UUIDs /\ d.persistent
      BY <1>0, <2>1, HeldResource
    <3>3. Replaces(started, d) /\ LevelOf(started) = "active" /\ LevelOf(d) = "inactive"
      BY <2>1, <3>2, StartedLevel, ResourceLevel
    <3>4. <<LevelOf(d), LevelOf(started)>> \in Abstract!Moves(Item.state)
      BY <3>1, <3>3 DEF Abstract!Moves
    <3>5. g[loc.it] = started /\ started.active
      BY <1>0, <3>2 DEF SaneHost, Resource
    <3> HIDE DEF started, new, g
    <3>6. MayChange(loc.it, started)
      BY <1>0, <2>1, <3>1, <3>3, <3>4, HeldMayChange
    <3>7. Here(to, new, g, TRUE)
      BY <1>0, <1>a, <1>2, <3>1, <3>5, <3>6 DEF Start, Here, Placed, Held, Recorded,
         Met, MayChange, Removing, Settling, Reporting, Writing, Untouched
    <3> QED
      BY <3>6, <3>7
  <2> QED
    BY <1>0, <1>2, <2>1, CallStepped DEF Start
<1>3. CASE Stop(to)
  <2> DEFINE g == [host EXCEPT ![loc.it] = Stopped(d)]
  <2>1. ASSUME Exists(loc.it), d.active
        PROVE  MayChange(loc.it, Stopped(d)) /\ Here(to, new, g, TRUE)
    <3>1. ~check /\ Item.state = "inactive"
      BY <1>0, <1>3 DEF Stop, Here, Placed, Writing
    <3>2. d \in Resource /\ loc.it \in UUIDs
      BY <1>0, <2>1, HeldResource
    <3>3. <<LevelOf(d), LevelOf(Stopped(d))>> \in Abstract!Moves(Item.state)
      BY <2>1, <3>1, <3>2, StoppedLevel, ResourceLevel DEF Abstract!Moves
    <3>4. g[loc.it] = Stopped(d) /\ (Stopped(d) # None => ~Stopped(d).active)
      BY <1>0, <3>2, StoppedLevel DEF SaneHost
    <3> HIDE DEF new, g
    <3>5. MayChange(loc.it, Stopped(d))
      BY <1>0, <2>1, <3>1, <3>2, <3>3, StoppedReplaces, HeldMayChange
    <3>6. Here(to, new, g, TRUE)
      BY <1>0, <1>a, <1>3, <3>1, <3>4, <3>5 DEF Stop, Here, Placed, Held, Recorded,
         Met, MayChange, Removing, Settling, Reporting, Writing, Untouched
    <3> QED
      BY <3>5, <3>6
  <2> QED
    BY <1>0, <1>3, <2>1, CallStepped DEF Stop
<1> QED
  BY <1>1, <1>2, <1>3

LEMMA FactsStepped ==
  ASSUME Ready, FactActive \/ FactAutostart \/ FactPersistent
  PROVE  Stepped
<1>0. /\ pc \in Reporting /\ Here(pc, loc, host, moved)
      /\ loc.changed \in BOOLEAN /\ moved \in BOOLEAN
      /\ Item.state # "absent" /\ Item.state \in States
  BY WorkingHere DEF FactActive, FactAutostart, FactPersistent, Reporting,
     Settling, Here, Placed
<1>1. ASSUME NEW to \in Reporting \ {"refresh"} PROVE Here(to, loc, host, moved)
  BY <1>0, <1>1 DEF Here, Placed, Held, Recorded, Met, Removing, Settling, Reporting,
     Writing, Untouched
<1>2. CASE FactActive
  BY <1>1, <1>2, ReadStepped DEF FactActive, Reporting
<1>3. CASE FactAutostart
  BY <1>1, <1>3, ReadStepped DEF FactAutostart, Reporting
<1>4. CASE FactPersistent
  <2>1. ASSUME Exists(loc.it)
        PROVE  MayAnswer(Ok(loc.changed))
    <3>1. /\ host[loc.it] \in Resource
          /\ host[loc.it].persistent \/ host[loc.it].active
          /\ Level(Item.name) = LevelOf(host[loc.it])
      BY <1>0, <2>1, HeldResource DEF Reporting
    <3>2. alone /\ ~(loc.changed /\ check) =>
            /\ Item.state = "active" => host[loc.it].active
            /\ Item.state = "inactive" => ~host[loc.it].active
      BY <1>0, <2>1 DEF Here, Met, Exists
    <3>3. alone /\ ~(loc.changed /\ check) =>
            Level(Item.name) \in Abstract!Reached(Item.state)
      BY <1>0, <3>1, <3>2, ResourceLevel DEF Abstract!Reached, Abstract!Levels, States
    <3>4. /\ loc.changed => moved \/ check
          /\ ~loc.changed => ~moved
      BY <1>0 DEF Here, Recorded, Settling
    <3> QED
      BY <1>0, <3>3, <3>4 DEF MayAnswer, Ok, Entry
  <2>2. CASE Exists(loc.it) /\ Return(Ok(loc.changed))
    BY <1>0, <2>1, <2>2, ReturnStepped DEF Reporting
  <2>3. CASE CallFails(Exists(loc.it))
    BY <1>0, <2>3, CallFailsStepped DEF Reporting
  <2> QED
    BY <1>4, <2>2, <2>3 DEF FactPersistent
<1> QED
  BY <1>2, <1>3, <1>4

-----------------------------------------------------------------------------
(* Between two items, and other clients *)

LEMMA NoLocalsType == NoLocals \in Locals
  BY DEF NoLocals, Locals, Maybe

LEMMA NoEntriesType == <<>> \in Seq(Entry)
  OBVIOUS

\* A new item starts at its lookup with a clean slate.
LEMMA LookupHere ==
  ASSUME pc' = "lookup", loc' = NoLocals, moved' = FALSE, alone' = TRUE
  PROVE  Here(pc, loc, host, moved)'
<1>1. Placed(pc)'
  BY DEF Placed, Removing, Settling, Reporting, Writing
<1>2. Held(loc, host)'
  BY NoLocalsType DEF Held, NoLocals
<1>3. Recorded(pc, loc, moved)'
  BY DEF Recorded, NoLocals, Untouched, Settling, Reporting
<1>4. Met(pc, loc, host)'
  BY DEF Met, Reporting
<1> QED
  BY <1>1, <1>2, <1>3, <1>4 DEF Here

\* A step of the loop, which takes up an item of a list of the right type.
LEMMA ItemUpInv ==
  ASSUME ModuleTypes, NEW n \in 1..Len(items'), ItemUp(n), UNCHANGED <<host, bounds>>,
         check' \in BOOLEAN, entries' \in Seq(Entry), Len(entries') = n - 1
  PROVE  /\ ModuleTypes' /\ pc' \in Working /\ Here(pc, loc, host, moved)'
<1>1. /\ UNCHANGED <<host, faults, meddle>> /\ pc' = "lookup" /\ i' = n
      /\ loc' = NoLocals /\ alone' = TRUE /\ moved' = FALSE
  BY DEF ItemUp, bounds
<1>2. RunTypes'
  BY <1>1 DEF ModuleTypes, RunTypes
<1> QED
  BY <1>1, <1>2, LookupHere, NoLocalsType DEF ModuleTypes, Working, PCs

\* The module ends, or dies: the process is gone, the host stays.
LEMMA GoneTypes ==
  ASSUME ModuleTypes, pc' \in {"idle", "task"}, check' = FALSE, entries' = <<>>,
         loc' = NoLocals, alone' = TRUE, moved' = FALSE,
         UNCHANGED <<host, meddle>>, faults' \in 0..MaxFaults
  PROVE  ModuleTypes'
<1>1. RunTypes'
  BY NoEntriesType DEF ModuleTypes, RunTypes
<1> QED
  BY <1>1, NoLocalsType DEF ModuleTypes, PCs

\* Other clients may undo what was established, but then the item is not alone.
LEMMA ClientHere ==
  ASSUME Ready, NEW u \in UUIDs, NEW startable,
         ClientDrives(u, startable) \/ ClientDefines(u)
  PROVE  Here(pc, loc, host, moved)'
<1>0. /\ ModuleTypes /\ SaneHost(host) /\ pc \in Working /\ Busy
      /\ Here(pc, loc, host, moved) /\ loc \in Locals /\ loc.it \in Maybe(UUIDs)
  BY WorkingHere DEF Working, Busy, Locals
<1> PICK d, n :
      /\ Outside(u, d, n) /\ n \in Names
      /\ SaneHost([host EXCEPT ![u] = d])
      /\ host[u] # None => host[u].name = n
      /\ host[u] = None => Named(n) = {} /\ (u = loc.it => n = Item.name)
      /\ d # None => d.name = n
  BY <1>0, ClientShape
<1>1. /\ UNCHANGED <<pc, items, i, check, loc, moved>>
      /\ alone' = (alone /\ ~(Busy /\ n = Item.name))
      /\ Item' = Item
  BY DEF Outside, Item
<1>2. host'[u] = d /\ \A v \in UUIDs : v # u => host'[v] = host[v]
  BY <1>0 DEF Outside, SaneHost
<1>3. Placed(pc)' /\ Recorded(pc, loc, moved)'
  BY <1>0, <1>1 DEF Here, Placed, Recorded
<1>4. Held(loc, host)'
  BY <1>0, <1>1, <1>2 DEF Here, Held, Maybe
<1>5. Met(pc, loc, host)'
  <2>1. ASSUME alone' PROVE alone /\ n # Item.name
    BY <1>0, <1>1, <2>1
  <2>2. ASSUME n # Item.name PROVE NamedIn(host', Item.name) = NamedIn(host, Item.name)
    BY <1>2, <2>2 DEF NamedIn
  <2>3. ASSUME n # Item.name, loc.it # None, host'[loc.it] # None
        PROVE  host'[loc.it] = host[loc.it]
    BY <1>0, <1>1, <1>2, <1>4, <2>3 DEF Held, Maybe
  <2> QED
    BY <1>0, <1>1, <2>1, <2>2, <2>3 DEF Here, Met
<1> QED
  BY <1>3, <1>4, <1>5 DEF Here

-----------------------------------------------------------------------------
(* Reconciler's steps between two items *)

\* Taking up an item.
LEMMA TakesItem ==
  ASSUME ~Busy, pc' = "lookup", UNCHANGED host, alone' = TRUE, moved' = FALSE,
         (Item.name \in Names /\ Item.state \in States /\ check \in BOOLEAN)'
  PROVE  Abstract!Take
<1>1. /\ ~Busy /\ Busy' /\ pc' # "next"
  BY DEF Busy
<1>2. \A n \in Names : Level(n)' = Level(n)
  BY DEF Level, Named
<1> QED
  BY <1>1, <1>2 DEF Abstract!Take, Abstract!Idle, Abstract!States, States

\* The end of the module.
LEMMA LeavesItem ==
  ASSUME pc' \in {"idle", "task"}, UNCHANGED host
  PROVE  Abstract!Leave
<1>1. ~Busy' /\ pc' # "next"
  BY DEF Busy
<1>2. \A n \in Names : Level(n)' = Level(n)
  BY DEF Level, Named
<1> QED
  BY <1>1, <1>2 DEF Abstract!Leave

LEMMA IdleMaps ==
  ASSUME pc = "idle"
  PROVE  Abstract!Init
<1>1. [n \in Names |-> Level(n)] \in [Names -> Abstract!Levels]
  BY LevelType DEF Abstract!Levels
<1> QED
  BY <1>1 DEF Abstract!Init, Abstract!Idle, Busy

\* Another client's step, whether an item is in hand or not.
LEMMA ClientMaps ==
  ASSUME ModuleTypes, Busy => Item.name \in Names /\ Item.state \in States,
         NEW u \in UUIDs, NEW startable,
         ClientDrives(u, startable) \/ ClientDefines(u)
  PROVE  ModuleTypes' /\ Abstract!Others
  BY ClientShape, OutsideOthers, OutsideType
-----------------------------------------------------------------------------
(* Resources that are as asked *)

\* A resource that needs nothing done.
AsAsked(spec, d) ==
  /\ spec.autostart \in {None, d.autostart}
  /\ spec.state = "active" => d.active
  /\ spec.state = "inactive" => ~d.active

SpecMet(spec, h) ==
  IF spec.state = "absent" THEN NamedIn(h, spec.name) = {}
  ELSE \E u \in NamedIn(h, spec.name) : AsAsked(spec, h[u])

\* At p, with the locals l, the item in hand has found nothing to do; a refresh does
\* something where x says that one is asked for.
RestsAt(p, l, x) ==
  /\ p \in {"lookup", "gone", "autostart", "isActive"} \cup Reporting
  /\ l.changed => x
  /\ p \in {"refreshActive", "refresh"} => x

Rests(x) ==
  /\ UNCHANGED host
  /\ \/ pc' = "next" /\ \E e : EndItem(e) /\ (e.changed => x)
     \/ RestsAt(pc', loc', x) /\ UNCHANGED <<items, i, entries>>

\* At p the item in hand has done what it has come past, the autostart flag in
\* particular; the rest is in Met.
Flagged == {"isActive", "create", "destroy"} \cup Reporting
NearsAt(p, l, h) ==
  p \in Flagged /\ l.it # None /\ h[l.it] # None =>
    Item.autostart \in {None, h[l.it].autostart}

Nears ==
  \/ pc' = "next" /\ \E e : /\ EndItem(e)
                            /\ e.failed \/ (UNCHANGED host /\ SpecMet(Item, host))
  \/ pc' # "next" /\ NearsAt(pc', loc', host') /\ UNCHANGED <<alone, items, i, entries>>

\* What the module does to one resource leaves the others as they are.
LEMMA OthersMet ==
  ASSUME NEW u, NEW d, MayChange(u, d), host \in [UUIDs -> Maybe(Resource)],
         NEW spec, spec.name # Item.name, SpecMet(spec, host)
  PROVE  SpecMet(spec, [host EXCEPT ![u] = d])
<1> DEFINE new == [host EXCEPT ![u] = d]
<1>1. \A v \in UUIDs : v # u => new[v] = host[v]
  OBVIOUS
<1>2. new[u] = d /\ u \in UUIDs
  BY DEF MayChange
<1>3. NamedIn(new, spec.name) = NamedIn(host, spec.name) /\ u \notin NamedIn(host, spec.name)
  BY <1>1, <1>2 DEF NamedIn, MayChange
<1> HIDE DEF new
<1>4. \A v \in NamedIn(host, spec.name) : new[v] = host[v]
  BY <1>1, <1>3 DEF NamedIn
<1> QED
  BY <1>3, <1>4 DEF SpecMet, new

LEMMA SteppedOthers ==
  ASSUME Ready, Stepped, NEW spec, spec.name # Item.name, SpecMet(spec, host)
  PROVE  SpecMet(spec, host')
<1>1. CASE QuietStep \/ EndingStep
  BY <1>1 DEF QuietStep, EndingStep, Quiet, Ends, Observe
<1>2. CASE ChangingStep
  <2>1. PICK u, d : MayChange(u, d) /\ host' = [host EXCEPT ![u] = d]
    BY <1>2 DEF ChangingStep, Changing, Mutate
  <2> QED
    BY <2>1, OthersMet, WorkingHere DEF SaneHost
<1> QED
  BY <1>1, <1>2 DEF Stepped

LEMMA RestingEnds ==
  ASSUME NEW x, NEW e, EndItem(e), ~e.changed, Observe
  PROVE  Rests(x)
<1>1. pc' = "next" /\ UNCHANGED host
  BY DEF EndItem, Observe
<1> QED
  BY <1>1 DEF Rests

LEMMA RestingFails ==
  ASSUME NEW x, NEW possible, CallFails(possible)
  PROVE  Rests(x)
<1>1. EndItem(Raised) /\ ~Raised.changed /\ Observe
  BY DEF CallFails, EndsRaised, Raised
<1> QED
  BY <1>1, RestingEnds

LEMMA RestingGoes ==
  ASSUME NEW x, NEW to, Continue(to), Observe, RestsAt(to, loc', x)
  PROVE  Rests(x)
  BY DEF Continue, Observe, Rests

LEMMA RestingReads ==
  ASSUME NEW x, NEW to, NEW new, Read(to, new), Exists(loc.it) => RestsAt(to, new, x)
  PROVE  Rests(x)
<1>1. CASE Exists(loc.it) /\ Continue(to) /\ Observe /\ loc' = new
  BY <1>1, RestingGoes
<1> QED
  BY <1>1, RestingFails DEF Read

\* An item whose spec is met does nothing.
LEMMA RestingStep ==
  ASSUME Ready, NEW x, RestsAt(pc, loc, x), SpecMet(Item, host),
         NEW to \in {"factName", "refreshActive"}, to = "refreshActive" => x,
         \/ Lookup \/ AlreadyAbsent \/ ReadAutostart \/ ReadActive(to)
         \/ FactActive \/ FactAutostart \/ FactPersistent
  PROVE  Rests(x)
<1>0. /\ loc \in Locals /\ loc.changed \in BOOLEAN /\ Here(pc, loc, host, moved)
      /\ loc.changed => x
  BY WorkingHere DEF RestsAt
<1>1. CASE Lookup
  <2>1. ASSUME NEW it \in (IF Named(Item.name) = {} THEN {None} ELSE Named(Item.name)),
               Continue(AfterLookup(it)), Observe, loc' = [loc EXCEPT !.it = it]
        PROVE  Rests(x)
    <3>1. Named(Item.name) = NamedIn(host, Item.name)
      BY DEF Named, NamedIn
    <3>2. AfterLookup(it) \in {"gone", "autostart"}
      BY <2>1, <3>1, DefineOnceAssumption DEF AfterLookup, SpecMet, NamedIn
    <3>3. loc'.changed = loc.changed
      BY <1>0, <2>1 DEF Locals
    <3>4. RestsAt(AfterLookup(it), loc', x)
      BY <1>0, <3>2, <3>3 DEF RestsAt
    <3> QED
      BY <2>1, <3>4, RestingGoes
  <2> QED
    BY <1>1, <2>1, RestingFails DEF Lookup
<1>2. CASE AlreadyAbsent
  <2>1. EndItem(Ok(FALSE)) /\ ~Ok(FALSE).changed /\ Observe
    BY <1>2 DEF AlreadyAbsent, Return, Ok
  <2> QED
    BY <2>1, RestingEnds
<1>3. Exists(loc.it) /\ Item.state # "absent" => AsAsked(Item, host[loc.it])
  <2>1. Exists(loc.it) => NamedIn(host, Item.name) = {loc.it}
    BY HeldResource
  <2> QED
    BY <2>1 DEF SpecMet
<1>4. pc \in {"autostart", "isActive"} => Item.state # "absent"
  BY <1>0 DEF Here, Placed, Settling
<1>5. CASE ReadAutostart
  <2> DEFINE differs == Exists(loc.it) /\ host[loc.it].autostart # Item.autostart
  <2>1. CASE Item.autostart = None /\ Continue("isActive") /\ Observe /\ UNCHANGED loc
    <3>1. RestsAt("isActive", loc', x)
      BY <1>0, <2>1 DEF RestsAt
    <3> QED
      BY <2>1, <3>1, RestingGoes
  <2>2. CASE Item.autostart # None /\ ReadAutostart
    <3>1. ~differs
      BY <1>3, <1>4, <2>2 DEF ReadAutostart, AsAsked
    <3>2. PICK new : Read("isActive", new) /\ new = [loc EXCEPT !.changed = loc.changed \/ FALSE]
      BY <2>2, <3>1 DEF ReadAutostart
    <3>3. RestsAt("isActive", new, x)
      BY <1>0, <3>2 DEF RestsAt, Locals
    <3> QED
      BY <3>2, <3>3, RestingReads
  <2> QED
    BY <1>5, <2>1, <2>2 DEF ReadAutostart
<1>6. CASE ReadActive(to)
  <2> DEFINE op == IF Exists(loc.it) THEN Operation(host[loc.it].active) ELSE "nothing"
  <2>1. op = "nothing"
    BY <1>3, <1>4, <1>6 DEF ReadActive, AsAsked, Operation
  <2>2. PICK new : Read(to, new) /\ new = [loc EXCEPT !.changed = loc.changed \/ FALSE]
    BY <1>6, <2>1 DEF ReadActive
  <2>3. RestsAt(to, new, x)
    BY <1>0, <2>2 DEF RestsAt, Locals, Reporting
  <2> QED
    BY <2>2, <2>3, RestingReads
<1>7. CASE FactActive \/ FactAutostart
  <2>1. PICK p \in {"factAutostart", "factPersistent"} : Read(p, loc)
    BY <1>7 DEF FactActive, FactAutostart
  <2>2. RestsAt(p, loc, x)
    BY <1>0, <2>1 DEF RestsAt, Reporting
  <2> QED
    BY <2>1, <2>2, RestingReads
<1>8. CASE FactPersistent
  <2>1. CASE Return(Ok(loc.changed))
    <3>1. /\ EndItem(Ok(loc.changed)) /\ Ok(loc.changed).changed = loc.changed
          /\ Observe /\ pc' = "next"
      BY <2>1 DEF Return, Ok, EndItem
    <3> QED
      BY <1>0, <3>1 DEF Rests, Observe
  <2> QED
    BY <1>8, <2>1, RestingFails DEF FactPersistent
<1> QED
  BY <1>1, <1>2, <1>5, <1>6, <1>7, <1>8

LEMMA NearingFails ==
  ASSUME NEW e, EndItem(e), e.failed
  PROVE  Nears
  BY DEF EndItem, Nears

LEMMA NearingCallFails ==
  ASSUME NEW possible, CallFails(possible)
  PROVE  Nears
<1>1. EndItem(Raised) /\ Raised.failed
  BY DEF CallFails, EndsRaised, Raised
<1> QED
  BY <1>1, NearingFails

LEMMA NearingReturns ==
  ASSUME NEW e, Return(e), e.failed \/ SpecMet(Item, host)
  PROVE  Nears
  BY DEF Return, Observe, EndItem, Nears

LEMMA NearingGoes ==
  ASSUME NEW to, to # "next", Continue(to), UNCHANGED alone, NearsAt(to, loc', host')
  PROVE  Nears
  BY DEF Continue, Nears

LEMMA NearingReads ==
  ASSUME NEW to, to # "next", NEW new, Read(to, new),
         Exists(loc.it) => NearsAt(to, new, host)
  PROVE  Nears
<1>1. CASE Exists(loc.it) /\ Continue(to) /\ Observe /\ loc' = new
  <2>1. UNCHANGED <<alone, host>>
    BY <1>1 DEF Observe
  <2> QED
    BY <1>1, <2>1, NearingGoes
<1> QED
  BY <1>1, NearingCallFails DEF Read

LEMMA NearingCalls ==
  ASSUME Ready, NEW to, to # "next", NEW possible, NEW d, NEW new,
         Call(to, possible, d, new),
         Exists(loc.it) => /\ new.it = loc.it
                           /\ to \in Flagged /\ d # None => Item.autostart \in {None, d.autostart}
  PROVE  Nears
<1>1. CASE Exists(loc.it) /\ possible /\ Continue(to) /\ Mutate(loc.it, d) /\ loc' = new
  <2>1. loc.it \in UUIDs /\ host \in [UUIDs -> Maybe(Resource)] /\ loc'.it = loc.it
    BY <1>1, HeldResource, WorkingHere DEF SaneHost
  <2>2. host'[loc.it] = d /\ UNCHANGED alone
    BY <1>1, <2>1 DEF Mutate
  <2>3. NearsAt(to, loc', host')
    BY <1>1, <2>1, <2>2 DEF NearsAt
  <2> QED
    BY <1>1, <2>2, <2>3, NearingGoes
<1> QED
  BY <1>1, NearingCallFails DEF Call

\* An item that nobody disturbs reaches its spec or fails.
LEMMA NearingStep ==
  ASSUME Ready, ~check, alone, NearsAt(pc, loc, host),
         NEW to \in {"factName", "refreshActive"}, NEW first \in {"build", "autostart"},
         NEW startable,
         \/ Lookup \/ AlreadyAbsent \/ WouldUndefine
         \/ AbsentIsActive \/ AbsentDestroy \/ AbsentUndefine \/ AbsentReturn
         \/ WouldDefine \/ Define(first) \/ ReadAutostart \/ SetAutostart
         \/ ReadActive(to) \/ Start(startable, to) \/ Stop(to)
         \/ FactActive \/ FactAutostart \/ FactPersistent
  PROVE  Nears
<1>0. /\ loc \in Locals /\ Here(pc, loc, host, moved)
  BY WorkingHere
<1>1. ASSUME NEW p, p \notin Flagged PROVE \A l, h : NearsAt(p, l, h)
  BY <1>1 DEF NearsAt
<1>2. \A x : [loc EXCEPT !.changed = x].it = loc.it
  BY <1>0 DEF Locals
<1>3. pc \in Flagged /\ Exists(loc.it) => Item.autostart \in {None, host[loc.it].autostart}
  BY DEF NearsAt, Exists
<1>4. CASE Lookup
  <2>1. \A it : AfterLookup(it) \notin Flagged \cup {"next"}
    BY DEF AfterLookup, Flagged, Reporting
  <2>2. ASSUME NEW p, p \notin Flagged \cup {"next"}, Continue(p), Observe PROVE Nears
    BY <1>1, <2>2, NearingGoes DEF Observe
  <2> QED
    BY <1>4, <2>1, <2>2, NearingCallFails DEF Lookup
<1>5. CASE AlreadyAbsent \/ AbsentReturn
  <2>1. pc \in {"gone", "undefined"} /\ Item.state = "absent"
    BY <1>0, <1>5 DEF AlreadyAbsent, AbsentReturn, Here, Placed, Removing
  <2>2. SpecMet(Item, host)
    BY <1>0, <2>1 DEF Here, Met, SpecMet
  <2> QED
    BY <1>5, <2>2, NearingReturns DEF AlreadyAbsent, AbsentReturn
<1>6. CASE WouldUndefine \/ WouldDefine
  BY <1>0, <1>6 DEF WouldUndefine, WouldDefine, Here, Placed
<1>7. CASE AbsentIsActive
  <2>1. PICK p \in {"absDestroy", "absUndefine"} : Read(p, loc)
    BY <1>7 DEF AbsentIsActive
  <2>2. p \notin Flagged /\ p # "next"
    BY DEF Flagged, Reporting
  <2> QED
    BY <1>1, <2>1, <2>2, NearingReads
<1>8. CASE AbsentDestroy \/ AbsentUndefine
  <2>1. PICK p, possible, d : p \in {"absUndefine", "undefined"} /\ Call(p, possible, d, loc)
    BY <1>8 DEF AbsentDestroy, AbsentUndefine
  <2>2. p \notin Flagged /\ p # "next"
    BY <2>1 DEF Flagged, Reporting
  <2> QED
    BY <2>1, <2>2, NearingCalls
<1>9. CASE Define(first)
  <2>1. Return(Raised) => Nears
    BY NearingReturns DEF Raised
  <2>2. first \notin Flagged /\ first # "next"
    BY DEF Flagged, Reporting
  <2>3. ASSUME NEW u, NEW d, Continue(first), Mutate(u, d) PROVE Nears
    BY <1>1, <2>2, <2>3, NearingGoes DEF Mutate
  <2> QED
    BY <1>9, <2>1, <2>3, NearingCallFails DEF Define
<1>10. CASE ReadAutostart
  <2>1. CASE Item.autostart = None /\ Continue("isActive") /\ Observe /\ UNCHANGED loc
    <3>1. NearsAt("isActive", loc', host') /\ UNCHANGED alone
      BY <2>1 DEF NearsAt, Observe
    <3> QED
      BY <2>1, <3>1, NearingGoes
  <2>2. CASE Item.autostart # None /\ ReadAutostart
    <3> DEFINE differs == Exists(loc.it) /\ host[loc.it].autostart # Item.autostart
    <3>1. PICK p, x : /\ Read(p, [loc EXCEPT !.changed = x])
                      /\ p = IF differs THEN "setAutostart" ELSE "isActive"
      BY <2>2 DEF ReadAutostart
    <3>2. NearsAt(p, [loc EXCEPT !.changed = x], host)
      BY <1>2, <3>1 DEF NearsAt, Exists, Flagged, Reporting
    <3> QED
      BY <3>1, <3>2, NearingReads
  <2> QED
    BY <1>10, <2>1, <2>2 DEF ReadAutostart
<1>11. CASE SetAutostart
  <2>1. Exists(loc.it) =>
          [host[loc.it] EXCEPT !.autostart = Item.autostart].autostart = Item.autostart
    BY HeldResource DEF Resource
  <2> QED
    BY <1>2, <1>11, <2>1, NearingCalls DEF SetAutostart
<1>12. CASE ReadActive(to)
  <2>1. PICK p, x : p \in Flagged /\ p # "next" /\ Read(p, [loc EXCEPT !.changed = x])
    BY <1>12 DEF ReadActive, Operation, Flagged, Reporting
  <2>2. pc \in Flagged
    BY <1>12 DEF ReadActive, Flagged
  <2>3. Exists(loc.it) => NearsAt(p, [loc EXCEPT !.changed = x], host)
    BY <1>2, <1>3, <2>2 DEF NearsAt, Exists
  <2> QED
    BY <2>1, <2>3, NearingReads
<1>13. CASE Start(startable, to) \/ Stop(to)
  <2>1. Exists(loc.it) =>
          /\ [host[loc.it] EXCEPT !.active = TRUE].autostart = host[loc.it].autostart
          /\ Stopped(host[loc.it]) # None => Stopped(host[loc.it]).autostart = host[loc.it].autostart
    BY HeldResource DEF Resource, Stopped
  <2>2. to # "next" /\ pc \in Flagged
    BY <1>13 DEF Start, Stop, Flagged
  <2> QED
    BY <1>2, <1>3, <1>13, <2>1, <2>2, NearingCalls DEF Start, Stop
<1>14. CASE FactActive \/ FactAutostart
  <2>1. PICK p \in {"factAutostart", "factPersistent"} : Read(p, loc)
    BY <1>14 DEF FactActive, FactAutostart
  <2>2. pc \in Flagged
    BY <1>14 DEF FactActive, FactAutostart, Flagged, Reporting
  <2>3. Exists(loc.it) => NearsAt(p, loc, host)
    BY <1>3, <2>2 DEF NearsAt, Exists
  <2> QED
    BY <2>1, <2>3, NearingReads
<1>15. CASE FactPersistent
  <2>1. pc = "factPersistent" /\ pc \in Reporting /\ pc \in Flagged
    BY <1>15 DEF FactPersistent, Reporting, Flagged
  <2>2. CASE Exists(loc.it) /\ Return(Ok(loc.changed))
    <3>1. NamedIn(host, Item.name) = {loc.it} /\ host[loc.it] # None
      BY <2>2, HeldResource
    <3>2. Item.state # "absent"
      BY <1>0, <2>1 DEF Here, Placed, Settling
    <3>3. AsAsked(Item, host[loc.it])
      BY <1>0, <1>3, <2>1, <2>2, <3>1 DEF Here, Met, AsAsked, Exists
    <3>4. SpecMet(Item, host)
      BY <3>1, <3>2, <3>3 DEF SpecMet
    <3> QED
      BY <2>2, <3>4, NearingReturns
  <2> QED
    BY <1>15, <2>1, <2>2, NearingCallFails DEF FactPersistent
<1> QED
  BY <1>4, <1>5, <1>6, <1>7, <1>8, <1>9, <1>10, <1>11, <1>12, <1>13, <1>14, <1>15

\* The entry that an item's end adds.
LEMMA EntriesGrow ==
  ASSUME ModuleTypes, pc \in Working, Len(items) \in Nat, NEW e, EndItem(e)
  PROVE  /\ i \in 1..Len(items) /\ Len(entries) = i - 1 /\ Len(entries') = i
         /\ i' = i /\ UNCHANGED items /\ pc' = "next"
         /\ entries'[i] = e
         /\ \A j \in 1..(i - 1) : entries'[j] = entries[j]
<1>1. i \in 1..Len(items) /\ Len(entries) = i - 1 /\ entries \in Seq(Entry)
  BY DEF ModuleTypes, RunTypes, Working
<1> QED
  BY <1>1 DEF EndItem
=============================================================================
