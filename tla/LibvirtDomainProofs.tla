------------------------ MODULE LibvirtDomainProofs ------------------------
(***************************************************************************)
(* Proofs about LibvirtDomain for every value of its constants: any number *)
(* of domains and items, any bounds on failures and on other clients.      *)
(*                                                                         *)
(* First what any run keeps to: its types, a dry run's silence, domains    *)
(* nobody asked for.  Then what an item achieves and reports when nobody   *)
(* else is at its domain: MACs survive a redefinition, the domain ends up  *)
(* as asked, "changed" is exact and the facts are the domain's.            *)
(* Everything the item's locals say is about the domain of the item's      *)
(* name, so that invariant is stated over that part of the host, own.      *)
(* Last, two runs over one host: the same list run again changes nothing,  *)
(* and a dry run foretells the real run after it.                          *)
(***************************************************************************)
EXTENDS LibvirtDomain, TLAPS

Busy == PCs \ {"idle", "next"}

\* While an item is under way it is a spec of the playbook.
LEMMA ItemType ==
  ASSUME TypeOK, pc # "idle"
  PROVE  /\ Item \in DomainSpec
         /\ items \in Playbooks /\ items \in Seq(DomainSpec)
         /\ i \in 1..Len(items)
<1>1. items \in Playbooks
  BY DEF TypeOK
<1>2. items \in Seq(DomainSpec)
  BY <1>1, PlaybooksAssumption
<1>3. i \in 1..Len(items)
  BY DEF TypeOK
<1> QED
  BY <1>1, <1>2, <1>3 DEF Item

\* Control stays within the item.
LEMMA ContinueType ==
  ASSUME TypeOK, pc \in Busy,
         NEW to \in Busy, Continue(to),
         SaneHost(host'), loc' \in Locals, touched' \in BOOLEAN,
         UNCHANGED <<calm, disturbed, settled, forecast>>
  PROVE  TypeOK'
  BY DEF TypeOK, Continue, task, bounds, Busy

\* An item ends.
LEMMA EndItemType ==
  ASSUME TypeOK, pc \in Busy,
         NEW e \in Entry, EndItem(e),
         SaneHost(host'), loc' \in Locals, touched' \in BOOLEAN,
         faults' \in 0..MaxFaults, UNCHANGED meddle,
         UNCHANGED <<calm, disturbed, settled, forecast>>
  PROVE  TypeOK'
<1>1. /\ pc' = "next" /\ entries' = Append(entries, e)
      /\ UNCHANGED <<items, check, i>>
  BY DEF EndItem, task
<1>2. i \in 1..Len(items) /\ Len(entries) = i - 1 /\ items \in Playbooks
  BY DEF TypeOK, Busy
<1>3. entries' \in Seq(Entry) /\ Len(entries') = i
  BY <1>1, <1>2 DEF TypeOK
<1> QED
  BY <1>1, <1>2, <1>3 DEF TypeOK, PCs

LEMMA RaisedType == Raised \in Entry
  BY DEF Raised, Entry, Maybe

\* A call that raises ends the item and leaves the host alone.
LEMMA CallFailsType ==
  ASSUME TypeOK, pc \in Busy, NEW possible, CallFails(possible)
  PROVE  TypeOK'
<1>1. /\ EndItem(Raised)
      /\ UNCHANGED <<host, loc, meddle, calm, disturbed, touched, settled, forecast>>
  BY DEF CallFails, Observe
<1>2. faults' \in 0..MaxFaults
  BY BoundsAssumption DEF CallFails, TypeOK
<1>3. SaneHost(host') /\ loc' \in Locals /\ touched' \in BOOLEAN
  BY <1>1 DEF TypeOK
<1> QED
  BY <1>1, <1>2, <1>3, RaisedType, EndItemType

LEMMA RaiseType ==
  ASSUME TypeOK, pc \in Busy, Raise
  PROVE  TypeOK'
<1>1. /\ EndItem(Raised)
      /\ UNCHANGED <<host, loc, faults, meddle, calm, disturbed, touched, settled,
                     forecast>>
  BY DEF Raise, Observe, bounds
<1>2. /\ SaneHost(host') /\ loc' \in Locals /\ touched' \in BOOLEAN
      /\ faults' \in 0..MaxFaults
  BY <1>1 DEF TypeOK
<1> QED
  BY <1>1, <1>2, RaisedType, EndItemType

\* Replacing a domain by one of the same name keeps the domain list sane, as
\* long as a transient domain is active.
LEMMA ReplaceSane ==
  ASSUME SaneHost(host), NEW u \in UUIDs, NEW d \in Maybe(Domain),
         host' = [host EXCEPT ![u] = d],
         d # None => /\ \A v \in UUIDs \ {u} : host[v] # None => host[v].name # d.name
                     /\ ~d.persistent => d.run # "shutoff"
  PROVE  SaneHost(host')
  BY DEF SaneHost

-----------------------------------------------------------------------------
(* What libvirt's answers and effects are made of *)

LEMMA ExistsType ==
  ASSUME TypeOK, NEW u \in Maybe(UUIDs), Exists(u)
  PROVE  /\ u \in UUIDs
         /\ host[u] \in Domain
         /\ ~host[u].persistent => host[u].run # "shutoff"
  BY DEF TypeOK, SaneHost, Exists, Maybe

\* d may take the place of old in a sane domain list.
Replaces(d, old) ==
  /\ d \in Maybe(Domain)
  /\ d # None => d.name = old.name /\ (~d.persistent => d.run # "shutoff")

LEMMA StoppedReplaces ==
  ASSUME NEW d \in Domain
  PROVE  Replaces(Stopped(d), d)
  BY NoneAssumption DEF Domain, Stopped, Replaces, Maybe, RunStates

LEMMA UndefinedReplaces ==
  ASSUME NEW d \in Domain
  PROVE  Replaces(Undefined(d), d)
  BY NoneAssumption DEF Domain, Undefined, Replaces, Maybe, RunStates

LEMMA EffectReplaces ==
  ASSUME NEW d \in Domain, ~d.persistent => d.run # "shutoff",
         NEW op, Accepts(op, d)
  PROVE  Replaces(Effect(op, d), d)
<1>1. CASE op = "create"
  BY <1>1 DEF Effect, Domain, Replaces, Maybe, RunStates
<1>2. CASE op = "resume"
  BY <1>2 DEF Effect, Domain, Replaces, Maybe, RunStates
<1>3. CASE op = "suspend"
  BY <1>3 DEF Effect, Domain, Replaces, Maybe, RunStates
<1>4. CASE op = "shutdown"
  BY <1>4 DEF Effect, Domain, Replaces, Maybe, RunStates
<1>5. CASE op = "destroy"
  BY <1>5, StoppedReplaces DEF Effect
<1> QED
  BY <1>1, <1>2, <1>3, <1>4, <1>5 DEF Accepts

\* A domain of the list may be replaced by what Replaces allows.
LEMMA ReplacesSane ==
  ASSUME SaneHost(host), NEW u \in UUIDs, host[u] # None, NEW d,
         Replaces(d, host[u]), host' = [host EXCEPT ![u] = d]
  PROVE  SaneHost(host')
<1>1. d # None => \A v \in UUIDs \ {u} : host[v] # None => host[v].name # d.name
  BY DEF SaneHost, Replaces
<1> QED
  BY <1>1, ReplaceSane DEF Replaces

LEMMA DefinedAsType ==
  ASSUME SaneHost(host), NEW u \in UUIDs, NEW n \in Names, NEW cfg \in Cfgs,
         NEW macs \in Seq(Macs)
  PROVE  /\ DefinedAs(u, n, cfg, macs) \in Domain
         /\ DefinedAs(u, n, cfg, macs).persistent
         /\ DefinedAs(u, n, cfg, macs).name = IF host[u] = None THEN n ELSE host[u].name
<1>1. CASE host[u] = None
  BY <1>1 DEF DefinedAs, Domain, RunStates
<1>2. CASE host[u] # None
  <2>1. host[u] \in Domain
    BY <1>2 DEF SaneHost, Maybe
  <2> QED
    BY <1>2, <2>1 DEF DefinedAs, Domain
<1> QED
  BY <1>1, <1>2

\* A definition that libvirt accepts keeps the list sane.
LEMMA DefineSane ==
  ASSUME SaneHost(host), NEW n \in Names, NEW uuid, NEW u \in DefineTargets(n, uuid),
         NEW cfg \in Cfgs, NEW macs \in Seq(Macs),
         host' = [host EXCEPT ![u] = DefinedAs(u, n, cfg, macs)]
  PROVE  SaneHost(host')
<1>1. /\ u \in UUIDs
      /\ host[u] # None => host[u].name = n
      /\ \A v \in UUIDs : host[v] # None /\ host[v].name = n => v = u
  BY DEF DefineTargets, Named
<1> DEFINE d == DefinedAs(u, n, cfg, macs)
<1>2. d \in Domain /\ d.persistent /\ d.name = n
  BY <1>1, DefinedAsType
<1>3. host' = [host EXCEPT ![u] = d]
  OBVIOUS
<1> HIDE DEF d
<1>4. d \in Maybe(Domain)
  BY <1>2 DEF Maybe
<1>5. \A v \in UUIDs \ {u} : host[v] # None => host[v].name # d.name
  BY <1>1, <1>2
<1> QED
  BY <1>1, <1>2, <1>3, <1>4, <1>5, ReplaceSane

-----------------------------------------------------------------------------
(* The shapes of the module's calls *)

LEMMA ReadType ==
  ASSUME TypeOK, pc \in Busy,
         NEW to \in Busy, NEW u, NEW new, Exists(u) => new \in Locals,
         Read(to, u, new)
  PROVE  TypeOK'
<1>1. CASE Exists(u) /\ Continue(to) /\ Observe /\ loc' = new
  <2>1. UNCHANGED <<host, calm, disturbed, touched, settled, forecast>>
    BY <1>1 DEF Observe
  <2>2. SaneHost(host') /\ loc' \in Locals /\ touched' \in BOOLEAN
    BY <1>1, <2>1 DEF TypeOK
  <2> QED
    BY <1>1, <2>1, <2>2, ContinueType
<1>2. CASE CallFails(Exists(u))
  BY <1>2, CallFailsType
<1> QED
  BY <1>1, <1>2 DEF Read

LEMMA CallType ==
  ASSUME TypeOK, pc \in Busy,
         NEW to \in Busy, NEW u, NEW possible, NEW d, NEW new,
         possible => /\ u \in UUIDs /\ host[u] # None
                     /\ Replaces(d, host[u])
                     /\ new \in Locals,
         Call(to, u, possible, d, new)
  PROVE  TypeOK'
<1>1. CASE possible /\ Continue(to) /\ Mutate(u, d) /\ loc' = new
  <2>1. /\ host' = [host EXCEPT ![u] = d] /\ touched' \in BOOLEAN
        /\ UNCHANGED <<calm, disturbed, settled, forecast>>
    BY <1>1 DEF Mutate, TypeOK
  <2>2. SaneHost(host')
    BY <1>1, <2>1, ReplacesSane DEF TypeOK
  <2> QED
    BY <1>1, <2>1, <2>2, ContinueType
<1>2. CASE CallFails(possible)
  BY <1>2, CallFailsType
<1> QED
  BY <1>1, <1>2 DEF Call

-----------------------------------------------------------------------------
(* Types *)

LEMMA AfterTypes ==
  /\ AfterAutostart \in Busy
  /\ \A e : AfterLookup(e) \in Busy
  BY DEF AfterAutostart, AfterLookup, Busy, PCs

LEMMA OkType ==
  ASSUME NEW c \in BOOLEAN, NEW f \in Maybe(Facts)
  PROVE  Ok(c, f) \in Entry
  BY DEF Ok, Entry

LEMMA XmlOfType ==
  ASSUME TypeOK, NEW u \in Maybe(UUIDs), Exists(u)
  PROVE  XmlOf(u) \in Xml
  BY ExistsType DEF XmlOf, Xml, Domain

\* An item that ends without a call, or after a read, leaves the host alone.
LEMMA QuietEndType ==
  ASSUME TypeOK, pc \in Busy, NEW e \in Entry,
         EndItem(e), Observe, UNCHANGED <<loc, bounds>>
  PROVE  TypeOK'
<1>1. /\ SaneHost(host') /\ loc' \in Locals /\ touched' \in BOOLEAN
      /\ faults' \in 0..MaxFaults /\ UNCHANGED meddle
      /\ UNCHANGED <<calm, disturbed, settled, forecast>>
  BY DEF TypeOK, Observe, bounds
<1> QED
  BY <1>1, EndItemType

\* Control moves on without a call.
LEMMA QuietContinueType ==
  ASSUME TypeOK, pc \in Busy, NEW to \in Busy,
         Continue(to), Observe, loc' \in Locals
  PROVE  TypeOK'
<1>1. /\ SaneHost(host') /\ touched' \in BOOLEAN
      /\ UNCHANGED <<calm, disturbed, settled, forecast>>
  BY DEF TypeOK, Observe
<1> QED
  BY <1>1, ContinueType

LEMMA AbsentType ==
  ASSUME TypeOK,
         \/ ValidateSpec \/ LookupDomain \/ AlreadyAbsent \/ WouldUndefine
         \/ AbsentIsActive \/ AbsentDestroy \/ AbsentUndefine
  PROVE  TypeOK'
<1> USE DEF Busy, PCs
<1>0. loc \in Locals /\ loc.existing \in Maybe(UUIDs) /\ None \in Maybe(Facts)
  BY DEF TypeOK, Locals, Maybe
<1>1. CASE ValidateSpec
  <2>1. CASE Item.form # "broken" /\ Continue("lookup") /\ Observe /\ UNCHANGED loc
    BY <1>0, <1>1, <2>1, QuietContinueType DEF ValidateSpec
  <2>2. CASE Raise
    BY <1>1, <2>2, RaiseType DEF ValidateSpec
  <2> QED
    BY <1>1, <2>1, <2>2 DEF ValidateSpec
<1>2. CASE LookupDomain
  <2>1. ASSUME NEW e \in (IF Named(Item.name) = {} THEN {None} ELSE Named(Item.name)),
               Continue(AfterLookup(e)), loc' = [loc EXCEPT !.existing = e], Observe
        PROVE  TypeOK'
    <3>1. e \in Maybe(UUIDs)
      BY DEF Named, Maybe
    <3>2. loc' \in Locals
      BY <1>0, <2>1, <3>1 DEF Locals
    <3> QED
      BY <1>2, <2>1, <3>2, AfterTypes, QuietContinueType DEF LookupDomain
  <2>2. CASE CallFails(TRUE)
    BY <1>2, <2>2, CallFailsType DEF LookupDomain
  <2> QED
    BY <1>2, <2>1, <2>2 DEF LookupDomain
<1>3. CASE AlreadyAbsent
  BY <1>0, <1>3, OkType, QuietEndType DEF AlreadyAbsent
<1>4. CASE WouldUndefine
  BY <1>0, <1>4, OkType, QuietEndType DEF WouldUndefine
<1>5. CASE AbsentIsActive
  BY <1>0, <1>5, ReadType DEF AbsentIsActive
<1>6. CASE AbsentDestroy
  <2>1. Exists(loc.existing) => /\ loc.existing \in UUIDs /\ host[loc.existing] # None
                                /\ Replaces(Stopped(host[loc.existing]), host[loc.existing])
    BY <1>0, ExistsType, StoppedReplaces DEF Exists
  <2> QED
    BY <1>0, <1>6, <2>1, CallType DEF AbsentDestroy
<1>7. CASE AbsentUndefine
  <2> DEFINE e == loc.existing
             possible == Exists(e) /\ host[e].persistent
  <2>1. CASE /\ possible
             /\ EndItem(Ok(TRUE, None))
             /\ Mutate(e, Undefined(host[e]))
             /\ UNCHANGED <<loc, bounds>>
    <3>1. e \in UUIDs /\ host[e] # None /\ Replaces(Undefined(host[e]), host[e])
      BY <1>0, <2>1, ExistsType, UndefinedReplaces DEF Exists
    <3>2. /\ host' = [host EXCEPT ![e] = Undefined(host[e])] /\ touched' \in BOOLEAN
          /\ UNCHANGED <<calm, disturbed, settled, forecast>>
      BY <2>1 DEF Mutate, TypeOK
    <3>3. SaneHost(host')
      BY <3>1, <3>2, ReplacesSane DEF TypeOK
    <3>4. faults' \in 0..MaxFaults /\ UNCHANGED meddle
      BY <2>1 DEF TypeOK, bounds
    <3> QED
      BY <1>0, <1>7, <2>1, <3>2, <3>3, <3>4, OkType, EndItemType DEF AbsentUndefine
  <2>2. CASE CallFails(possible)
    BY <1>7, <2>2, CallFailsType DEF AbsentUndefine
  <2> QED
    BY <1>7, <2>1, <2>2 DEF AbsentUndefine
<1> QED
  BY <1>1, <1>2, <1>3, <1>4, <1>5, <1>6, <1>7

\* The definition _define sends is a sequence of addresses once libvirt has
\* filled it in.
LEMMA FilledType ==
  ASSUME NEW specMacs \in Seq(Maybe(Macs)), NEW before \in Maybe(Xml),
         NEW macs \in Filled(CarryOver(specMacs, before))
  PROVE  macs \in Seq(Macs)
<1>1. Len(CarryOver(specMacs, before)) \in Nat
  <2>1. CASE before = None
    BY <2>1 DEF CarryOver
  <2>2. CASE before # None
    <3>1. CarryOver(specMacs, before) =
            [k \in 1..Len(specMacs) |->
               IF specMacs[k] # None \/ k > Len(before.macs) THEN specMacs[k]
               ELSE before.macs[k]]
      BY <2>2 DEF CarryOver
    <3> QED
      BY <3>1
  <2> QED
    BY <2>1, <2>2
<1> QED
  BY <1>1 DEF Filled

\* What the accepting branch of DefineDomain does to the host.
LEMMA DefineStep ==
  ASSUME TypeOK, pc = "define",
         NEW u \in DefineTargets(Item.name, IncomingUuid),
         NEW macs \in Filled(CarryOver(Item.macs, loc.before)),
         Mutate(u, DefinedAs(u, Item.name, Item.cfg, macs))
  PROVE  /\ u \in UUIDs
         /\ SaneHost(host')
         /\ host' = [host EXCEPT ![u] = DefinedAs(u, Item.name, Item.cfg, macs)]
         /\ host'[u] = DefinedAs(u, Item.name, Item.cfg, macs)
         /\ host'[u] # None /\ host'[u].name = Item.name
         /\ host[u] # None => host[u].name = Item.name
<1>1. Item \in DomainSpec /\ loc.before \in Maybe(Xml)
  BY ItemType DEF TypeOK, Locals
<1>2. macs \in Seq(Macs) /\ Item.name \in Names /\ Item.cfg \in Cfgs
  BY <1>1, FilledType DEF DomainSpec
<1>3. host' = [host EXCEPT ![u] = DefinedAs(u, Item.name, Item.cfg, macs)]
  BY DEF Mutate
<1>4. SaneHost(host)
  BY DEF TypeOK
<1>5. u \in UUIDs /\ (host[u] # None => host[u].name = Item.name)
  BY DEF DefineTargets
<1>6. SaneHost(host')
  BY <1>2, <1>3, <1>4, DefineSane
<1>7. host'[u] = DefinedAs(u, Item.name, Item.cfg, macs)
  BY <1>3, <1>4, <1>5 DEF SaneHost
<1>8. /\ DefinedAs(u, Item.name, Item.cfg, macs) \in Domain
      /\ DefinedAs(u, Item.name, Item.cfg, macs).name = Item.name
  BY <1>2, <1>4, <1>5, DefinedAsType
<1>9. host'[u] # None /\ host'[u].name = Item.name
  BY <1>7, <1>8, NoneAssumption
<1> QED
  BY <1>3, <1>5, <1>6, <1>7, <1>9

LEMMA DefineType ==
  ASSUME TypeOK,
         BuildXml \/ ReadDefinition \/ DefineDomain \/ CompareDefinition
  PROVE  TypeOK'
<1> USE DEF Busy, PCs
<1>0. /\ loc \in Locals /\ loc.existing \in Maybe(UUIDs) /\ loc.dom \in Maybe(UUIDs)
      /\ loc.before \in Maybe(Xml)
      /\ None \in Maybe(Facts) /\ None \in Maybe(UUIDs)
  BY DEF TypeOK, Locals, Maybe
<1>1. CASE BuildXml
  <2>1. CASE Raise
    BY <1>1, <2>1, RaiseType DEF BuildXml
  <2>2. CASE /\ Continue(IF loc.existing = None THEN "define" ELSE "xmlDesc")
             /\ Observe /\ UNCHANGED loc
    BY <1>0, <1>1, <2>2, QuietContinueType DEF BuildXml
  <2>3. CASE EndItem(Ok(TRUE, None)) /\ Observe /\ UNCHANGED <<loc, bounds>>
    BY <1>0, <1>1, <2>3, OkType, QuietEndType DEF BuildXml
  <2> QED
    BY <1>1, <2>1, <2>2, <2>3 DEF BuildXml
<1>2. CASE ReadDefinition
  <2>1. CASE /\ Exists(loc.existing)
             /\ Continue(IF check THEN "autostart" ELSE "define")
             /\ loc' = [loc EXCEPT !.before = XmlOf(loc.existing),
                                   !.dom = IF check THEN loc.existing ELSE None]
             /\ Observe
    <3>1. XmlOf(loc.existing) \in Maybe(Xml)
      BY <1>0, <2>1, XmlOfType DEF Maybe
    <3>2. loc' \in Locals
      BY <1>0, <2>1, <3>1 DEF Locals
    <3> QED
      BY <1>2, <2>1, <3>2, QuietContinueType DEF ReadDefinition
  <2>2. CASE Raise
    BY <1>2, <2>2, RaiseType DEF ReadDefinition
  <2>3. CASE CallFails(Exists(loc.existing))
    BY <1>2, <2>3, CallFailsType DEF ReadDefinition
  <2> QED
    BY <1>2, <2>1, <2>2, <2>3 DEF ReadDefinition
<1>3. CASE DefineDomain
  <2> DEFINE created == loc.existing = None
             targets == DefineTargets(Item.name, IncomingUuid)
  <2>1. ASSUME NEW u \in targets, NEW macs \in Filled(CarryOver(Item.macs, loc.before)),
               Continue(IF created THEN "autostart" ELSE "newXml"),
               Mutate(u, DefinedAs(u, Item.name, Item.cfg, macs)),
               loc' = [loc EXCEPT !.dom = u, !.defined = created, !.changed = created]
        PROVE  TypeOK'
    <3>3. touched' \in BOOLEAN /\ UNCHANGED <<calm, disturbed, settled, forecast>>
      BY <2>1 DEF Mutate, TypeOK
    <3>4. SaneHost(host') /\ u \in UUIDs
      BY <1>3, <2>1, DefineStep DEF DefineDomain
    <3>5. loc' \in Locals
      BY <1>0, <2>1, <3>4 DEF Locals, Maybe
    <3> QED
      BY <1>3, <2>1, <3>3, <3>4, <3>5, ContinueType DEF DefineDomain
  <2>2. CASE CallFails(targets # {})
    BY <1>3, <2>2, CallFailsType DEF DefineDomain
  <2> QED
    BY <1>3, <2>1, <2>2 DEF DefineDomain
<1>4. CASE CompareDefinition
  <2> DEFINE differs == Exists(loc.dom) /\ XmlOf(loc.dom) # loc.before
  <2>1. [loc EXCEPT !.defined = differs, !.changed = differs] \in Locals
    BY <1>0 DEF Locals, Exists
  <2> QED
    BY <1>4, <2>1, ReadType DEF CompareDefinition
<1> QED
  BY <1>1, <1>2, <1>3, <1>4

LEMMA RunStateType ==
  ASSUME TypeOK, pc = "setAutostart" => Item.autostart # None,
         \/ ReadAutostart \/ SetAutostart \/ ReadActive \/ ReadState \/ ApplyRunState
         \/ FactState \/ FactActive \/ FactAutostart \/ FactPersistent
  PROVE  TypeOK'
<1> USE DEF Busy, PCs
<1> DEFINE d == loc.dom
<1>0. /\ loc \in Locals /\ d \in Maybe(UUIDs) /\ loc.facts \in Facts
      /\ loc.changed \in BOOLEAN
  BY DEF TypeOK, Locals
<1>a. Exists(d) => /\ d \in UUIDs /\ host[d] # None /\ host[d] \in Domain
                   /\ ~host[d].persistent => host[d].run # "shutoff"
  BY <1>0, ExistsType DEF Exists
<1>b. pc # "idle" => Item \in DomainSpec
  BY ItemType
<1>1. CASE ReadAutostart
  <2> DEFINE differs == Exists(d) /\ host[d].autostart # Item.autostart
  <2>1. CASE Continue(AfterAutostart) /\ Observe /\ UNCHANGED loc
    BY <1>0, <1>1, <2>1, AfterTypes, QuietContinueType DEF ReadAutostart
  <2>2. CASE Read(IF differs /\ ~check THEN "setAutostart" ELSE AfterAutostart, d,
                  [loc EXCEPT !.changed = loc.changed \/ (differs /\ check)])
    <3>1. [loc EXCEPT !.changed = loc.changed \/ (differs /\ check)] \in Locals
      BY <1>0 DEF Locals
    <3>2. (IF differs /\ ~check THEN "setAutostart" ELSE AfterAutostart) \in Busy
      BY AfterTypes
    <3> QED
      BY <1>1, <2>2, <3>1, <3>2, ReadType DEF ReadAutostart
  <2> QED
    BY <1>1, <2>1, <2>2 DEF ReadAutostart
<1>2. CASE SetAutostart
  <2>1. Item.autostart \in BOOLEAN
    BY <1>2, <1>b DEF SetAutostart, DomainSpec, Maybe
  <2>2. [loc EXCEPT !.changed = TRUE] \in Locals
    BY <1>0 DEF Locals
  <2>3. Exists(d) /\ host[d].persistent =>
          Replaces([host[d] EXCEPT !.autostart = Item.autostart], host[d])
    BY <1>a, <2>1 DEF Replaces, Maybe, Domain
  <2> QED
    BY <1>2, <1>a, <2>2, <2>3, AfterTypes, CallType DEF SetAutostart
<1>3. CASE ReadActive
  <2>1. [loc EXCEPT !.active = Exists(d) /\ IsActive(d)] \in Locals
    BY <1>0 DEF Locals, Exists
  <2> QED
    BY <1>3, <2>1, ReadType DEF ReadActive
<1>4. CASE ReadState
  <2>1. Exists(d) => [loc EXCEPT !.run = host[d].run] \in Locals
    BY <1>0, <1>a DEF Locals, Domain, Maybe
  <2> QED
    BY <1>4, <2>1, ReadType DEF ReadState
<1>5. CASE ApplyRunState
  <2>0. [loc EXCEPT !.changed = TRUE] \in Locals
    BY <1>0 DEF Locals
  <2>1. CASE Continue("factState") /\ Observe /\ UNCHANGED loc
    BY <1>0, <1>5, <2>1, QuietContinueType DEF ApplyRunState
  <2>2. CASE Continue("factState") /\ Observe /\ loc' = [loc EXCEPT !.changed = TRUE]
    BY <1>5, <2>0, <2>2, QuietContinueType DEF ApplyRunState
  <2>3. CASE Call("factState", d, Exists(d) /\ Accepts(Operation, host[d]),
                  Effect(Operation, host[d]), [loc EXCEPT !.changed = TRUE])
    <3>1. Exists(d) /\ Accepts(Operation, host[d]) =>
            Replaces(Effect(Operation, host[d]), host[d])
      BY <1>a, EffectReplaces
    <3> QED
      BY <1>5, <1>a, <2>0, <2>3, <3>1, CallType DEF ApplyRunState
  <2> QED
    BY <1>5, <2>1, <2>2, <2>3 DEF ApplyRunState
<1>6. CASE FactState
  <2>1. Exists(d) => [loc EXCEPT !.facts.run = host[d].run] \in Locals
    BY <1>0, <1>a DEF Locals, Domain, Maybe, Facts
  <2> QED
    BY <1>6, <2>1, ReadType DEF FactState
<1>7. CASE FactActive
  <2>1. Exists(d) => [loc EXCEPT !.facts.active = IsActive(d)] \in Locals
    BY <1>0 DEF Locals, Maybe, Facts, IsActive
  <2> QED
    BY <1>7, <2>1, ReadType DEF FactActive
<1>8. CASE FactAutostart
  <2>1. Exists(d) => [loc EXCEPT !.facts.autostart = host[d].autostart] \in Locals
    BY <1>0, <1>a DEF Locals, Domain, Maybe, Facts
  <2> QED
    BY <1>8, <2>1, ReadType DEF FactAutostart
<1>9. CASE FactPersistent
  <2>1. CASE /\ Exists(d)
             /\ EndItem(Ok(loc.changed,
                           [loc.facts EXCEPT !.persistent = host[d].persistent]))
             /\ Observe /\ UNCHANGED <<loc, bounds>>
    <3>1. [loc.facts EXCEPT !.persistent = host[d].persistent] \in Maybe(Facts)
      BY <1>0, <1>a, <2>1 DEF Domain, Maybe, Facts
    <3> QED
      BY <1>0, <1>9, <2>1, <3>1, OkType, QuietEndType DEF FactPersistent
  <2>2. CASE CallFails(Exists(d))
    BY <1>9, <2>2, CallFailsType DEF FactPersistent
  <2> QED
    BY <1>9, <2>1, <2>2 DEF FactPersistent
<1> QED
  BY <1>1, <1>2, <1>3, <1>4, <1>5, <1>6, <1>7, <1>8, <1>9

LEMMA NoLocalsType == NoLocals \in Locals
  BY DEF NoLocals, NoFacts, Locals, Facts, Maybe

LEMMA NoEntriesType == <<>> \in Seq(Entry) /\ Len(<<>>) = 0
  OBVIOUS

\* The loop over the specs, the start and the end of a run.
LEMMA LoopType ==
  ASSUME TypeOK,
         NextItem \/ FinishRun \/ Kill \/ (\E c \in BOOLEAN : StartRun(c))
  PROVE  TypeOK'
<1>1. CASE NextItem
  <2>1. items \in Playbooks /\ i \in 1..Len(items) /\ i < Len(items) /\ Len(items) \in Nat
    BY <1>1, ItemType DEF NextItem
  <2>2. /\ UNCHANGED <<host, items, check, entries, faults, meddle, calm, settled, forecast>>
        /\ pc' = "validate" /\ i' = i + 1 /\ loc' = NoLocals
        /\ disturbed' = FALSE /\ touched' = FALSE
    BY <1>1 DEF NextItem, task, bounds
  <2>3. i' \in Nat /\ i' \in 1..Len(items') /\ i = i' - 1
    BY <2>1, <2>2
  <2>4. Len(entries') = i' - 1
    BY <1>1, <2>2, <2>3 DEF NextItem, TypeOK
  <2> QED
    BY <2>2, <2>3, <2>4, NoLocalsType DEF TypeOK, PCs
<1> DEFINE Out == /\ pc' = "idle" /\ i' = 0 /\ check' \in BOOLEAN
                  /\ loc' \in Locals /\ entries' \in Seq(Entry)
                  /\ calm' \in BOOLEAN /\ disturbed' \in BOOLEAN /\ touched' \in BOOLEAN
                  /\ UNCHANGED <<host, items>>
<1>2. ASSUME Exit PROVE Out
  BY <1>2, NoLocalsType, NoEntriesType DEF Exit
<1>3. CASE FinishRun
  <2>1. items \in Playbooks /\ entries \in Seq(Entry)
    BY <1>3, ItemType DEF FinishRun, TypeOK
  <2>2. settled' \in Maybe(Playbooks) /\ forecast' \in Maybe(Forecasts)
    BY <1>3, <2>1 DEF FinishRun, TypeOK, Maybe, Forecasts
  <2> QED
    BY <1>2, <1>3, <2>2 DEF FinishRun, TypeOK, bounds, PCs
<1>4. CASE Kill
  <2>1. faults' \in 0..MaxFaults
    BY <1>4, BoundsAssumption DEF Kill, TypeOK
  <2> QED
    BY <1>2, <1>4, <2>1 DEF Kill, TypeOK, PCs, Maybe
<1>5. ASSUME NEW c \in BOOLEAN, StartRun(c)
      PROVE  TypeOK'
  <2>1. items' \in Playbooks /\ Len(items') \in Nat \ {0}
    BY <1>5, PlaybooksAssumption DEF StartRun
  <2>2. i' \in 1..Len(items') /\ i' = 1
    BY <1>5, <2>1 DEF StartRun
  <2>3. settled' \in Maybe(Playbooks) /\ forecast' \in Maybe(Forecasts)
    BY <1>5 DEF StartRun, TypeOK, Maybe
  <2>4. entries' = <<>> /\ entries' \in Seq(Entry) /\ Len(entries') = 0
    BY <1>5 DEF StartRun
  <2>5. /\ UNCHANGED <<host, faults, meddle>>
        /\ pc' = "validate" /\ check' \in BOOLEAN /\ loc' \in Locals
        /\ calm' \in BOOLEAN /\ disturbed' \in BOOLEAN /\ touched' \in BOOLEAN
    BY <1>5, NoLocalsType DEF StartRun, bounds
  <2>6. Len(entries') = i' - 1
    BY <2>2, <2>4
  <2> QED
    BY <2>1, <2>2, <2>3, <2>4, <2>5, <2>6 DEF TypeOK, PCs
<1> QED
  BY <1>1, <1>3, <1>4, <1>5

LEMMA OutsideType ==
  ASSUME TypeOK, NEW u \in UUIDs, NEW d, NEW name,
         Outside(u, d, name),
         SaneHost([host EXCEPT ![u] = d]), meddle' \in 0..MaxMeddle
  PROVE  TypeOK'
  BY DEF Outside, TypeOK, task, Maybe

LEMMA EnvironmentType ==
  ASSUME TypeOK, Environment
  PROVE  TypeOK'
<1>1. ASSUME Meddle PROVE meddle' \in 0..MaxMeddle
  BY <1>1, BoundsAssumption DEF Meddle, TypeOK
<1>2. ASSUME NEW u \in UUIDs, Exists(u), NEW d, Replaces(d, host[u])
      PROVE  SaneHost([host EXCEPT ![u] = d])
  <2>1. SaneHost(host) /\ host[u] # None
    BY <1>2 DEF TypeOK, Exists
  <2> QED
    BY <1>2, <2>1 DEF SaneHost, Replaces
<1>3. ASSUME NEW u \in UUIDs, Exists(u)
      PROVE  /\ host[u] \in Domain
             /\ ~host[u].persistent => host[u].run # "shutoff"
  BY <1>3, ExistsType DEF Maybe
<1>4. CASE GuestObeys
  BY <1>2, <1>3, <1>4, StoppedReplaces, OutsideType DEF GuestObeys, TypeOK
<1>5. CASE GuestActs
  <2> PICK u \in UUIDs :
        /\ Meddle
        /\ Exists(u)
        /\ \/ host[u].run = "running" /\ Outside(u, Stopped(host[u]), host[u].name)
           \/ /\ host[u].run = "running"
              /\ Outside(u, [host[u] EXCEPT !.run = "pmsuspended"], host[u].name)
           \/ /\ host[u].run = "pmsuspended"
              /\ Outside(u, [host[u] EXCEPT !.run = "running"], host[u].name)
    BY <1>5 DEF GuestActs
  <2>1. /\ Replaces(Stopped(host[u]), host[u])
        /\ Replaces([host[u] EXCEPT !.run = "pmsuspended"], host[u])
        /\ Replaces([host[u] EXCEPT !.run = "running"], host[u])
    BY <1>3, StoppedReplaces DEF Replaces, Domain, RunStates, Maybe
  <2> QED
    BY <1>1, <1>2, <2>1, OutsideType
<1>6. CASE ClientDrives
  BY <1>1, <1>2, <1>3, <1>6, EffectReplaces, OutsideType DEF ClientDrives
<1>7. CASE ClientEdits
  <2> PICK u \in UUIDs :
        /\ Meddle
        /\ Exists(u) /\ host[u].persistent
        /\ \/ \E cfg \in Cfgs : Outside(u, [host[u] EXCEPT !.cfg = cfg], host[u].name)
           \/ Outside(u, [host[u] EXCEPT !.autostart = ~host[u].autostart], host[u].name)
    BY <1>7 DEF ClientEdits
  <2>1. /\ \A cfg \in Cfgs : Replaces([host[u] EXCEPT !.cfg = cfg], host[u])
        /\ Replaces([host[u] EXCEPT !.autostart = ~host[u].autostart], host[u])
    BY <1>3 DEF Replaces, Domain, Maybe
  <2> QED
    BY <1>1, <1>2, <2>1, OutsideType
<1>8. CASE ClientUndefines
  BY <1>1, <1>2, <1>3, <1>8, UndefinedReplaces, OutsideType DEF ClientUndefines
<1>9. CASE ClientDefines
  <2> PICK u \in UUIDs, n \in Names, cfg \in Cfgs :
        /\ Meddle
        /\ host[u] = None /\ Named(n) = {}
        /\ Outside(u, DefinedAs(u, n, cfg, <<>>), n)
    BY <1>9 DEF ClientDefines
  <2>1. u \in DefineTargets(n, None)
    BY DEF DefineTargets
  <2>2. SaneHost(host) /\ <<>> \in Seq(Macs)
    BY DEF TypeOK
  <2>3. host' = [host EXCEPT ![u] = DefinedAs(u, n, cfg, <<>>)]
    BY DEF Outside
  <2>4. SaneHost(host')
    BY <2>1, <2>2, <2>3, DefineSane
  <2> QED
    BY <1>1, <2>3, <2>4, OutsideType
<1> QED
  BY <1>4, <1>5, <1>6, <1>7, <1>8, <1>9 DEF Environment

LEMMA InitType == Init => TypeOK
<1> SUFFICES ASSUME Init PROVE TypeOK
  OBVIOUS
<1>1. SaneHost(host)
  BY HostsAssumption DEF Init
<1>2. entries \in Seq(Entry) /\ loc \in Locals
  BY NoEntriesType, NoLocalsType DEF Init
<1>3. faults \in 0..MaxFaults /\ meddle \in 0..MaxMeddle
  BY BoundsAssumption DEF Init
<1>4. settled \in Maybe(Playbooks) /\ forecast \in Maybe(Forecasts)
  BY DEF Init, Maybe
<1> QED
  BY <1>1, <1>2, <1>3, <1>4 DEF Init, TypeOK, PCs

-----------------------------------------------------------------------------
(* Where control is, and whom the handles name *)

Removing == {"gone", "would", "absActive", "absDestroy", "absUndefine"}
Writing == {"absActive", "absDestroy", "absUndefine", "define", "newXml",
            "setAutostart"}

\* Removal calls are reached for "absent" items only, mutating calls outside
\* check mode only, and setAutostart with a flag to set.
Control ==
  /\ pc \in Removing => Item.state = "absent"
  /\ pc \in Writing => ~check
  /\ pc = "setAutostart" => Item.autostart # None

\* The module's handles are to a domain of the item's name, or to none.
Handles ==
  \A u \in {loc.existing, loc.dom} : Exists(u) => host[u].name = Item.name

Inv == TypeOK /\ Control /\ Handles

LEMMA EndItemControl ==
  ASSUME Inv, pc # "idle", NEW e, EndItem(e)
  PROVE  Control'
  BY DEF EndItem, Control, Removing, Writing

LEMMA CallFailsControl ==
  ASSUME Inv, pc # "idle", NEW possible, CallFails(possible)
  PROVE  Control'
  BY EndItemControl DEF CallFails

\* Each action of _reconcile_one leads where its conditions say.
LEMMA ReconcileControl ==
  ASSUME Inv, Reconcile
  PROVE  Control'
<1> USE DEF Control, Removing, Writing, Inv
<1>0. ASSUME NEW to, Continue(to) PROVE pc' = to /\ Item' = Item /\ check' = check
  BY <1>0 DEF Continue, task, Item
<1>1. CASE ValidateSpec
  BY <1>0, <1>1, EndItemControl DEF ValidateSpec, Raise
<1>2. CASE LookupDomain
  <2>1. ASSUME NEW e, Continue(AfterLookup(e)) PROVE Control'
    BY <1>0, <2>1 DEF AfterLookup
  <2> QED
    BY <1>2, <2>1, CallFailsControl DEF LookupDomain
<1>3. CASE AlreadyAbsent \/ WouldUndefine
  BY <1>3, EndItemControl DEF AlreadyAbsent, WouldUndefine
<1>4. CASE AbsentIsActive
  BY <1>0, <1>4, CallFailsControl DEF AbsentIsActive, Read
<1>5. CASE AbsentDestroy
  BY <1>0, <1>5, CallFailsControl DEF AbsentDestroy, Call
<1>6. CASE AbsentUndefine
  BY <1>6, EndItemControl, CallFailsControl DEF AbsentUndefine
<1>7. CASE BuildXml
  <2>1. CASE /\ loc.existing # None \/ ~check
             /\ Continue(IF loc.existing = None THEN "define" ELSE "xmlDesc")
    <3>1. CASE loc.existing = None
      BY <1>0, <2>1, <3>1
    <3>2. CASE loc.existing # None
      BY <1>0, <2>1, <3>2
    <3> QED
      BY <3>1, <3>2
  <2>2. CASE Raise \/ EndItem(Ok(TRUE, None))
    BY <1>7, <2>2, EndItemControl DEF BuildXml, Raise
  <2> QED
    BY <1>7, <2>1, <2>2 DEF BuildXml
<1>8. CASE ReadDefinition
  BY <1>0, <1>8, EndItemControl, CallFailsControl DEF ReadDefinition, Raise
<1>9. CASE DefineDomain
  <2>0. pc = "define"
    BY <1>9 DEF DefineDomain
  <2>1. CASE Continue(IF loc.existing = None THEN "autostart" ELSE "newXml")
    <3>1. CASE loc.existing = None
      BY <1>0, <2>0, <2>1, <3>1
    <3>2. CASE loc.existing # None
      BY <1>0, <2>0, <2>1, <3>2
    <3> QED
      BY <3>1, <3>2
  <2>2. CASE \E possible : CallFails(possible)
    BY <1>9, <2>2, CallFailsControl DEF DefineDomain
  <2> QED
    BY <1>9, <2>1, <2>2 DEF DefineDomain
<1>10. CASE CompareDefinition
  BY <1>0, <1>10, CallFailsControl DEF CompareDefinition, Read
<1>11. CASE ReadAutostart
  BY <1>0, <1>11, CallFailsControl DEF ReadAutostart, Read, AfterAutostart
<1>12. CASE SetAutostart
  BY <1>0, <1>12, CallFailsControl DEF SetAutostart, Call, AfterAutostart
<1>13. CASE ReadActive
  BY <1>0, <1>13, CallFailsControl DEF ReadActive, Read
<1>14. CASE ReadState
  BY <1>0, <1>14, CallFailsControl DEF ReadState, Read
<1>15. CASE ApplyRunState
  BY <1>0, <1>15, CallFailsControl DEF ApplyRunState, Call
<1>16. CASE FactState
  BY <1>0, <1>16, CallFailsControl DEF FactState, Read
<1>17. CASE FactActive
  BY <1>0, <1>17, CallFailsControl DEF FactActive, Read
<1>18. CASE FactAutostart
  BY <1>0, <1>18, CallFailsControl DEF FactAutostart, Read
<1>19. CASE FactPersistent
  BY <1>19, EndItemControl, CallFailsControl DEF FactPersistent
<1> QED
  BY <1>1, <1>2, <1>3, <1>4, <1>5, <1>6, <1>7, <1>8, <1>9, <1>10, <1>11, <1>12,
     <1>13, <1>14, <1>15, <1>16, <1>17, <1>18, <1>19 DEF Reconcile

LEMMA ControlKept ==
  ASSUME Inv, [Next]_vars
  PROVE  Control'
<1>1. CASE Reconcile
  BY <1>1, ReconcileControl
<1>2. CASE NextItem \/ FinishRun \/ Kill \/ (\E c \in BOOLEAN : StartRun(c))
  BY <1>2 DEF NextItem, FinishRun, Kill, StartRun, Exit, Control, Removing, Writing
<1>3. ASSUME NEW u, NEW d, NEW name, Outside(u, d, name) PROVE Control'
  BY <1>3 DEF Outside, task, Inv, Control, Item
<1>4. CASE Environment
  BY <1>3, <1>4 DEF Environment, GuestObeys, GuestActs, ClientDrives, ClientEdits,
     ClientUndefines, ClientDefines
<1>5. CASE UNCHANGED vars
  BY <1>5 DEF vars, Inv, Control, Item
<1> QED
  BY <1>1, <1>2, <1>4, <1>5 DEF Next, Module

LEMMA NextType ==
  ASSUME TypeOK, Control, [Next]_vars
  PROVE  TypeOK'
<1>1. CASE Reconcile
  BY <1>1, AbsentType, DefineType, RunStateType DEF Reconcile, Control
<1>2. CASE NextItem \/ FinishRun \/ Kill \/ (\E c \in BOOLEAN : StartRun(c))
  BY <1>2, LoopType
<1>3. CASE Environment
  BY <1>3, EnvironmentType
<1>4. CASE UNCHANGED vars
  BY <1>4 DEF TypeOK, vars
<1> QED
  BY <1>1, <1>2, <1>3, <1>4 DEF Next, Module

\* libvirt's answer to a lookup is a domain of that name.
LEMMA HandlesReplaced ==
  ASSUME Inv, NEW u \in UUIDs, NEW d, d # None => d.name = Item.name,
         host' = [host EXCEPT ![u] = d],
         UNCHANGED <<items, i>>,
         loc'.existing = loc.existing, loc'.dom \in {loc.dom, u}
  PROVE  Handles'
<1>1. host \in [UUIDs -> Maybe(Domain)] /\ loc \in Locals
  BY DEF Inv, TypeOK, SaneHost
<1>2. loc.existing \in Maybe(UUIDs) /\ loc.dom \in Maybe(UUIDs)
  BY <1>1 DEF Locals
<1>3. Item' = Item
  BY DEF Item
<1>4. ASSUME NEW v \in {loc'.existing, loc'.dom}, Exists(v)'
      PROVE  host'[v].name = Item.name
  <2>1. v \in UUIDs
    BY <1>2, <1>4 DEF Exists, Maybe
  <2>2. CASE v = u
    BY <1>1, <1>4, <2>1, <2>2 DEF Exists
  <2>3. CASE v # u
    BY <1>1, <1>4, <2>1, <2>3 DEF Exists, Inv, Handles
  <2> QED
    BY <2>2, <2>3
<1> QED
  BY <1>3, <1>4 DEF Handles

LEMMA HandlesUntouched ==
  ASSUME Inv, UNCHANGED <<host, items, i>>,
         loc'.existing = loc.existing, loc'.dom = loc.dom
  PROVE  Handles'
  BY DEF Inv, Handles, Exists, Item

LEMMA CallFailsHandles ==
  ASSUME Inv, NEW possible, CallFails(possible)
  PROVE  Handles'
  BY HandlesUntouched DEF CallFails, EndItem, Observe, task

LEMMA ReadHandles ==
  ASSUME Inv, NEW to, NEW u, NEW new, Read(to, u, new),
         new.existing = loc.existing, new.dom = loc.dom
  PROVE  Handles'
<1>1. CASE Continue(to) /\ Observe /\ loc' = new
  BY <1>1, HandlesUntouched DEF Continue, Observe, task
<1> QED
  BY <1>1, CallFailsHandles DEF Read

LEMMA CallHandles ==
  ASSUME Inv, NEW to, NEW u, NEW possible, NEW d, NEW new,
         Call(to, u, possible, d, new),
         possible => u \in UUIDs /\ (d # None => d.name = Item.name),
         new.existing = loc.existing, new.dom = loc.dom
  PROVE  Handles'
<1>1. CASE possible /\ Continue(to) /\ Mutate(u, d) /\ loc' = new
  BY <1>1, HandlesReplaced DEF Continue, Mutate, task
<1> QED
  BY <1>1, CallFailsHandles DEF Call

LEMMA HandleDomain ==
  ASSUME Inv, NEW u \in {loc.existing, loc.dom}, Exists(u)
  PROVE  /\ u \in UUIDs /\ host[u] \in Domain /\ host[u].name = Item.name
         /\ ~host[u].persistent => host[u].run # "shutoff"
<1>1. u \in Maybe(UUIDs)
  BY DEF Inv, TypeOK, Locals
<1> QED
  BY <1>1, ExistsType DEF Inv, Handles

LEMMA ReconcileHandles ==
  ASSUME Inv, Reconcile
  PROVE  Handles'
<1> DEFINE e == loc.existing
           d == loc.dom
<1>0. loc \in Locals /\ loc.facts \in Facts
  BY DEF Inv, TypeOK, Locals
<1>q. ASSUME UNCHANGED <<host, items, i, loc>> PROVE Handles'
  BY <1>q, HandlesUntouched
<1>1. CASE ValidateSpec \/ AlreadyAbsent \/ WouldUndefine \/ BuildXml
  BY <1>1, <1>q DEF ValidateSpec, AlreadyAbsent, WouldUndefine, BuildXml, Raise,
     EndItem, Continue, Observe, task
<1>2. CASE LookupDomain
  <2>1. ASSUME NEW f \in (IF Named(Item.name) = {} THEN {None} ELSE Named(Item.name)),
               loc' = [loc EXCEPT !.existing = f], UNCHANGED <<host, items, i>>
        PROVE  Handles'
    <3>1. f = None \/ host[f].name = Item.name
      BY <2>1 DEF Named
    <3>2. loc'.existing = f /\ loc'.dom = loc.dom
      BY <1>0, <2>1 DEF Locals
    <3> QED
      BY <2>1, <3>1, <3>2 DEF Inv, Handles, Exists, Item
  <2> QED
    BY <1>2, <2>1, CallFailsHandles DEF LookupDomain, Continue, Observe, task
<1>3. CASE AbsentIsActive
  BY <1>3, ReadHandles DEF AbsentIsActive
<1>4. CASE AbsentDestroy
  <2>1. Exists(e) => /\ e \in UUIDs
                     /\ Stopped(host[e]) # None => Stopped(host[e]).name = Item.name
    BY HandleDomain, StoppedReplaces DEF Replaces
  <2> QED
    BY <1>4, <2>1, CallHandles DEF AbsentDestroy
<1>5. CASE AbsentUndefine
  <2>1. CASE Exists(e) /\ Mutate(e, Undefined(host[e])) /\ UNCHANGED <<items, i, loc>>
    <3>1. /\ e \in UUIDs
          /\ Undefined(host[e]) # None => Undefined(host[e]).name = Item.name
      BY <2>1, HandleDomain, UndefinedReplaces DEF Replaces
    <3> QED
      BY <2>1, <3>1, HandlesReplaced DEF Mutate
  <2> QED
    BY <1>5, <2>1, CallFailsHandles DEF AbsentUndefine, EndItem, task
<1>6. CASE ReadDefinition
  <2>1. CASE /\ loc' = [loc EXCEPT !.before = XmlOf(e), !.dom = IF check THEN e ELSE None]
             /\ UNCHANGED <<host, items, i>>
    <3>1. loc'.existing = e /\ loc'.dom \in {e, None}
      BY <1>0, <2>1 DEF Locals
    <3> QED
      BY <2>1, <3>1 DEF Inv, Handles, Exists, Item
  <2>2. CASE Raise
    BY <2>2, <1>q DEF Raise, EndItem, Observe, task
  <2> QED
    BY <1>6, <2>1, <2>2, CallFailsHandles DEF ReadDefinition, Continue, Observe, task
<1>7. CASE DefineDomain
  <2>1. ASSUME NEW u \in DefineTargets(Item.name, IncomingUuid), NEW macs,
               macs \in Filled(CarryOver(Item.macs, loc.before)),
               Mutate(u, DefinedAs(u, Item.name, Item.cfg, macs)),
               UNCHANGED <<items, i>>,
               NEW c, loc' = [loc EXCEPT !.dom = u, !.defined = c, !.changed = c]
        PROVE  Handles'
    <3>5. /\ u \in UUIDs /\ host'[u].name = Item.name
          /\ host' = [host EXCEPT ![u] = DefinedAs(u, Item.name, Item.cfg, macs)]
          /\ host'[u] = DefinedAs(u, Item.name, Item.cfg, macs)
      BY <1>7, <2>1, DefineStep DEF DefineDomain, Inv
    <3>6. loc'.existing = loc.existing /\ loc'.dom \in {loc.dom, u}
      BY <1>0, <2>1 DEF Locals
    <3> QED
      BY <2>1, <3>5, <3>6, HandlesReplaced
  <2> QED
    BY <1>7, <2>1, CallFailsHandles DEF DefineDomain, Continue, task
<1>8. CASE CompareDefinition
  BY <1>0, <1>8, ReadHandles DEF CompareDefinition, Locals
<1>9. CASE ReadAutostart
  BY <1>0, <1>9, <1>q, ReadHandles DEF ReadAutostart, Locals, Continue, Observe, task
<1>10. CASE SetAutostart
  <2> DEFINE flagged == [host[d] EXCEPT !.autostart = Item.autostart]
             new == [loc EXCEPT !.changed = TRUE]
             possible == Exists(d) /\ host[d].persistent
  <2>1. possible => d \in UUIDs /\ flagged.name = Item.name
    BY HandleDomain DEF Domain
  <2>2. new.existing = loc.existing /\ new.dom = loc.dom
    BY <1>0 DEF Locals
  <2>3. Call(AfterAutostart, d, possible, flagged, new)
    BY <1>10 DEF SetAutostart
  <2> HIDE DEF flagged, new, possible
  <2> QED
    BY <2>1, <2>2, <2>3, CallHandles
<1>11. CASE ReadActive
  BY <1>0, <1>11, ReadHandles DEF ReadActive, Locals
<1>12. CASE ReadState
  BY <1>0, <1>12, ReadHandles DEF ReadState, Locals
<1>13. CASE ApplyRunState
  <2>0. [loc EXCEPT !.changed = TRUE].existing = e /\ [loc EXCEPT !.changed = TRUE].dom = d
    BY <1>0 DEF Locals
  <2>1. CASE Continue("factState") /\ Observe /\ (UNCHANGED loc \/ loc' = [loc EXCEPT !.changed = TRUE])
    BY <2>0, <2>1, HandlesUntouched DEF Continue, Observe, task
  <2>2. CASE Call("factState", d, Exists(d) /\ Accepts(Operation, host[d]),
                  Effect(Operation, host[d]), [loc EXCEPT !.changed = TRUE])
    <3>1. Exists(d) /\ Accepts(Operation, host[d]) =>
            /\ d \in UUIDs
            /\ Effect(Operation, host[d]) # None =>
                 Effect(Operation, host[d]).name = Item.name
      BY HandleDomain, EffectReplaces DEF Replaces
    <3> QED
      BY <2>0, <2>2, <3>1, CallHandles
  <2> QED
    BY <1>13, <2>1, <2>2 DEF ApplyRunState
<1>14. CASE FactState
  BY <1>0, <1>14, ReadHandles DEF FactState, Locals
<1>15. CASE FactActive
  BY <1>0, <1>15, ReadHandles DEF FactActive, Locals
<1>16. CASE FactAutostart
  BY <1>0, <1>16, ReadHandles DEF FactAutostart, Locals
<1>17. CASE FactPersistent
  BY <1>17, <1>q, CallFailsHandles DEF FactPersistent, EndItem, Observe, task
<1> QED
  BY <1>1, <1>2, <1>3, <1>4, <1>5, <1>6, <1>7, <1>8, <1>9, <1>10, <1>11, <1>12,
     <1>13, <1>14, <1>15, <1>16, <1>17 DEF Reconcile

LEMMA EnvironmentHandles ==
  ASSUME Inv, Environment
  PROVE  Handles'
<1>1. ASSUME NEW u \in UUIDs, NEW d, NEW name, Outside(u, d, name),
             d # None => \/ Exists(u) /\ d.name = host[u].name
                         \/ u \in {loc.existing, loc.dom} => d.name = Item.name
      PROVE  Handles'
  <2>1. /\ host' = [host EXCEPT ![u] = d] /\ loc' = loc /\ Item' = Item
        /\ host \in [UUIDs -> Maybe(Domain)]
        /\ loc.existing \in Maybe(UUIDs) /\ loc.dom \in Maybe(UUIDs)
    BY <1>1 DEF Outside, task, Item, Inv, TypeOK, SaneHost, Locals
  <2>2. ASSUME NEW v \in {loc.existing, loc.dom}, Exists(v)'
        PROVE  host'[v].name = Item.name
    <3>1. v \in UUIDs
      BY <2>1, <2>2 DEF Exists, Maybe
    <3>2. CASE v = u
      BY <1>1, <2>1, <2>2, <3>1, <3>2 DEF Exists, Inv, Handles
    <3>3. CASE v # u
      BY <2>1, <2>2, <3>1, <3>3 DEF Exists, Inv, Handles
    <3> QED
      BY <3>2, <3>3
  <2> QED
    BY <2>1, <2>2 DEF Handles
<1>2. ASSUME NEW u \in UUIDs, Exists(u), NEW d, Replaces(d, host[u]),
             Outside(u, d, host[u].name)
      PROVE  Handles'
  BY <1>1, <1>2 DEF Replaces
<1>3. ASSUME NEW u \in UUIDs, Exists(u)
      PROVE  host[u] \in Domain /\ (~host[u].persistent => host[u].run # "shutoff")
  BY <1>3, ExistsType DEF Maybe, Inv
<1>4. CASE GuestObeys
  BY <1>2, <1>3, <1>4, StoppedReplaces DEF GuestObeys
<1>5. CASE GuestActs
  <2> PICK u \in UUIDs :
        /\ Exists(u)
        /\ \/ host[u].run = "running" /\ Outside(u, Stopped(host[u]), host[u].name)
           \/ Outside(u, [host[u] EXCEPT !.run = "pmsuspended"], host[u].name)
           \/ Outside(u, [host[u] EXCEPT !.run = "running"], host[u].name)
    BY <1>5 DEF GuestActs
  <2>1. /\ Replaces(Stopped(host[u]), host[u])
        /\ Replaces([host[u] EXCEPT !.run = "pmsuspended"], host[u])
        /\ Replaces([host[u] EXCEPT !.run = "running"], host[u])
    BY <1>3, StoppedReplaces DEF Replaces, Domain, RunStates, Maybe
  <2> QED
    BY <1>2, <2>1
<1>6. CASE ClientDrives
  BY <1>2, <1>3, <1>6, EffectReplaces DEF ClientDrives
<1>7. CASE ClientEdits
  <2> PICK u \in UUIDs :
        /\ Exists(u)
        /\ \/ \E cfg \in Cfgs : Outside(u, [host[u] EXCEPT !.cfg = cfg], host[u].name)
           \/ Outside(u, [host[u] EXCEPT !.autostart = ~host[u].autostart], host[u].name)
    BY <1>7 DEF ClientEdits
  <2>1. /\ \A cfg \in Cfgs : Replaces([host[u] EXCEPT !.cfg = cfg], host[u])
        /\ Replaces([host[u] EXCEPT !.autostart = ~host[u].autostart], host[u])
    BY <1>3 DEF Replaces, Domain, Maybe
  <2> QED
    BY <1>2, <2>1
<1>8. CASE ClientUndefines
  BY <1>2, <1>3, <1>8, UndefinedReplaces DEF ClientUndefines
<1>9. CASE ClientDefines
  <2> PICK u \in UUIDs, n \in Names, cfg \in Cfgs :
        /\ host[u] = None
        /\ u \in {loc.existing, loc.dom} => n = Item.name
        /\ Outside(u, DefinedAs(u, n, cfg, <<>>), n)
    BY <1>9 DEF ClientDefines
  <2>1. DefinedAs(u, n, cfg, <<>>).name = n
    <3>1. SaneHost(host) /\ <<>> \in Seq(Macs)
      BY DEF Inv, TypeOK
    <3> QED
      BY <3>1, DefinedAsType
  <2> QED
    BY <1>1, <2>1
<1> QED
  BY <1>4, <1>5, <1>6, <1>7, <1>8, <1>9 DEF Environment

LEMMA HandlesKept ==
  ASSUME Inv, [Next]_vars
  PROVE  Handles'
<1>1. CASE NextItem \/ FinishRun \/ Kill \/ (\E c \in BOOLEAN : StartRun(c))
  <2>1. loc' = NoLocals
    BY <1>1 DEF NextItem, FinishRun, Kill, StartRun, Exit
  <2> QED
    BY <2>1 DEF Handles, Exists, NoLocals
<1>2. CASE UNCHANGED vars
  BY <1>2, HandlesUntouched DEF vars
<1> QED
  BY <1>1, <1>2, ReconcileHandles, EnvironmentHandles DEF Next, Module

LEMMA InitInv == Init => Inv
  BY InitType DEF Init, Inv, Control, Removing, Writing, Handles, NoLocals, Exists

LEMMA NextInv ==
  ASSUME Inv, [Next]_vars
  PROVE  Inv'
  BY NextType, ControlKept, HandlesKept DEF Inv

-----------------------------------------------------------------------------
(* Theorems *)

LEMMA Invariance == Spec => []Inv
  BY InitInv, NextInv, PTL DEF Spec

\* Whoever edits the host and whatever fails, the module's state stays well
\* typed, and a name never belongs to two domains.
THEOREM TypeCorrect == Spec => []TypeOK
<1>1. Inv => TypeOK
  BY DEF Inv
<1> QED
  BY <1>1, Invariance, PTL

\* Only the five mutating calls change the host.
LEMMA CallWrites ==
  ASSUME Inv, Module, host' # host
  PROVE  pc \in {"absDestroy", "absUndefine", "define", "setAutostart", "drive"}
  BY DEF Module, Reconcile, NextItem, FinishRun, Exit, ValidateSpec, LookupDomain,
     AlreadyAbsent, WouldUndefine, AbsentIsActive, AbsentDestroy, AbsentUndefine,
     BuildXml, ReadDefinition, DefineDomain, CompareDefinition, ReadAutostart,
     SetAutostart, ReadActive, ReadState, ApplyRunState, FactState, FactActive,
     FactAutostart, FactPersistent, Raise, CallFails, Read, Observe

LEMMA DryStep ==
  ASSUME Inv, Module, check
  PROVE  UNCHANGED host
<1>1. CASE pc = "drive"
  BY <1>1 DEF Module, Reconcile, NextItem, FinishRun, ValidateSpec,
     LookupDomain, AlreadyAbsent, WouldUndefine, AbsentIsActive, AbsentDestroy,
     AbsentUndefine, BuildXml, ReadDefinition, DefineDomain, CompareDefinition,
     ReadAutostart, SetAutostart, ReadActive, ReadState, ApplyRunState, FactState,
     FactActive, FactAutostart, FactPersistent, Observe
<1>2. CASE pc # "drive"
  BY <1>2, CallWrites DEF Inv, Control, Writing
<1> QED
  BY <1>1, <1>2

\* Check mode never touches the host.
THEOREM CheckModeInert == Spec => CheckInert
<1>1. Inv /\ [Next]_vars => [Module /\ check => UNCHANGED host]_vars
  BY DryStep
<1> QED
  BY <1>1, Invariance, PTL DEF Spec, CheckInert

\* The module changes no domain but its item's, and takes a persistent one away
\* only for "absent".
Respects ==
  \A u \in UUIDs : host'[u] # host[u] =>
    /\ host[u] # None => host[u].name = Item.name
    /\ host'[u] # None => host'[u].name = Item.name
    /\ host'[u] = None => Item.state = "absent" \/ ~host[u].persistent

LEMMA ModuleRespects ==
  ASSUME Inv, Module
  PROVE  Respects
<1>0. ASSUME UNCHANGED host PROVE Respects
  BY <1>0 DEF Respects
<1>1. ASSUME NEW u \in UUIDs, NEW d, Mutate(u, d),
             host[u] # None => host[u].name = Item.name,
             d # None => d.name = Item.name,
             d = None => Item.state = "absent" \/ ~host[u].persistent
      PROVE  Respects
  <2>1. host' = [host EXCEPT ![u] = d] /\ host \in [UUIDs -> Maybe(Domain)]
    BY <1>1 DEF Mutate, Inv, TypeOK, SaneHost
  <2> QED
    BY <1>1, <2>1 DEF Respects
<1>2. ASSUME NEW u \in {loc.existing, loc.dom}, Exists(u), NEW d, Mutate(u, d),
             Replaces(d, host[u]),
             d = None => Item.state = "absent" \/ ~host[u].persistent
      PROVE  Respects
  BY <1>1, <1>2, HandleDomain DEF Replaces
<1>3. ASSUME NEW u \in {loc.existing, loc.dom}, Exists(u)
      PROVE  u \in UUIDs /\ host[u] \in Domain
             /\ (~host[u].persistent => host[u].run # "shutoff")
  BY <1>3, HandleDomain
<1>4. CASE AbsentDestroy
  <2>1. Item.state = "absent"
    BY <1>4 DEF AbsentDestroy, Inv, Control, Removing
  <2> QED
    BY <1>0, <1>2, <1>3, <1>4, <2>1, StoppedReplaces
       DEF AbsentDestroy, Call, CallFails, Observe
<1>5. CASE AbsentUndefine
  <2>1. Item.state = "absent"
    BY <1>5 DEF AbsentUndefine, Inv, Control, Removing
  <2> QED
    BY <1>0, <1>2, <1>3, <1>5, <2>1, UndefinedReplaces
       DEF AbsentUndefine, CallFails, Observe
<1>6. CASE DefineDomain
  <2>1. ASSUME NEW u \in DefineTargets(Item.name, IncomingUuid), NEW macs,
               macs \in Filled(CarryOver(Item.macs, loc.before)),
               Mutate(u, DefinedAs(u, Item.name, Item.cfg, macs))
        PROVE  Respects
    <3>1. /\ u \in UUIDs /\ host'[u].name = Item.name
          /\ host[u] # None => host[u].name = Item.name
          /\ host'[u] # None /\ host'[u] = DefinedAs(u, Item.name, Item.cfg, macs)
      BY <1>6, <2>1, DefineStep DEF DefineDomain, Inv
    <3> QED
      BY <1>1, <2>1, <3>1
  <2> QED
    BY <1>0, <1>6, <2>1 DEF DefineDomain, CallFails, Observe
<1>7. CASE SetAutostart
  <2> DEFINE d == loc.dom
             flagged == [host[d] EXCEPT !.autostart = Item.autostart]
  <2>1. Item.autostart \in BOOLEAN
    BY <1>7, ItemType DEF SetAutostart, Inv, Control, DomainSpec, Maybe
  <2>2. Exists(d) => Replaces(flagged, host[d]) /\ flagged # None
    BY <1>3, <2>1, NoneAssumption DEF Replaces, Maybe, Domain
  <2>3. UNCHANGED host \/ (Exists(d) /\ Mutate(d, flagged))
    BY <1>7 DEF SetAutostart, Call, CallFails, Observe
  <2> HIDE DEF flagged
  <2> QED
    BY <1>0, <1>2, <2>2, <2>3
<1>8. CASE ApplyRunState
  <2> DEFINE d == loc.dom
             driven == Effect(Operation, host[d])
  <2>1. UNCHANGED host \/ (Exists(d) /\ Accepts(Operation, host[d]) /\ Mutate(d, driven))
    BY <1>8 DEF ApplyRunState, Call, CallFails, Observe
  <2>2. Exists(d) /\ Accepts(Operation, host[d]) => Replaces(driven, host[d])
    BY <1>3, EffectReplaces
  <2>3. Exists(d) /\ Accepts(Operation, host[d]) /\ driven = None => ~host[d].persistent
    <3> SUFFICES ASSUME Exists(d), Accepts(Operation, host[d]), driven = None
                 PROVE  ~host[d].persistent
      OBVIOUS
    <3>1. host[d] \in Domain
      BY <1>3
    <3>2. CASE Operation = "destroy"
      BY <3>1, <3>2, NoneAssumption DEF Effect, Stopped, Domain, RunStates
    <3>3. CASE Operation # "destroy"
      <4>1. driven \in Domain
        BY <3>1, <3>3 DEF Effect, Accepts, Operation, Domain, RunStates
      <4> QED
        BY <4>1, NoneAssumption
    <3> QED
      BY <3>2, <3>3
  <2> HIDE DEF driven
  <2> QED
    BY <1>0, <1>2, <2>1, <2>2, <2>3
<1> QED
  BY <1>0, <1>4, <1>5, <1>6, <1>7, <1>8
     DEF Module, Reconcile, NextItem, FinishRun, Exit, ValidateSpec, LookupDomain,
     AlreadyAbsent, WouldUndefine, AbsentIsActive, BuildXml, ReadDefinition,
     CompareDefinition, ReadAutostart, ReadActive, ReadState, FactState, FactActive,
     FactAutostart, FactPersistent, Raise, CallFails, Read, Observe

\* The module touches only its item's domain, whatever other clients did since it
\* looked the domain up.
THEOREM TouchesOnlyAsked == Spec => OnlyAsked
<1>1. Inv /\ [Next]_vars => [Module => Respects]_vars
  BY ModuleRespects
<1> QED
  BY <1>1, Invariance, PTL DEF Spec, OnlyAsked, Respects

-----------------------------------------------------------------------------
(* What an undisturbed item achieves and reports *)

\* The domains of the item's name; there is at most one.
Own(h) == [u \in {v \in UUIDs : h[v] # None /\ h[v].name = Item.name} |-> h[u]]

XmlIn(d) == [cfg |-> d.cfg, macs |-> d.macs]

\* The definition the item asks for.
Defined(u, d) ==
  /\ d.persistent
  /\ Item.uuid \in {None, u}
  /\ d.cfg = Item.cfg
  /\ Len(d.macs) = Len(Item.macs)
  /\ \A k \in 1..Len(Item.macs) : Item.macs[k] \in {None, d.macs[k]}

Flagged(d) == Item.autostart \in {None, d.autostart}

InRunState(d) ==
  /\ Item.state = "running" => d.run \in {"running", "pmsuspended"}
  /\ Item.state = "paused" => d.run # "running"
  /\ Item.state = "shutdown" => d.run = "shutoff" \/ d.acpi
  /\ Item.state = "destroyed" => d.run = "shutoff"

\* Control points by what has been done before them.
Untouching == {"validate", "lookup", "gone", "absActive", "absDestroy", "build",
               "xmlDesc", "define"}
FactPoints == {"factState", "factActive", "factAutostart", "factPersistent"}
Driving == {"isActive", "state", "drive"}
Holding == {"autostart", "setAutostart"} \cup Driving \cup FactPoints

-----------------------------------------------------------------------------
(* What is known at each control point, conjunct by conjunct: c is the      *)
(* control point, l the locals, own the item's domain, t whether the item   *)
(* has touched the host.                                                    *)

\* Nothing has been changed or reported yet.
Clean(c, l, t) ==
  /\ c \in Untouching => ~t /\ ~l.changed /\ (c # "define" => l.before = None)
  /\ c \in {"validate", "lookup"} => l.existing = None

\* Which domain the lookup found, and which one a handle names.
Located(c, l, own) ==
  /\ c = "gone" => DOMAIN own = {}
  /\ c = "would" => check
  /\ c \in {"absActive", "absDestroy", "xmlDesc"} => l.existing \in DOMAIN own
  /\ c = "absUndefine" =>
       (l.existing \in DOMAIN own => own[l.existing].run = "shutoff")
  /\ c \in {"build", "define"} =>
       IF l.existing = None THEN DOMAIN own = {} ELSE l.existing \in DOMAIN own
  /\ c \in Holding \cup {"newXml"} => l.dom \in DOMAIN own
  /\ c \in Holding \cup {"build", "xmlDesc", "define", "newXml"} => Item.state # "absent"

\* The definition read before the redefinition is the domain's.
Compared(c, l, own, t) ==
  /\ c = "define" =>
       IF l.existing = None THEN l.before = None
       ELSE l.before = XmlIn(own[l.existing]) /\ Item.uuid \in {None, l.existing}
  /\ c = "newXml" => /\ Defined(l.dom, own[l.dom])
                     /\ t = (XmlIn(own[l.dom]) # l.before)

\* What has been reached, and whether it has been counted.
Achieved(c, l, own, t) ==
  ~check =>
    /\ c \in Holding => Defined(l.dom, own[l.dom])
    /\ c = "setAutostart" => own[l.dom].autostart # Item.autostart
    /\ c \in Driving \cup FactPoints => Flagged(own[l.dom])
    /\ c \in FactPoints => InRunState(own[l.dom])
    /\ c \in Holding \ FactPoints => l.changed = t
    /\ c \in FactPoints => l.changed = t \/ (Item.state = "shutdown" /\ l.changed)

\* What the reads answered still holds.
Fresh(c, l, own) ==
  /\ c \in Driving => Item.state # "present"
  /\ c = "state" => l.active /\ own[l.dom].run # "shutoff"
  /\ c = "drive" => /\ l.active = (own[l.dom].run # "shutoff")
                    /\ l.active => l.run = own[l.dom].run
  /\ c \in FactPoints \ {"factState"} => l.facts.run = own[l.dom].run
  /\ c \in {"factAutostart", "factPersistent"} =>
       l.facts.active = (own[l.dom].run # "shutoff")
  /\ c = "factPersistent" => l.facts.autostart = own[l.dom].autostart

At(c, l, own, t) ==
  /\ Clean(c, l, t)
  /\ Located(c, l, own)
  /\ Compared(c, l, own, t)
  /\ Achieved(c, l, own, t)
  /\ Fresh(c, l, own)

\* What a result without failure may claim.
FactsOf(facts, d) ==
  facts = [run |-> d.run, active |-> d.run # "shutoff", autostart |-> d.autostart,
           persistent |-> d.persistent]

Known(e, own) ==
  Item.state # "absent" =>
    IF e.facts = None THEN DOMAIN own = {}
    ELSE \E u \in DOMAIN own : FactsOf(e.facts, own[u])

Reached(own) ==
  IF Item.state = "absent" THEN DOMAIN own = {}
  ELSE \E u \in DOMAIN own :
         Defined(u, own[u]) /\ Flagged(own[u]) /\ InRunState(own[u])

Counted(e, t) == e.changed = t \/ (Item.state = "shutdown" /\ e.changed)

Ended(e, own, t) ==
  ~e.failed => Known(e, own) /\ (~check => Reached(own) /\ Counted(e, t))

Outcome ==
  pc # "idle" /\ ~disturbed =>
    IF pc = "next" THEN Ended(entries[i], Own(host), touched)
    ELSE At(pc, loc, Own(host), touched)

\* The same of the state a step of the item leads to.
Onward ==
  IF pc' = "next" THEN Ended(entries'[i], Own(host'), touched')
  ELSE At(pc', loc', Own(host'), touched')

\* Where the item is, as a premise.
Here == Inv /\ pc \in Busy /\ At(pc, loc, Own(host), touched)

-----------------------------------------------------------------------------
(* The item's domain *)

LEMMA OwnDomain ==
  ASSUME Inv
  PROVE  /\ DOMAIN Own(host) = {v \in UUIDs : host[v] # None /\ host[v].name = Item.name}
         /\ \A u \in DOMAIN Own(host) :
              /\ u \in UUIDs /\ u # None /\ host[u] # None /\ Own(host)[u] = host[u]
              /\ host[u] \in Domain /\ host[u].name = Item.name
              /\ \A v \in DOMAIN Own(host) : u = v
<1>1. SaneHost(host)
  BY DEF Inv, TypeOK
<1> QED
  BY <1>1, NoneAssumption DEF Own, SaneHost, Maybe

\* A handle that denotes a domain denotes the item's.
LEMMA HandleOwn ==
  ASSUME Inv, NEW u \in {loc.existing, loc.dom}
  PROVE  /\ Exists(u) <=> u \in DOMAIN Own(host)
         /\ Exists(u) => Own(host)[u] = host[u] /\ XmlOf(u) = XmlIn(Own(host)[u])
<1>1. Exists(u) => u \in DOMAIN Own(host)
  BY HandleDomain, OwnDomain DEF Exists
<1>2. u \in DOMAIN Own(host) => Exists(u) /\ Own(host)[u] = host[u]
  BY OwnDomain DEF Exists
<1> QED
  BY <1>1, <1>2 DEF XmlOf, XmlIn

LEMMA NamedOwn ==
  ASSUME Inv
  PROVE  Named(Item.name) = DOMAIN Own(host)
  BY OwnDomain DEF Named

\* The item's domain once slot u has become d.
LEMMA OwnReplaced ==
  ASSUME Inv, NEW u \in UUIDs, NEW d, DOMAIN Own(host) \subseteq {u},
         d # None => d.name = Item.name,
         host' = [host EXCEPT ![u] = d]
  PROVE  /\ d = None => DOMAIN Own(host') = {}
         /\ d # None => DOMAIN Own(host') = {u} /\ Own(host')[u] = d
<1>1. host \in [UUIDs -> Maybe(Domain)]
  BY DEF Inv, TypeOK, SaneHost
<1>2. host'[u] = d /\ \A v \in UUIDs \ {u} : host'[v] = host[v]
  BY <1>1
<1>3. \A v \in UUIDs \ {u} : ~(host[v] # None /\ host[v].name = Item.name)
  BY OwnDomain
<1>4. DOMAIN Own(host') = {v \in UUIDs : host'[v] # None /\ host'[v].name = Item.name}
  BY DEF Own
<1>5. \A v \in DOMAIN Own(host') : Own(host')[v] = host'[v]
  BY DEF Own
<1>6. CASE d = None
  BY <1>2, <1>3, <1>4, <1>6
<1>7. CASE d # None
  <2>1. DOMAIN Own(host') = {u}
    BY <1>2, <1>3, <1>4, <1>7
  <2> QED
    BY <1>2, <1>5, <1>7, <2>1
<1> QED
  BY <1>6, <1>7

Shown(d) == IF d = None THEN None ELSE [d EXCEPT !.persistent = TRUE]

\* Whether a replacement counts as touching the host.
LEMMA TouchedBy ==
  ASSUME Inv, NEW u \in UUIDs, NEW d, Mutate(u, d)
  PROVE  /\ touched' \in BOOLEAN
         /\ touched' <=> touched \/ Shown(d) # Shown(host[u])
<1>1. host \in [UUIDs -> Maybe(Domain)] /\ touched \in BOOLEAN
  BY DEF Inv, TypeOK, SaneHost
<1>2. host' = [host EXCEPT ![u] = d] /\ touched' = (touched \/ Visible(host') # Visible(host))
  BY DEF Mutate
<1>3. host'[u] = d /\ \A v \in UUIDs \ {u} : host'[v] = host[v]
  BY <1>1, <1>2
<1>4. \A h : Visible(h) = [v \in UUIDs |-> Shown(h[v])]
  BY DEF Visible, Shown
<1>5. Visible(host') # Visible(host) <=> Shown(d) # Shown(host[u])
  <2>1. CASE Shown(d) = Shown(host[u])
    <3>1. \A v \in UUIDs : Shown(host'[v]) = Shown(host[v])
      BY <1>3, <2>1
    <3>2. [v \in UUIDs |-> Shown(host'[v])] = [v \in UUIDs |-> Shown(host[v])]
      BY <3>1
    <3> QED
      BY <1>4, <2>1, <3>2
  <2>2. CASE Shown(d) # Shown(host[u])
    <3>1. Visible(host')[u] = Shown(d) /\ Visible(host)[u] = Shown(host[u])
      BY <1>3, <1>4
    <3> QED
      BY <2>2, <3>1
  <2> QED
    BY <2>1, <2>2
<1> QED
  BY <1>1, <1>2, <1>5

-----------------------------------------------------------------------------
(* Shapes of steps *)

LEMMA EndsWith ==
  ASSUME Inv, pc \in Busy, NEW e, EndItem(e)
  PROVE  pc' = "next" /\ entries'[i] = e
<1>1. i \in Nat /\ entries \in Seq(Entry) /\ Len(entries) = i - 1
  BY DEF Inv, TypeOK, Busy
<1> QED
  BY <1>1 DEF EndItem

LEMMA CallFailsOnward ==
  ASSUME Here, NEW possible, CallFails(possible)
  PROVE  Onward
  BY EndsWith DEF Here, CallFails, Raised, Onward, Ended

LEMMA RaiseOnward ==
  ASSUME Here, Raise
  PROVE  Onward
  BY EndsWith DEF Here, Raise, Raised, Onward, Ended

\* An item that ends without touching the host any more.
LEMMA QuietEndOnward ==
  ASSUME Here, NEW e, EndItem(e), Observe, Ended(e, Own(host), touched)
  PROVE  Onward
<1>1. pc' = "next" /\ entries'[i] = e
  BY EndsWith DEF Here
<1>2. host' = host /\ touched' = touched
  BY DEF Observe
<1> QED
  BY <1>1, <1>2 DEF Onward

LEMMA QuietOnward ==
  ASSUME Here, NEW to, to # "next", Continue(to), Observe,
         At(to, loc', Own(host), touched)
  PROVE  Onward
<1>1. host' = host /\ touched' = touched /\ pc' = to
  BY DEF Observe, Continue
<1> QED
  BY <1>1 DEF Onward

LEMMA ReadOnward ==
  ASSUME Here, NEW to, to # "next", NEW u, NEW new, Read(to, u, new),
         Exists(u) => At(to, new, Own(host), touched)
  PROVE  Onward
<1>1. CASE Exists(u) /\ Continue(to) /\ Observe /\ loc' = new
  BY <1>1, QuietOnward
<1> QED
  BY <1>1, CallFailsOnward DEF Read

LEMMA CallOnward ==
  ASSUME Here, NEW to, to # "next", NEW u, NEW possible, NEW d, NEW new,
         Call(to, u, possible, d, new),
         possible /\ Mutate(u, d) => At(to, new, Own(host'), touched')
  PROVE  Onward
<1>1. CASE possible /\ Continue(to) /\ Mutate(u, d) /\ loc' = new
  BY <1>1 DEF Onward, Continue
<1> QED
  BY <1>1, CallFailsOnward DEF Call

-----------------------------------------------------------------------------
(* The actions *)

\* The locals as a record, one field at a time.
LEMMA LocalsType ==
  ASSUME Inv
  PROVE  /\ loc \in Locals
         /\ loc.facts \in Facts
         /\ loc.changed \in BOOLEAN /\ loc.active \in BOOLEAN /\ touched \in BOOLEAN
  BY DEF Inv, TypeOK, Locals

LEMMA ValidateSpecOnward ==
  ASSUME Here, ValidateSpec
  PROVE  Onward
<1>1. CASE Continue("lookup") /\ Observe /\ UNCHANGED loc
  <2>1. At("lookup", loc', Own(host), touched)
    BY <1>1 DEF ValidateSpec, Here, At, Clean, Located, Compared, Achieved, Fresh,
       Untouching, FactPoints, Driving, Holding
  <2> QED
    BY <1>1, <2>1, QuietOnward
<1> QED
  BY <1>1, RaiseOnward DEF ValidateSpec

LEMMA LookupDomainOnward ==
  ASSUME Here, LookupDomain
  PROVE  Onward
<1>1. ASSUME NEW e \in (IF Named(Item.name) = {} THEN {None} ELSE Named(Item.name)),
             Continue(AfterLookup(e)), loc' = [loc EXCEPT !.existing = e], Observe
      PROVE  Onward
  <2>1. Named(Item.name) = DOMAIN Own(host)
    BY NamedOwn DEF Here
  <2>2. IF e = None THEN DOMAIN Own(host) = {} ELSE e \in DOMAIN Own(host)
    BY <1>1, <2>1, OwnDomain DEF Here
  <2>3. /\ loc'.existing = e /\ loc'.before = loc.before /\ loc'.changed = loc.changed
    BY <1>1, LocalsType DEF Here, Locals
  <2>4. AfterLookup(e) = IF Item.state # "absent" THEN "build"
                         ELSE IF e = None THEN "gone"
                         ELSE IF check THEN "would" ELSE "absActive"
    BY DEF AfterLookup
  <2>5. At(AfterLookup(e), loc', Own(host), touched)
    BY <1>1, <2>2, <2>3, <2>4 DEF LookupDomain, Here, At, Clean, Located, Compared,
       Achieved, Fresh, Untouching, FactPoints, Driving, Holding
  <2> QED
    BY <1>1, <2>4, <2>5, QuietOnward
<1> QED
  BY <1>1, CallFailsOnward DEF LookupDomain

LEMMA AbsentOnward ==
  ASSUME Here, AlreadyAbsent \/ WouldUndefine \/ AbsentIsActive
  PROVE  Onward
<1>1. pc \in Removing /\ Item.state = "absent"
  BY DEF Here, Inv, Control, Removing, AlreadyAbsent, WouldUndefine, AbsentIsActive
<1>2. CASE AlreadyAbsent
  <2>1. Ended(Ok(FALSE, None), Own(host), touched)
    BY <1>1, <1>2, LocalsType DEF AlreadyAbsent, Here, At, Clean, Located, Untouching,
       Ended, Known, Reached, Counted, Ok
  <2> QED
    BY <1>2, <2>1, QuietEndOnward DEF AlreadyAbsent
<1>3. CASE WouldUndefine
  <2>1. Ended(Ok(TRUE, None), Own(host), touched)
    BY <1>1, <1>3 DEF WouldUndefine, Here, At, Located, Ended, Known, Ok
  <2> QED
    BY <1>3, <2>1, QuietEndOnward DEF WouldUndefine
<1>4. CASE AbsentIsActive
  <2> DEFINE to == IF Exists(loc.existing) /\ IsActive(loc.existing)
                   THEN "absDestroy" ELSE "absUndefine"
  <2>1. Exists(loc.existing) => At(to, loc, Own(host), touched)
    BY <1>4, HandleOwn DEF AbsentIsActive, Here, At, Clean, Located, Compared,
       Achieved, Fresh, Untouching, FactPoints, Driving, Holding, IsActive
  <2> QED
    BY <1>4, <2>1, ReadOnward DEF AbsentIsActive
<1> QED
  BY <1>2, <1>3, <1>4

LEMMA OwnExisting ==
  ASSUME Here, NEW u \in UUIDs, u \in DOMAIN Own(host)
  PROVE  /\ host[u] \in Domain /\ host[u] # None /\ host[u].name = Item.name
         /\ Own(host)[u] = host[u]
         /\ DOMAIN Own(host) \subseteq {u}
  BY OwnDomain DEF Here

LEMMA AbsentDestroyOnward ==
  ASSUME Here, AbsentDestroy
  PROVE  Onward
<1> DEFINE e == loc.existing
<1>1. Item.state = "absent" /\ ~check
  BY DEF Here, Inv, Control, Removing, Writing, AbsentDestroy
<1>2. ASSUME Exists(e), Mutate(e, Stopped(host[e]))
      PROVE  At("absUndefine", loc, Own(host'), touched')
  <2>1. e \in UUIDs /\ e \in DOMAIN Own(host)
    BY <1>2, HandleOwn, OwnDomain DEF Here
  <2>2. host[e] \in Domain /\ host[e].name = Item.name /\ DOMAIN Own(host) \subseteq {e}
    BY <2>1, OwnExisting
  <2> DEFINE d == Stopped(host[e])
  <2>3. d # None => d.name = Item.name /\ d.run = "shutoff"
    BY <2>2 DEF Stopped, Domain, RunStates
  <2>4. host' = [host EXCEPT ![e] = d]
    BY <1>2 DEF Mutate
  <2> HIDE DEF d
  <2>5. e \in DOMAIN Own(host') => Own(host')[e].run = "shutoff"
    BY <2>1, <2>2, <2>3, <2>4, OwnReplaced DEF Here
  <2> QED
    BY <2>5 DEF At, Clean, Located, Compared, Achieved, Fresh, Untouching, FactPoints,
       Driving, Holding
<1> QED
  BY <1>2, CallOnward DEF AbsentDestroy

LEMMA AbsentUndefineOnward ==
  ASSUME Here, AbsentUndefine
  PROVE  Onward
<1> DEFINE e == loc.existing
<1>1. Item.state = "absent" /\ ~check
  BY DEF Here, Inv, Control, Removing, Writing, AbsentUndefine
<1>2. ASSUME Exists(e), EndItem(Ok(TRUE, None)), Mutate(e, Undefined(host[e]))
      PROVE  Onward
  <2>1. e \in UUIDs /\ e \in DOMAIN Own(host) /\ host[e] # None
    BY <1>2, HandleOwn, OwnDomain DEF Here
  <2>2. DOMAIN Own(host) \subseteq {e} /\ Own(host)[e] = host[e] /\ host[e] \in Domain
    BY <2>1, OwnExisting
  <2>3. Undefined(host[e]) = None
    BY <2>1, <2>2 DEF AbsentUndefine, Here, At, Located, Undefined
  <2>4. host' = [host EXCEPT ![e] = None]
    BY <1>2, <2>3 DEF Mutate
  <2>5. DOMAIN Own(host') = {}
    BY <2>1, <2>2, <2>4, OwnReplaced DEF Here
  <2>6. Shown(host[e]) # None
    <3>1. [host[e] EXCEPT !.persistent = TRUE] \in Domain
      BY <2>2 DEF Domain
    <3> QED
      BY <2>1, <3>1, NoneAssumption DEF Shown
  <2>7. touched' = TRUE
    BY <1>2, <2>1, <2>3, <2>6, TouchedBy DEF Here, Shown
  <2>8. pc' = "next" /\ entries'[i] = Ok(TRUE, None)
    BY <1>2, EndsWith DEF Here
  <2> QED
    BY <1>1, <2>5, <2>7, <2>8 DEF Onward, Ended, Known, Reached, Counted, Ok
<1> QED
  BY <1>2, CallFailsOnward DEF AbsentUndefine

LEMMA BuildXmlOnward ==
  ASSUME Here, BuildXml
  PROVE  Onward
<1>1. CASE /\ Continue(IF loc.existing = None THEN "define" ELSE "xmlDesc")
           /\ Observe /\ UNCHANGED loc /\ (loc.existing # None \/ ~check)
  <2> DEFINE to == IF loc.existing = None THEN "define" ELSE "xmlDesc"
  <2>1. CASE loc.existing = None
    <3>1. At("define", loc', Own(host), touched)
      BY <1>1, <2>1 DEF BuildXml, Here, At, Clean, Located, Compared, Achieved, Fresh,
         Untouching, FactPoints, Driving, Holding
    <3> QED
      BY <1>1, <2>1, <3>1, QuietOnward
  <2>2. CASE loc.existing # None
    <3>1. At("xmlDesc", loc', Own(host), touched)
      BY <1>1, <2>2 DEF BuildXml, Here, At, Clean, Located, Compared, Achieved, Fresh,
         Untouching, FactPoints, Driving, Holding
    <3> QED
      BY <1>1, <2>2, <3>1, QuietOnward
  <2> QED
    BY <2>1, <2>2
<1>2. CASE loc.existing = None /\ check /\ EndItem(Ok(TRUE, None)) /\ Observe
  <2>1. Ended(Ok(TRUE, None), Own(host), touched)
    BY <1>2 DEF BuildXml, Here, At, Located, Ended, Known, Ok
  <2> QED
    BY <1>2, <2>1, QuietEndOnward
<1> QED
  BY <1>1, <1>2, RaiseOnward DEF BuildXml

LEMMA ReadDefinitionOnward ==
  ASSUME Here, ReadDefinition
  PROVE  Onward
<1> DEFINE e == loc.existing
<1>1. ASSUME Exists(e), Item.uuid \in {None, e},
             Continue(IF check THEN "autostart" ELSE "define"), Observe,
             loc' = [loc EXCEPT !.before = XmlOf(e), !.dom = IF check THEN e ELSE None]
      PROVE  Onward
  <2>1. /\ loc'.existing = e /\ loc'.before = XmlIn(Own(host)[e]) /\ (check => loc'.dom = e)
        /\ loc'.changed = loc.changed
    BY <1>1, LocalsType, HandleOwn DEF Here, Locals
  <2>2. e \in DOMAIN Own(host) /\ e # None
    BY <1>1, HandleOwn DEF Here, Exists
  <2>3. CASE check
    <3>1. At("autostart", loc', Own(host), touched)
      BY <1>1, <2>1, <2>2, <2>3 DEF ReadDefinition, Here, At, Clean, Located, Compared,
         Achieved, Fresh, Untouching, FactPoints, Driving, Holding
    <3> QED
      BY <1>1, <2>3, <3>1, QuietOnward
  <2>4. CASE ~check
    <3>1. At("define", loc', Own(host), touched)
      BY <1>1, <2>1, <2>2, <2>4 DEF ReadDefinition, Here, At, Clean, Located, Compared,
         Achieved, Fresh, Untouching, FactPoints, Driving, Holding
    <3> QED
      BY <1>1, <2>4, <3>1, QuietOnward
  <2> QED
    BY <2>3, <2>4
<1> QED
  BY <1>1, RaiseOnward, CallFailsOnward DEF ReadDefinition

\* What the redefinition makes of the addresses: those asked for, and those the
\* interfaces had.
LEMMA FilledMacs ==
  ASSUME Here, pc = "define", NEW macs \in Filled(CarryOver(Item.macs, loc.before))
  PROVE  /\ Len(macs) = Len(Item.macs) /\ DOMAIN macs = 1..Len(Item.macs)
         /\ \A k \in 1..Len(Item.macs) :
              /\ Item.macs[k] \in {None, macs[k]}
              /\ loc.existing # None /\ Item.macs[k] = None
                 /\ k \in DOMAIN host[loc.existing].macs =>
                   macs[k] = host[loc.existing].macs[k]
<1> DEFINE asked == CarryOver(Item.macs, loc.before)
<1>1. Item.macs \in Seq(Maybe(Macs)) /\ Len(Item.macs) \in Nat
  BY ItemType DEF Here, Inv, Busy, DomainSpec
<1>2. CASE loc.existing = None
  <2>1. asked = Item.macs
    BY <1>2 DEF Here, At, Compared, CarryOver
  <2> QED
    BY <1>1, <1>2, <2>1 DEF Filled
<1>3. CASE loc.existing # None
  <2>1. /\ loc.existing \in UUIDs /\ loc.existing \in DOMAIN Own(host)
        /\ loc.before = XmlIn(Own(host)[loc.existing])
    BY <1>3, OwnDomain DEF Here, At, Located, Compared
  <2>2. /\ host[loc.existing] \in Domain
        /\ loc.before = [cfg |-> host[loc.existing].cfg, macs |-> host[loc.existing].macs]
    BY <2>1, OwnExisting DEF XmlIn
  <2>3. loc.before \in Xml /\ loc.before.macs = host[loc.existing].macs
    BY <2>2 DEF Domain, Xml
  <2>4. loc.before # None /\ loc.before.macs \in Seq(Macs)
    BY <2>3, NoneAssumption DEF Xml
  <2> DEFINE had == loc.before.macs
  <2>5. asked = [k \in 1..Len(Item.macs) |->
                   IF Item.macs[k] # None \/ k > Len(had) THEN Item.macs[k] ELSE had[k]]
    BY <2>4 DEF CarryOver
  <2>6. Len(asked) = Len(Item.macs)
    BY <1>1, <2>5
  <2>7. /\ macs \in [1..Len(Item.macs) -> Macs]
        /\ \A k \in 1..Len(Item.macs) : asked[k] # None => macs[k] = asked[k]
    BY <2>6 DEF Filled
  <2>8. ASSUME NEW k \in 1..Len(Item.macs), Item.macs[k] = None, k \in DOMAIN had
        PROVE  macs[k] = had[k]
    <3>1. k <= Len(had) /\ had[k] \in Macs
      BY <2>4, <2>8
    <3>2. asked[k] = had[k] /\ asked[k] # None
      BY <2>5, <2>8, <3>1, NoneAssumption
    <3> QED
      BY <2>7, <3>2
  <2>9. ASSUME NEW k \in 1..Len(Item.macs), Item.macs[k] # None
        PROVE  macs[k] = Item.macs[k]
    BY <2>5, <2>7, <2>9
  <2>10. Len(macs) = Len(Item.macs) /\ DOMAIN macs = 1..Len(Item.macs)
    BY <1>1, <2>7
  <2> QED
    BY <2>3, <2>8, <2>9, <2>10
<1> QED
  BY <1>2, <1>3

LEMMA SameDomain ==
  ASSUME NEW x \in Domain, NEW y \in Domain,
         x.name = y.name, x.cfg = y.cfg, x.macs = y.macs, x.run = y.run,
         x.acpi = y.acpi, x.autostart = y.autostart, x.persistent = y.persistent
  PROVE  x = y
  BY DEF Domain

\* A definition shows in the host exactly when the XML differs or is new.
LEMMA DefinedShows ==
  ASSUME Here, NEW u \in UUIDs, NEW macs \in Seq(Macs), host[u] \in Maybe(Domain)
  PROVE  LET d == DefinedAs(u, Item.name, Item.cfg, macs)
         IN  /\ d.macs = macs /\ d.cfg = Item.cfg /\ d.persistent /\ d # None
             /\ d.name = IF host[u] = None THEN Item.name ELSE host[u].name
             /\ host[u] = None => Shown(d) # Shown(host[u])
             /\ host[u] # None => (Shown(d) # Shown(host[u]) <=> XmlIn(d) # XmlIn(host[u]))
<1> DEFINE d == DefinedAs(u, Item.name, Item.cfg, macs)
<1>1. Item.name \in Names /\ Item.cfg \in Cfgs
  BY ItemType DEF Here, Inv, Busy, DomainSpec
<1>2. CASE host[u] = None
  <2>1. /\ d \in Domain /\ d.macs = macs /\ d.cfg = Item.cfg /\ d.persistent
        /\ d.name = Item.name
    BY <1>1, <1>2 DEF DefinedAs, Domain, RunStates
  <2>2. d # None
    BY <2>1, NoneAssumption
  <2>3. Shown(d) \in Domain
    BY <2>1, <2>2 DEF Shown, Domain
  <2> QED
    BY <1>2, <2>1, <2>2, <2>3, NoneAssumption DEF Shown
<1>3. CASE host[u] # None
  <2>0. host[u] \in Domain
    BY <1>3 DEF Maybe
  <2>1. /\ d \in Domain /\ d.macs = macs /\ d.cfg = Item.cfg /\ d.persistent
        /\ d.name = host[u].name
        /\ d = [host[u] EXCEPT !.cfg = Item.cfg, !.macs = macs, !.persistent = TRUE]
    BY <1>1, <1>3, <2>0 DEF DefinedAs, Domain
  <2>2. d # None
    BY <2>1, NoneAssumption
  <2>3. /\ Shown(d) = [d EXCEPT !.persistent = TRUE]
        /\ Shown(host[u]) = [host[u] EXCEPT !.persistent = TRUE]
    BY <1>3, <2>2 DEF Shown
  <2>4. Shown(d) = [host[u] EXCEPT !.cfg = Item.cfg, !.macs = macs, !.persistent = TRUE]
    BY <2>0, <2>1, <2>3 DEF Domain
  <2>5. /\ Shown(d).cfg = Item.cfg /\ Shown(d).macs = macs
        /\ Shown(host[u]).cfg = host[u].cfg /\ Shown(host[u]).macs = host[u].macs
    BY <2>0, <2>3, <2>4 DEF Domain
  <2>6. XmlIn(d) = XmlIn(host[u]) <=> Item.cfg = host[u].cfg /\ macs = host[u].macs
    BY <2>1 DEF XmlIn
  <2>7. CASE Item.cfg = host[u].cfg /\ macs = host[u].macs
    <3>1. Shown(d) \in Domain /\ Shown(host[u]) \in Domain
      BY <1>1, <2>0, <2>3, <2>4 DEF Domain
    <3>2. /\ Shown(d).name = Shown(host[u]).name /\ Shown(d).run = Shown(host[u]).run
          /\ Shown(d).acpi = Shown(host[u]).acpi
          /\ Shown(d).autostart = Shown(host[u]).autostart
          /\ Shown(d).persistent = Shown(host[u]).persistent
      BY <2>0, <2>3, <2>4 DEF Domain
    <3>3. Shown(d) = Shown(host[u])
      BY <2>5, <2>7, <3>1, <3>2, SameDomain
    <3> QED
      BY <1>3, <2>1, <2>2, <2>6, <2>7, <3>3
  <2>8. CASE ~(Item.cfg = host[u].cfg /\ macs = host[u].macs)
    BY <1>3, <2>1, <2>2, <2>5, <2>6, <2>8
  <2> QED
    BY <2>7, <2>8
<1> QED
  BY <1>2, <1>3 DEF Maybe

LEMMA DefineDomainOnward ==
  ASSUME Here, DefineDomain
  PROVE  Onward
<1> DEFINE e == loc.existing
           created == e = None
<1>1. ASSUME NEW u \in DefineTargets(Item.name, IncomingUuid),
             NEW macs \in Filled(CarryOver(Item.macs, loc.before)),
             Continue(IF created THEN "autostart" ELSE "newXml"),
             Mutate(u, DefinedAs(u, Item.name, Item.cfg, macs)),
             loc' = [loc EXCEPT !.dom = u, !.defined = created, !.changed = created]
      PROVE  Onward
  <2> DEFINE d == DefinedAs(u, Item.name, Item.cfg, macs)
  <2>1. /\ pc = "define" /\ ~check /\ ~touched /\ Item.state # "absent"
        /\ loc.before \in Maybe(Xml)
    BY LocalsType DEF DefineDomain, Here, Inv, Control, Writing, At, Clean, Located,
       Untouching, Locals
  <2>2. Item.macs \in Seq(Maybe(Macs)) /\ Item.uuid \in Maybe(UUIDs)
    BY ItemType DEF Here, Inv, Busy, DomainSpec
  <2>3. macs \in Seq(Macs)
    BY <2>1, <2>2, FilledType
  <2>4. /\ u \in UUIDs /\ (host[u] # None => host[u].name = Item.name)
        /\ IF IncomingUuid = None THEN host[u] = None ELSE u = IncomingUuid
    BY DEF DefineTargets
  <2>5. host[u] \in Maybe(Domain)
    BY <2>4 DEF Here, Inv, TypeOK, SaneHost
  <2>6. Item.uuid \in {None, u} /\ (~created => u = e /\ e \in DOMAIN Own(host))
    BY <2>1, <2>4 DEF IncomingUuid, Here, At, Located, Compared
  <2>7. DOMAIN Own(host) \subseteq {u} /\ (created => host[u] = None)
    <3>1. CASE created
      <4>1. DOMAIN Own(host) = {}
        BY <2>1, <3>1 DEF Here, At, Located
      <4> QED
        BY <2>4, <4>1, OwnDomain DEF Here
    <3>2. CASE ~created
      BY <2>4, <2>6, <3>2, OwnExisting
    <3> QED
      BY <3>1, <3>2
  <2>8. /\ d.macs = macs /\ d.cfg = Item.cfg /\ d.persistent /\ d # None
        /\ d.name = Item.name
        /\ host[u] = None => Shown(d) # Shown(host[u])
        /\ host[u] # None => (Shown(d) # Shown(host[u]) <=> XmlIn(d) # XmlIn(host[u]))
    BY <2>3, <2>4, <2>5, DefinedShows
  <2>9. host' = [host EXCEPT ![u] = d]
    BY <1>1 DEF Mutate
  <2>10. touched' \in BOOLEAN /\ (touched' <=> touched \/ Shown(d) # Shown(host[u]))
    BY <1>1, <2>4, TouchedBy DEF Here
  <2> HIDE DEF d
  <2>11. DOMAIN Own(host') = {u} /\ Own(host')[u] = d
    BY <2>4, <2>7, <2>8, <2>9, OwnReplaced DEF Here
  <2>12. Defined(u, Own(host')[u])
    <3>1. /\ Len(macs) = Len(Item.macs)
          /\ \A k \in 1..Len(Item.macs) : Item.macs[k] \in {None, macs[k]}
      BY <2>1, FilledMacs
    <3> QED
      BY <2>6, <2>8, <2>11, <3>1 DEF Defined
  <2>13. loc'.dom = u /\ loc'.changed = created /\ loc'.before = loc.before
    BY <1>1, LocalsType DEF Here, Locals
  <2>14. CASE created
    <3>1. touched' = TRUE
      BY <2>7, <2>8, <2>10, <2>14
    <3>2. At("autostart", loc', Own(host'), touched')
      BY <2>1, <2>11, <2>12, <2>13, <2>14, <3>1 DEF At, Clean, Located, Compared,
         Achieved, Fresh, Untouching, FactPoints, Driving, Holding
    <3> QED
      BY <1>1, <2>14, <3>2 DEF Onward, Continue
  <2>15. CASE ~created
    <3>1. host[u] # None /\ Own(host)[u] = host[u]
      BY <2>4, <2>6, <2>15, OwnExisting
    <3>2. loc.before = XmlIn(host[u])
      BY <2>1, <2>6, <2>15, <3>1 DEF Here, At, Compared
    <3>3. touched' = (XmlIn(Own(host')[u]) # loc'.before)
      BY <2>1, <2>8, <2>10, <2>11, <2>13, <3>1, <3>2
    <3>4. At("newXml", loc', Own(host'), touched')
      BY <2>1, <2>11, <2>12, <2>13, <2>15, <3>3 DEF At, Clean, Located, Compared,
         Achieved, Fresh, Untouching, FactPoints, Driving, Holding
    <3> QED
      BY <1>1, <2>15, <3>4 DEF Onward, Continue
  <2> QED
    BY <2>14, <2>15
<1> QED
  BY <1>1, CallFailsOnward DEF DefineDomain

LEMMA CompareDefinitionOnward ==
  ASSUME Here, CompareDefinition
  PROVE  Onward
<1> DEFINE differs == Exists(loc.dom) /\ XmlOf(loc.dom) # loc.before
           new == [loc EXCEPT !.defined = differs, !.changed = differs]
<1>1. ASSUME Exists(loc.dom)
      PROVE  At("autostart", new, Own(host), touched)
  <2>1. differs = (XmlIn(Own(host)[loc.dom]) # loc.before)
    BY <1>1, HandleOwn DEF Here
  <2>2. new.dom = loc.dom /\ new.changed = differs
    BY LocalsType DEF Here, Locals
  <2>3. ~check
    BY DEF CompareDefinition, Here, Inv, Control, Writing
  <2> HIDE DEF new, differs
  <2> QED
    BY <2>1, <2>2, <2>3 DEF CompareDefinition, Here, At, Clean, Located, Compared,
       Achieved, Fresh, Untouching, FactPoints, Driving, Holding
<1> QED
  BY <1>1, ReadOnward DEF CompareDefinition

-----------------------------------------------------------------------------
(* Autostart, run state and facts *)

LEMMA AfterAutostartCases ==
  AfterAutostart = IF Item.state = "present" THEN "factState" ELSE "isActive"
  BY DEF AfterAutostart

LEMMA ReadAutostartOnward ==
  ASSUME Here, ReadAutostart
  PROVE  Onward
<1> USE DEF At, Clean, Located, Compared, Achieved, Fresh, Untouching, FactPoints,
            Driving, Holding
<1>1. pc = "autostart" /\ loc.dom \in DOMAIN Own(host)
  BY DEF ReadAutostart, Here
<1>2. CASE Item.autostart = None /\ Continue(AfterAutostart) /\ Observe /\ UNCHANGED loc
  <2>1. At(AfterAutostart, loc', Own(host), touched)
    BY <1>1, <1>2, AfterAutostartCases DEF Here, Flagged, InRunState
  <2> QED
    BY <1>2, <2>1, AfterAutostartCases, QuietOnward
<1>3. CASE Item.autostart # None
  <2> DEFINE differs == Exists(loc.dom) /\ host[loc.dom].autostart # Item.autostart
             to == IF differs /\ ~check THEN "setAutostart" ELSE AfterAutostart
             new == [loc EXCEPT !.changed = loc.changed \/ (differs /\ check)]
  <2>1. ASSUME Exists(loc.dom)
        PROVE  At(to, new, Own(host), touched)
    <3>1. differs <=> Own(host)[loc.dom].autostart # Item.autostart
      BY <2>1, HandleOwn DEF Here
    <3>2. new.dom = loc.dom /\ (~check => new.changed = loc.changed)
      BY LocalsType DEF Here, Locals
    <3> HIDE DEF new, differs
    <3> QED
      BY <1>1, <3>1, <3>2, AfterAutostartCases DEF Here, Flagged, InRunState
  <2> QED
    BY <1>3, <2>1, AfterAutostartCases, ReadOnward DEF ReadAutostart
<1> QED
  BY <1>2, <1>3 DEF ReadAutostart

\* Changing run state, acpi or autostart leaves the definition as it is, and shows.
LEMMA ChangeShows ==
  ASSUME Inv, NEW u \in UUIDs, u \in DOMAIN Own(host), NEW d \in Domain,
         d.name = host[u].name, Mutate(u, d)
  PROVE  /\ DOMAIN Own(host') = {u} /\ Own(host')[u] = d
         /\ touched' \in BOOLEAN
         /\ (d.run # host[u].run \/ d.autostart # host[u].autostart) => touched'
         /\ touched => touched'
<1>1. /\ host[u] \in Domain /\ host[u] # None /\ host[u].name = Item.name
      /\ DOMAIN Own(host) \subseteq {u}
  BY OwnDomain
<1>2. d # None
  BY NoneAssumption
<1>3. DOMAIN Own(host') = {u} /\ Own(host')[u] = d
  BY <1>1, <1>2, OwnReplaced DEF Mutate
<1>4. /\ Shown(d).run = d.run /\ Shown(d).autostart = d.autostart
      /\ Shown(host[u]).run = host[u].run /\ Shown(host[u]).autostart = host[u].autostart
  BY <1>1, <1>2 DEF Shown, Domain
<1> QED
  BY <1>3, <1>4, TouchedBy

LEMMA SetAutostartOnward ==
  ASSUME Here, SetAutostart
  PROVE  Onward
<1> DEFINE u == loc.dom
           d == [host[u] EXCEPT !.autostart = Item.autostart]
           new == [loc EXCEPT !.changed = TRUE]
<1>1. pc = "setAutostart" /\ ~check /\ Item.autostart \in BOOLEAN
  BY ItemType DEF SetAutostart, Here, Inv, Control, Writing, DomainSpec, Maybe, Busy
<1>2. ASSUME Exists(u), Mutate(u, d)
      PROVE  At(AfterAutostart, new, Own(host'), touched')
  <2>1. u \in DOMAIN Own(host) /\ u \in UUIDs /\ host[u] \in Domain /\ Own(host)[u] = host[u]
    BY <1>2, HandleOwn, OwnDomain DEF Here
  <2>2. d \in Domain /\ d.name = host[u].name /\ d.autostart = Item.autostart
        /\ d.macs = host[u].macs /\ d.cfg = host[u].cfg /\ d.persistent = host[u].persistent
    BY <1>1, <2>1 DEF Domain
  <2>3. host[u].autostart # Item.autostart /\ Defined(u, host[u]) /\ Item.state # "absent"
    BY <1>1, <2>1 DEF Here, At, Located, Achieved, Holding
  <2> HIDE DEF d
  <2>4. DOMAIN Own(host') = {u} /\ Own(host')[u] = d /\ touched' = TRUE
    BY <1>2, <2>1, <2>2, <2>3, ChangeShows DEF Here
  <2>5. Defined(u, d) /\ Flagged(d)
    BY <2>2, <2>3 DEF Defined, Flagged
  <2>6. new.dom = u /\ new.changed = TRUE
    BY LocalsType DEF Here, Locals
  <2> HIDE DEF new
  <2> QED
    BY <2>3, <2>4, <2>5, <2>6, AfterAutostartCases DEF At, Clean, Located, Compared,
       Achieved, Fresh, Untouching, FactPoints, Driving, Holding, InRunState
<1> QED
  BY <1>2, AfterAutostartCases, CallOnward DEF SetAutostart

LEMMA ReadActiveOnward ==
  ASSUME Here, ReadActive
  PROVE  Onward
<1> DEFINE active == Exists(loc.dom) /\ IsActive(loc.dom)
           new == [loc EXCEPT !.active = active]
           to == IF active THEN "state" ELSE "drive"
<1>1. ASSUME Exists(loc.dom)
      PROVE  At(to, new, Own(host), touched)
  <2>1. active = (Own(host)[loc.dom].run # "shutoff")
    BY <1>1, HandleOwn DEF Here, IsActive
  <2>2. new.dom = loc.dom /\ new.changed = loc.changed /\ new.active = active
    BY LocalsType DEF Here, Locals
  <2> HIDE DEF new, active
  <2> QED
    BY <2>1, <2>2 DEF ReadActive, Here, At, Clean, Located, Compared,
       Achieved, Fresh, Untouching, FactPoints, Driving, Holding
<1> QED
  BY <1>1, ReadOnward DEF ReadActive

LEMMA ReadStateOnward ==
  ASSUME Here, ReadState
  PROVE  Onward
<1> DEFINE new == [loc EXCEPT !.run = host[loc.dom].run]
<1>1. ASSUME Exists(loc.dom)
      PROVE  At("drive", new, Own(host), touched)
  <2>1. new.run = Own(host)[loc.dom].run
    BY <1>1, HandleOwn, LocalsType DEF Here, Locals
  <2>2. new.dom = loc.dom /\ new.changed = loc.changed /\ new.active = loc.active
    BY LocalsType DEF Here, Locals
  <2> HIDE DEF new
  <2> QED
    BY <2>1, <2>2, LocalsType DEF ReadState, Here, At, Clean, Located, Compared,
       Achieved, Fresh, Untouching, FactPoints, Driving, Holding
<1> QED
  BY <1>1, ReadOnward DEF ReadState

\* What is done to a domain whose state was read leaves it as asked, and shows,
\* but for a shutdown request that is repeated.
LEMMA Drives ==
  ASSUME Here, pc = "drive", ~check, Operation # "nothing",
         NEW d \in Domain, d.persistent, d = host[loc.dom], loc.dom \in DOMAIN Own(host)
  PROVE  LET e == Effect(Operation, d)
         IN  /\ e \in Domain /\ e.name = d.name /\ InRunState(e)
             /\ e.cfg = d.cfg /\ e.macs = d.macs /\ e.persistent
             /\ e.autostart = d.autostart
             /\ e.run # d.run \/ Item.state = "shutdown"
<1>1. Own(host)[loc.dom] = d
  BY OwnDomain DEF Here
<1>2. /\ loc.active = (d.run # "shutoff")
      /\ loc.active => loc.run = d.run
  BY <1>1 DEF Here, At, Fresh
<1>3. /\ d.run \in RunStates /\ loc.active \in BOOLEAN
  BY LocalsType DEF Here, Domain
<1>4. CASE Operation = "create"
  BY <1>2, <1>3, <1>4 DEF Operation, Effect, Domain, InRunState, RunStates
<1>5. CASE Operation = "resume"
  BY <1>2, <1>3, <1>5 DEF Operation, Effect, Domain, InRunState, RunStates
<1>6. CASE Operation = "suspend"
  BY <1>2, <1>3, <1>6 DEF Operation, Effect, Domain, InRunState, RunStates
<1>7. CASE Operation = "shutdown"
  BY <1>2, <1>3, <1>7 DEF Operation, Effect, Domain, InRunState, RunStates
<1>8. CASE Operation = "destroy"
  BY <1>2, <1>3, <1>8 DEF Operation, Effect, Stopped, Domain, InRunState, RunStates
<1> QED
  BY <1>4, <1>5, <1>6, <1>7, <1>8 DEF Operation

LEMMA NothingToDrive ==
  ASSUME Here, pc = "drive", Operation = "nothing", loc.dom \in DOMAIN Own(host)
  PROVE  InRunState(Own(host)[loc.dom])
<1>1. Own(host)[loc.dom].run \in RunStates
  BY OwnDomain DEF Here, Domain
<1>2. /\ loc.active = (Own(host)[loc.dom].run # "shutoff")
      /\ loc.active => loc.run = Own(host)[loc.dom].run
  BY DEF Here, At, Fresh
<1> QED
  BY <1>1, <1>2 DEF Operation, InRunState, RunStates

LEMMA ApplyRunStateOnward ==
  ASSUME Here, ApplyRunState
  PROVE  Onward
<1> DEFINE u == loc.dom
           driven == [loc EXCEPT !.changed = TRUE]
<1>1. pc = "drive" /\ u \in DOMAIN Own(host) /\ Item.state # "absent"
  BY DEF ApplyRunState, Here, At, Located, Driving, Holding
<1>2. driven.dom = u /\ driven.changed = TRUE
  BY LocalsType DEF Here, Locals
<1>3. CASE Operation = "nothing" /\ Continue("factState") /\ Observe /\ UNCHANGED loc
  <2>1. InRunState(Own(host)[u])
    BY <1>1, <1>3, NothingToDrive
  <2>2. At("factState", loc', Own(host), touched)
    BY <1>1, <1>3, <2>1 DEF Here, At, Clean, Located, Compared,
       Achieved, Fresh, Untouching, FactPoints, Driving, Holding
  <2> QED
    BY <1>3, <2>2, QuietOnward
<1>4. CASE check /\ Continue("factState") /\ Observe /\ loc' = driven
  <2> HIDE DEF driven
  <2>1. At("factState", loc', Own(host), touched)
    BY <1>1, <1>2, <1>4 DEF Here, At, Clean, Located, Compared,
       Achieved, Fresh, Untouching, FactPoints, Driving, Holding
  <2> QED
    BY <1>4, <2>1, QuietOnward
<1>5. CASE /\ Operation # "nothing" /\ ~check
           /\ Call("factState", u, Exists(u) /\ Accepts(Operation, host[u]),
                   Effect(Operation, host[u]), driven)
  <2> DEFINE d == Effect(Operation, host[u])
  <2>1. ASSUME Exists(u), Mutate(u, d)
        PROVE  At("factState", driven, Own(host'), touched')
    <3>1. u \in UUIDs /\ host[u] \in Domain /\ Own(host)[u] = host[u]
      BY <1>1, OwnDomain DEF Here
    <3>2. Defined(u, host[u]) /\ Flagged(host[u])
      BY <1>1, <1>5, <3>1 DEF Here, At, Achieved, Holding, Driving
    <3>3. /\ d \in Domain /\ d.name = host[u].name /\ InRunState(d)
          /\ d.cfg = host[u].cfg /\ d.macs = host[u].macs /\ d.persistent
          /\ d.autostart = host[u].autostart
          /\ d.run # host[u].run \/ Item.state = "shutdown"
      BY <1>1, <1>5, <3>1, <3>2, Drives DEF Defined
    <3> HIDE DEF d, driven
    <3>4. /\ DOMAIN Own(host') = {u} /\ Own(host')[u] = d
          /\ touched' \in BOOLEAN /\ (d.run # host[u].run => touched')
      BY <1>1, <2>1, <3>1, <3>3, ChangeShows DEF Here
    <3>5. Defined(u, d) /\ Flagged(d)
      BY <3>2, <3>3 DEF Defined, Flagged
    <3> QED
      BY <1>1, <1>2, <3>3, <3>4, <3>5 DEF At, Clean, Located, Compared,
         Achieved, Fresh, Untouching, FactPoints, Driving, Holding
  <2> QED
    BY <1>5, <2>1, CallOnward
<1> QED
  BY <1>3, <1>4, <1>5 DEF ApplyRunState

\* Each of the four reads adds one fact.
LEMMA FactsOnward ==
  ASSUME Here, FactState \/ FactActive \/ FactAutostart
  PROVE  Onward
<1> USE DEF At, Clean, Located, Compared, Achieved, Fresh, Untouching, FactPoints,
            Driving, Holding
<1>1. CASE FactState
  <2> DEFINE new == [loc EXCEPT !.facts.run = host[loc.dom].run]
  <2>1. ASSUME Exists(loc.dom) PROVE At("factActive", new, Own(host), touched)
    <3>1. new.dom = loc.dom /\ new.changed = loc.changed
          /\ new.facts.run = Own(host)[loc.dom].run
      BY <2>1, HandleOwn, LocalsType DEF Here, Locals, Facts
    <3> HIDE DEF new
    <3> QED
      BY <1>1, <3>1 DEF FactState, Here
  <2> QED
    BY <1>1, <2>1, ReadOnward DEF FactState
<1>2. CASE FactActive
  <2> DEFINE new == [loc EXCEPT !.facts.active = IsActive(loc.dom)]
  <2>1. ASSUME Exists(loc.dom) PROVE At("factAutostart", new, Own(host), touched)
    <3>1. new.dom = loc.dom /\ new.changed = loc.changed
          /\ new.facts.run = loc.facts.run
          /\ new.facts.active = (Own(host)[loc.dom].run # "shutoff")
      BY <2>1, HandleOwn, LocalsType DEF Here, Locals, Facts, IsActive
    <3> HIDE DEF new
    <3> QED
      BY <1>2, <3>1 DEF FactActive, Here
  <2> QED
    BY <1>2, <2>1, ReadOnward DEF FactActive
<1>3. CASE FactAutostart
  <2> DEFINE new == [loc EXCEPT !.facts.autostart = host[loc.dom].autostart]
  <2>1. ASSUME Exists(loc.dom) PROVE At("factPersistent", new, Own(host), touched)
    <3>1. new.dom = loc.dom /\ new.changed = loc.changed
          /\ new.facts.run = loc.facts.run /\ new.facts.active = loc.facts.active
          /\ new.facts.autostart = Own(host)[loc.dom].autostart
      BY <2>1, HandleOwn, LocalsType DEF Here, Locals, Facts
    <3> HIDE DEF new
    <3> QED
      BY <1>3, <3>1 DEF FactAutostart, Here
  <2> QED
    BY <1>3, <2>1, ReadOnward DEF FactAutostart
<1> QED
  BY <1>1, <1>2, <1>3

LEMMA FactPersistentOnward ==
  ASSUME Here, FactPersistent
  PROVE  Onward
<1> DEFINE u == loc.dom
           facts == [loc.facts EXCEPT !.persistent = host[u].persistent]
<1>1. ASSUME Exists(u), EndItem(Ok(loc.changed, facts)), Observe
      PROVE  Onward
  <2>1. u \in DOMAIN Own(host) /\ Own(host)[u] = host[u] /\ host[u] \in Domain
    BY <1>1, HandleOwn, OwnDomain DEF Here
  <2>2. /\ loc.facts \in Facts
        /\ loc.facts.run = host[u].run /\ loc.facts.active = (host[u].run # "shutoff")
        /\ loc.facts.autostart = host[u].autostart
    BY <2>1, LocalsType DEF FactPersistent, Here, At, Fresh, FactPoints
  <2>3. FactsOf(facts, host[u])
    BY <2>2 DEF FactsOf, Facts
  <2>4. facts \in Facts
    BY <2>1, <2>2 DEF Facts, Domain, Maybe
  <2>5. facts # None
    BY <2>4, NoneAssumption
  <2>6. /\ Item.state # "absent"
        /\ ~check => /\ Defined(u, host[u]) /\ Flagged(host[u]) /\ InRunState(host[u])
                     /\ loc.changed = touched \/ (Item.state = "shutdown" /\ loc.changed)
    BY <2>1 DEF FactPersistent, Here, At, Located, Achieved, FactPoints, Holding
  <2> HIDE DEF facts
  <2>7. Ended(Ok(loc.changed, facts), Own(host), touched)
    BY <2>1, <2>3, <2>5, <2>6 DEF Ended, Known, Reached, Counted, Ok
  <2> QED
    BY <1>1, <2>7, QuietEndOnward
<1> QED
  BY <1>1, CallFailsOnward DEF FactPersistent

-----------------------------------------------------------------------------
(* The invariant *)

\* A step that does not concern the item.
Elsewhere ==
  /\ Own(host') = Own(host) /\ ~disturbed
  /\ UNCHANGED <<pc, items, i, check, loc, entries, touched>>

\* Somebody else's step is at another domain, or disturbs the item.
LEMMA EnvironmentElsewhere ==
  ASSUME Inv, pc # "idle", Environment, ~disturbed'
  PROVE  Elsewhere
<1>1. ASSUME NEW u \in UUIDs, NEW d, NEW name, Outside(u, d, name),
             host[u] # None => host[u].name = name, d # None => d.name = name
      PROVE  Elsewhere
  <2>1. host' = [host EXCEPT ![u] = d] /\ ~disturbed /\ name # Item.name
    BY <1>1 DEF Outside
  <2>2. host \in [UUIDs -> Maybe(Domain)]
    BY DEF Inv, TypeOK, SaneHost
  <2>3. host'[u] = d /\ \A v \in UUIDs \ {u} : host'[v] = host[v]
    BY <2>1, <2>2
  <2>4. {v \in UUIDs : host'[v] # None /\ host'[v].name = Item.name}
          = {v \in UUIDs : host[v] # None /\ host[v].name = Item.name}
    BY <1>1, <2>1, <2>3
  <2>5. \A v \in {w \in UUIDs : host[w] # None /\ host[w].name = Item.name} :
          host'[v] = host[v]
    BY <1>1, <2>1, <2>3
  <2>6. Own(host') = Own(host)
    BY <2>4, <2>5 DEF Own
  <2> QED
    BY <1>1, <2>1, <2>6 DEF Outside, task, Elsewhere
<1>2. ASSUME NEW u \in UUIDs, Exists(u), NEW d, Replaces(d, host[u]),
             Outside(u, d, host[u].name)
      PROVE  Elsewhere
  BY <1>1, <1>2 DEF Replaces
<1>3. ASSUME NEW u \in UUIDs, Exists(u)
      PROVE  host[u] \in Domain /\ (~host[u].persistent => host[u].run # "shutoff")
  BY <1>3, ExistsType DEF Maybe, Inv
<1>4. CASE GuestObeys
  BY <1>2, <1>3, <1>4, StoppedReplaces DEF GuestObeys
<1>5. CASE GuestActs
  <2> PICK u \in UUIDs :
        /\ Exists(u)
        /\ \/ host[u].run = "running" /\ Outside(u, Stopped(host[u]), host[u].name)
           \/ Outside(u, [host[u] EXCEPT !.run = "pmsuspended"], host[u].name)
           \/ Outside(u, [host[u] EXCEPT !.run = "running"], host[u].name)
    BY <1>5 DEF GuestActs
  <2>1. /\ Replaces(Stopped(host[u]), host[u])
        /\ Replaces([host[u] EXCEPT !.run = "pmsuspended"], host[u])
        /\ Replaces([host[u] EXCEPT !.run = "running"], host[u])
    BY <1>3, StoppedReplaces DEF Replaces, Domain, RunStates, Maybe
  <2> QED
    BY <1>2, <2>1
<1>6. CASE ClientDrives
  BY <1>2, <1>3, <1>6, EffectReplaces DEF ClientDrives
<1>7. CASE ClientEdits
  <2> PICK u \in UUIDs :
        /\ Exists(u)
        /\ \/ \E cfg \in Cfgs : Outside(u, [host[u] EXCEPT !.cfg = cfg], host[u].name)
           \/ Outside(u, [host[u] EXCEPT !.autostart = ~host[u].autostart], host[u].name)
    BY <1>7 DEF ClientEdits
  <2>1. /\ \A cfg \in Cfgs : Replaces([host[u] EXCEPT !.cfg = cfg], host[u])
        /\ Replaces([host[u] EXCEPT !.autostart = ~host[u].autostart], host[u])
    BY <1>3 DEF Replaces, Domain, Maybe
  <2> QED
    BY <1>2, <2>1
<1>8. CASE ClientUndefines
  BY <1>2, <1>3, <1>8, UndefinedReplaces DEF ClientUndefines
<1>9. CASE ClientDefines
  <2> PICK u \in UUIDs, n \in Names, cfg \in Cfgs :
        host[u] = None /\ Outside(u, DefinedAs(u, n, cfg, <<>>), n)
    BY <1>9 DEF ClientDefines
  <2>1. DefinedAs(u, n, cfg, <<>>).name = n
    <3>1. SaneHost(host) /\ <<>> \in Seq(Macs)
      BY DEF Inv, TypeOK
    <3> QED
      BY <3>1, DefinedAsType
  <2> QED
    BY <1>1, <2>1
<1> QED
  BY <1>4, <1>5, <1>6, <1>7, <1>8, <1>9 DEF Environment

LEMMA ReconcileOnward ==
  ASSUME Here, Reconcile
  PROVE  Onward
  BY ValidateSpecOnward, LookupDomainOnward, AbsentOnward, AbsentDestroyOnward,
     AbsentUndefineOnward, BuildXmlOnward, ReadDefinitionOnward, DefineDomainOnward,
     CompareDefinitionOnward, ReadAutostartOnward, SetAutostartOnward,
     ReadActiveOnward, ReadStateOnward, ApplyRunStateOnward, FactsOnward,
     FactPersistentOnward DEF Reconcile

\* A step of the item stays with the item.
LEMMA ReconcileKeepsItem ==
  ASSUME Reconcile
  PROVE  pc \in Busy /\ UNCHANGED <<items, i, check, disturbed>>
  BY DEF Reconcile, ValidateSpec, LookupDomain, AlreadyAbsent, WouldUndefine,
     AbsentIsActive, AbsentDestroy, AbsentUndefine, BuildXml, ReadDefinition,
     DefineDomain, CompareDefinition, ReadAutostart, SetAutostart, ReadActive,
     ReadState, ApplyRunState, FactState, FactActive, FactAutostart, FactPersistent,
     Raise, Read, Call, CallFails, Continue, EndItem, Observe, Mutate, task, Busy, PCs

\* What holds of the next state under this item's name holds of it under the next
\* state's, which is the same.
LEMMA SameItem ==
  ASSUME UNCHANGED <<items, i, check>>,
         pc' = "next" => Ended(entries'[i], Own(host'), touched'),
         pc' # "next" => At(pc', loc', Own(host'), touched')
  PROVE  Outcome'
<1>1. Item' = Item /\ check' = check
  BY DEF Item
<1>2. Own(host)' = Own(host')
  BY <1>1 DEF Own
<1>3. CASE pc' = "next"
  <2>1. Ended(entries[i], Own(host), touched)'
    BY <1>1, <1>2, <1>3 DEF Ended, Known, Reached, Counted, FactsOf, Defined, Flagged,
       InRunState
  <2> QED
    BY <1>3, <2>1 DEF Outcome
<1>4. CASE pc' # "next"
  <2>1. Clean(pc, loc, touched)'
    BY <1>4 DEF At, Clean
  <2>2. Located(pc, loc, Own(host))'
    BY <1>1, <1>2, <1>4 DEF At, Located
  <2>3. Compared(pc, loc, Own(host), touched)'
    BY <1>1, <1>2, <1>4 DEF At, Compared, Defined, XmlIn
  <2>4. Achieved(pc, loc, Own(host), touched)'
    BY <1>1, <1>2, <1>4 DEF At, Achieved, Defined, Flagged, InRunState
  <2>5. Fresh(pc, loc, Own(host))'
    BY <1>1, <1>2, <1>4 DEF At, Fresh
  <2> QED
    BY <1>4, <2>1, <2>2, <2>3, <2>4, <2>5 DEF At, Outcome
<1> QED
  BY <1>3, <1>4

LEMMA OutcomeKept ==
  ASSUME Inv, Outcome, [Next]_vars
  PROVE  Outcome'
<1>1. CASE Reconcile
  <2>1. pc \in Busy /\ UNCHANGED <<items, i, check, disturbed>>
    BY <1>1, ReconcileKeepsItem
  <2>2. CASE disturbed
    BY <2>1, <2>2 DEF Outcome
  <2>3. CASE ~disturbed
    <3>1. Here
      BY <2>1, <2>3 DEF Here, Outcome, Busy
    <3>2. Onward
      BY <1>1, <3>1, ReconcileOnward
    <3> QED
      BY <2>1, <3>2, SameItem DEF Onward
  <2> QED
    BY <2>2, <2>3
<1>2. CASE NextItem \/ (\E c \in BOOLEAN : StartRun(c))
  <2>1. pc' = "validate" /\ loc' = NoLocals /\ touched' = FALSE
    BY <1>2 DEF NextItem, StartRun
  <2>2. At(pc, loc, Own(host), touched)'
    BY <2>1 DEF At, Clean, Located, Compared, Achieved, Fresh, NoLocals, Untouching,
       FactPoints, Driving, Holding
  <2> QED
    BY <2>1, <2>2 DEF Outcome
<1>3. CASE FinishRun \/ Kill
  BY <1>3 DEF FinishRun, Kill, Exit, Outcome
<1>4. CASE Environment
  <2>1. CASE pc # "idle" /\ ~disturbed'
    <3>1. /\ Own(host') = Own(host) /\ ~disturbed
          /\ UNCHANGED <<pc, items, i, check, loc, entries, touched>>
      BY <1>4, <2>1, EnvironmentElsewhere DEF Elsewhere
    <3>2. IF pc = "next" THEN Ended(entries[i], Own(host), touched)
          ELSE At(pc, loc, Own(host), touched)
      BY <2>1, <3>1 DEF Outcome
    <3> QED
      BY <3>1, <3>2, SameItem
  <2>2. CASE pc = "idle" \/ disturbed'
    <3>1. pc' = pc
      BY <1>4 DEF Environment, GuestObeys, GuestActs, ClientDrives, ClientEdits,
         ClientUndefines, ClientDefines, Outside
    <3> QED
      BY <2>2, <3>1 DEF Outcome
  <2> QED
    BY <2>1, <2>2
<1>5. CASE UNCHANGED vars
  <2>1. CASE pc # "idle" /\ ~disturbed
    <3>1. /\ UNCHANGED <<host, pc, items, i, check, loc, entries, touched>>
          /\ IF pc = "next" THEN Ended(entries[i], Own(host), touched)
             ELSE At(pc, loc, Own(host), touched)
      BY <1>5, <2>1 DEF vars, Outcome
    <3> QED
      BY <3>1, SameItem
  <2>2. CASE pc = "idle" \/ disturbed
    BY <1>5, <2>2 DEF vars, Outcome
  <2> QED
    BY <2>1, <2>2
<1> QED
  BY <1>1, <1>2, <1>3, <1>4, <1>5 DEF Next, Module

LEMMA OutcomeInvariance == Spec => [](Inv /\ Outcome)
<1>1. Init => Outcome
  BY DEF Init, Outcome
<1>2. Inv /\ Outcome /\ [Next]_vars => Outcome'
  BY OutcomeKept
<1> QED
  BY <1>1, <1>2, Invariance, PTL DEF Spec

-----------------------------------------------------------------------------
(* Theorems *)

\* Of the domain of the item's name in this state, as the properties say it.
LEMMA NamedDomain ==
  ASSUME Inv, NEW u \in DOMAIN Own(host)
  PROVE  u \in Named(Item.name) /\ Own(host)[u] = host[u]
  BY OwnDomain DEF Named

\* An undisturbed item that succeeds leaves its domain as its spec asks.
THEOREM LeavesAsAsked == Spec => []Converged
<1>1. ASSUME Inv, Outcome, Succeeded, Alone, ~check
      PROVE  Goal(Item)
  <2>1. Reached(Own(host))
    BY <1>1 DEF Outcome, Ended, Succeeded, Alone
  <2>2. CASE Item.state = "absent"
    BY <1>1, <2>1, <2>2, NamedOwn DEF Reached, Goal
  <2>3. CASE Item.state # "absent"
    <3>1. PICK u \in DOMAIN Own(host) :
            Defined(u, Own(host)[u]) /\ Flagged(Own(host)[u]) /\ InRunState(Own(host)[u])
      BY <2>1, <2>3 DEF Reached
    <3>2. u \in Named(Item.name) /\ Own(host)[u] = host[u]
      BY <1>1, NamedDomain
    <3> QED
      BY <2>3, <3>1, <3>2 DEF Goal, Defined, Flagged, InRunState
  <2> QED
    BY <2>2, <2>3
<1>2. Inv /\ Outcome => Converged
  BY <1>1 DEF Converged
<1> QED
  BY <1>2, OutcomeInvariance, PTL

\* "changed" is neither hidden nor claimed.
THEOREM ReportsChanges == Spec => []ChangedExact
<1>1. Inv /\ Outcome => ChangedExact
  BY DEF Outcome, Ended, Counted, Succeeded, Alone, ChangedExact
<1> QED
  BY <1>1, OutcomeInvariance, PTL

\* The four reads of the facts agree with the host when the item ends.
THEOREM ReportsFacts == Spec => []FactsCurrent
<1>1. ASSUME Inv, Outcome, Succeeded, Alone, Item.state # "absent"
      PROVE  IF entries[i].facts = None THEN Named(Item.name) = {}
             ELSE \E u \in Named(Item.name) :
                    entries[i].facts = [run |-> host[u].run, active |-> IsActive(u),
                                        autostart |-> host[u].autostart,
                                        persistent |-> host[u].persistent]
  <2>1. IF entries[i].facts = None THEN DOMAIN Own(host) = {}
        ELSE \E u \in DOMAIN Own(host) : FactsOf(entries[i].facts, Own(host)[u])
    BY <1>1 DEF Outcome, Ended, Known, Succeeded, Alone
  <2> QED
    BY <1>1, <2>1, NamedOwn, NamedDomain DEF FactsOf, IsActive
<1>2. Inv /\ Outcome => FactsCurrent
  BY <1>1 DEF FactsCurrent
<1> QED
  BY <1>2, OutcomeInvariance, PTL

\* Only the redefinition writes addresses, and it repeats those it does not set.
THEOREM KeepsMacs == Spec => MacsKept
<1> DEFINE Kept == \A u \in UUIDs : host[u] # None /\ host'[u] # None =>
             \A k \in DOMAIN host[u].macs \cap DOMAIN host'[u].macs :
               host'[u].macs[k] = host[u].macs[k] \/ Item.macs[k] # None
<1>1. ASSUME Inv, Outcome, Module, Alone PROVE Kept
  <2>1. CASE DefineDomain
    <3>1. Here
      BY <1>1, <2>1 DEF DefineDomain, Here, Outcome, Alone, Busy, PCs
    <3>2. CASE UNCHANGED host
      BY <3>2
    <3>3. CASE host' # host
      <4> PICK u \in DefineTargets(Item.name, IncomingUuid),
               macs \in Filled(CarryOver(Item.macs, loc.before)) :
                 Mutate(u, DefinedAs(u, Item.name, Item.cfg, macs))
        BY <2>1, <3>3 DEF DefineDomain, CallFails, Observe
      <4>1. /\ u \in UUIDs
            /\ host' = [host EXCEPT ![u] = DefinedAs(u, Item.name, Item.cfg, macs)]
            /\ host \in [UUIDs -> Maybe(Domain)]
            /\ host[u] # None => host[u].name = Item.name
        BY <1>1, <2>1, DefineStep DEF DefineDomain, Inv, TypeOK, SaneHost
      <4>2. loc.before \in Maybe(Xml) /\ Item.macs \in Seq(Maybe(Macs))
        BY <1>1, <2>1, ItemType DEF DefineDomain, Inv, TypeOK, Locals, DomainSpec
      <4>3. macs \in Seq(Macs)
        BY <4>2, FilledType
      <4>4. DefinedAs(u, Item.name, Item.cfg, macs).macs = macs
        BY <3>1, <4>1, <4>3, DefinedShows
      <4>5. host[u] # None => u = loc.existing
        <5>1. host[u] # None => u \in DOMAIN Own(host)
          BY <1>1, <4>1, OwnDomain
        <5>2. loc.existing = None => DOMAIN Own(host) = {}
          BY <2>1, <3>1 DEF DefineDomain, Here, At, Located
        <5>3. loc.existing # None => u = loc.existing
          BY DEF DefineTargets, IncomingUuid
        <5> QED
          BY <5>1, <5>2, <5>3
      <4>6. ASSUME host[u] # None,
                   NEW k \in DOMAIN host[u].macs \cap DOMAIN macs, Item.macs[k] = None
            PROVE  macs[k] = host[u].macs[k]
        <5>1. u # None /\ loc.existing = u
          BY <4>1, <4>5, <4>6, NoneAssumption
        <5> QED
          BY <2>1, <3>1, <4>6, <5>1, FilledMacs DEF DefineDomain
      <4> QED
        BY <4>1, <4>4, <4>6
    <3> QED
      BY <3>2, <3>3
  <2>2. CASE SetAutostart \/ AbsentDestroy \/ AbsentUndefine \/ ApplyRunState
    <3>1. ASSUME NEW u \in {loc.existing, loc.dom}, Exists(u), NEW d, Mutate(u, d),
                 d # None => d.macs = host[u].macs
          PROVE  Kept
      <4>1. /\ u \in UUIDs /\ host' = [host EXCEPT ![u] = d]
            /\ host \in [UUIDs -> Maybe(Domain)]
        BY <1>1, <3>1, HandleDomain DEF Mutate, Inv, TypeOK, SaneHost
      <4> QED
        BY <3>1, <4>1
    <3>2. ASSUME NEW u \in {loc.existing, loc.dom}, Exists(u)
          PROVE  host[u] \in Domain
      BY <1>1, <3>2, HandleDomain
    <3> HIDE DEF Kept
    <3>3. CASE UNCHANGED host
      BY <3>3 DEF Kept
    <3>4. CASE SetAutostart /\ host' # host
      BY <3>1, <3>2, <3>4 DEF SetAutostart, Call, CallFails, Observe, Domain
    <3>5. CASE AbsentDestroy /\ host' # host
      BY <3>1, <3>2, <3>5 DEF AbsentDestroy, Call, CallFails, Observe, Stopped, Domain
    <3>6. CASE AbsentUndefine /\ host' # host
      BY <3>1, <3>2, <3>6 DEF AbsentUndefine, CallFails, Observe, Undefined, Domain
    <3>7. CASE ApplyRunState /\ host' # host
      <4>1. \A d \in Domain : Effect(Operation, d) # None =>
                                Effect(Operation, d).macs = d.macs
        BY DEF Effect, Stopped, Operation, Domain
      <4> QED
        BY <3>1, <3>2, <3>7, <4>1 DEF ApplyRunState, Call, CallFails, Observe
    <3> QED
      BY <2>2, <3>3, <3>4, <3>5, <3>6, <3>7
  <2>3. CASE host' = host
    BY <2>3
  <2> QED
    BY <1>1, <2>1, <2>2, <2>3, CallWrites DEF Module, Reconcile, NextItem, FinishRun,
       Exit, ValidateSpec, LookupDomain, AlreadyAbsent, WouldUndefine, AbsentIsActive,
       BuildXml, ReadDefinition, CompareDefinition, ReadAutostart, ReadActive, ReadState,
       FactState, FactActive, FactAutostart, FactPersistent, Raise, CallFails, Read, Observe
<1>2. Inv /\ Outcome /\ [Next]_vars => [Module /\ Alone => Kept]_vars
  BY <1>1
<1> QED
  BY <1>2, OutcomeInvariance, PTL DEF Spec, MacsKept

-----------------------------------------------------------------------------
(* Two runs over one host *)

\* The domains of a spec's name in h.
OwnIn(spec, h) == [u \in {v \in UUIDs : h[v] # None /\ h[v].name = spec.name} |-> h[u]]

\* What Goal asks, of that part of the host.
Meets(spec, u, d) ==
  /\ d.persistent
  /\ spec.uuid \in {None, u}
  /\ d.cfg = spec.cfg
  /\ Len(d.macs) = Len(spec.macs)
  /\ \A k \in 1..Len(spec.macs) : spec.macs[k] \in {None, d.macs[k]}
  /\ spec.autostart \in {None, d.autostart}
  /\ spec.state = "running" => d.run \in {"running", "pmsuspended"}
  /\ spec.state = "paused" => d.run # "running"
  /\ spec.state = "shutdown" => d.run = "shutoff" \/ d.acpi
  /\ spec.state = "destroyed" => d.run = "shutoff"

SpecMet(spec, h) ==
  LET own == OwnIn(spec, h)
  IN  IF spec.state = "absent" THEN DOMAIN own = {}
      ELSE \E u \in DOMAIN own : Meets(spec, u, own[u])

LEMMA OwnInItem ==
  \A h : OwnIn(Item, h) = Own(h)
  BY DEF OwnIn, Own

LEMMA MetReached ==
  ASSUME NEW h
  PROVE  SpecMet(Item, h) <=> Reached(Own(h))
  BY OwnInItem DEF SpecMet, Reached, Meets, Defined, Flagged, InRunState

\* What the module does to one domain leaves the others as they are.
LEMMA OthersAlone ==
  ASSUME Distinct, Inv, Reconcile, NEW j \in 1..Len(items), j # i
  PROVE  OwnIn(items[j], host') = OwnIn(items[j], host)
<1>1. pc \in Busy /\ Module /\ Respects
  BY ReconcileKeepsItem, ModuleRespects DEF Module
<1>2. /\ i \in 1..Len(items) /\ items \in Playbooks
      /\ DOMAIN items = 1..Len(items)
  <2>1. i \in 1..Len(items) /\ items \in Playbooks \cup {<<>>}
    BY <1>1 DEF Inv, TypeOK, Busy
  <2>2. items # <<>>
    BY <2>1
  <2> QED
    BY <2>1, <2>2, PlaybooksAssumption
<1>3. items[j].name # Item.name
  BY <1>2 DEF Distinct, Item
<1>4. \A u \in UUIDs : \/ host'[u] = host[u]
                       \/ /\ ~(host[u] # None /\ host[u].name = items[j].name)
                          /\ ~(host'[u] # None /\ host'[u].name = items[j].name)
  BY <1>1, <1>3 DEF Respects
<1> DEFINE of(h) == {v \in UUIDs : h[v] # None /\ h[v].name = items[j].name}
<1>5. of(host') = of(host) /\ \A u \in of(host) : host'[u] = host[u]
  BY <1>4
<1> QED
  BY <1>5 DEF OwnIn

\* A step of the item leaves the records of the runs alone, and writes an entry when
\* it ends; one that reports a failure reports no change.
LEMMA ReconcileRecords ==
  ASSUME Inv, Reconcile
  PROVE  /\ UNCHANGED <<calm, settled, forecast>>
         /\ pc' # "next" => UNCHANGED entries
         /\ pc' = "next" => \E e : EndItem(e) /\ (e.failed => ~e.changed)
         /\ pc' # "idle"
<1>1. UNCHANGED <<calm, settled, forecast>>
  BY DEF Reconcile, ValidateSpec, LookupDomain, AlreadyAbsent, WouldUndefine,
     AbsentIsActive, AbsentDestroy, AbsentUndefine, BuildXml, ReadDefinition,
     DefineDomain, CompareDefinition, ReadAutostart, SetAutostart, ReadActive,
     ReadState, ApplyRunState, FactState, FactActive, FactAutostart, FactPersistent,
     Raise, Read, Call, CallFails, Observe, Mutate
<1>2. pc' # "next" => UNCHANGED entries
  BY DEF Reconcile, ValidateSpec, LookupDomain, AlreadyAbsent, WouldUndefine,
     AbsentIsActive, AbsentDestroy, AbsentUndefine, BuildXml, ReadDefinition,
     DefineDomain, CompareDefinition, ReadAutostart, SetAutostart, ReadActive,
     ReadState, ApplyRunState, FactState, FactActive, FactAutostart, FactPersistent,
     Raise, Read, Call, CallFails, Continue, EndItem
<1>3. /\ pc' # "idle"
      /\ pc' = "next" => \E e : EndItem(e) /\ (e.failed => ~e.changed)
  <2> DEFINE Ends == \E e : EndItem(e) /\ (e.failed => ~e.changed)
  <2> DEFINE Good == pc' # "idle" /\ (pc' = "next" => Ends)
  <2>1. ASSUME NEW e, EndItem(e), e.failed => ~e.changed PROVE Good
    BY <2>1 DEF EndItem
  <2>2. \A c, f : EndItem(Ok(c, f)) => Good
    BY <2>1 DEF Ok
  <2>3. ASSUME NEW to, to \notin {"next", "idle"}, Continue(to) PROVE Good
    BY <2>3 DEF Continue
  <2>4. ASSUME EndItem(Raised) PROVE Good
    BY <2>1, <2>4 DEF Raised
  <2> SUFFICES Good
    OBVIOUS
  <2> HIDE DEF Good
  <2>5. ASSUME NEW possible, CallFails(possible) PROVE Good
    BY <2>4, <2>5 DEF CallFails
  <2>6. ASSUME NEW to, to \notin {"next", "idle"}, NEW u, NEW new, Read(to, u, new) PROVE Good
    BY <2>3, <2>5, <2>6 DEF Read
  <2>7. ASSUME NEW to, to \notin {"next", "idle"}, NEW u, NEW possible, NEW d, NEW new,
               Call(to, u, possible, d, new)
        PROVE  Good
    BY <2>3, <2>5, <2>7 DEF Call
  <2>8. AfterAutostart \notin {"next", "idle"}
    BY DEF AfterAutostart
  <2>9. CASE ValidateSpec \/ BuildXml \/ AlreadyAbsent \/ WouldUndefine
    BY <2>2, <2>3, <2>4, <2>9 DEF ValidateSpec, BuildXml, AlreadyAbsent, WouldUndefine, Raise
  <2>10. CASE LookupDomain
    <3>1. \A e : AfterLookup(e) \notin {"next", "idle"}
      BY DEF AfterLookup
    <3> QED
      BY <2>3, <2>5, <2>10, <3>1 DEF LookupDomain
  <2>11. CASE AbsentIsActive \/ AbsentDestroy
    <3>1. CASE AbsentDestroy
      BY <2>7, <3>1 DEF AbsentDestroy
    <3>2. \E to \in {"absDestroy", "absUndefine"} : \E u, new : AbsentIsActive => Read(to, u, new)
      BY DEF AbsentIsActive
    <3> QED
      BY <2>6, <2>11, <3>1, <3>2
  <2>12. CASE AbsentUndefine \/ FactPersistent \/ DefineDomain \/ ReadDefinition
    BY <2>2, <2>3, <2>4, <2>5, <2>12
       DEF AbsentUndefine, FactPersistent, DefineDomain, ReadDefinition, Raise
  <2>13. CASE CompareDefinition \/ ReadState \/ FactState \/ FactActive \/ FactAutostart
    BY <2>6, <2>13 DEF CompareDefinition, ReadState, FactState, FactActive, FactAutostart
  <2>14. CASE ReadAutostart
    BY <2>3, <2>6, <2>8, <2>14 DEF ReadAutostart
  <2>15. CASE ReadActive
    BY <2>6, <2>15 DEF ReadActive
  <2>16. CASE SetAutostart \/ ApplyRunState
    BY <2>3, <2>7, <2>8, <2>16 DEF SetAutostart, ApplyRunState
  <2> QED
    BY <2>9, <2>10, <2>11, <2>12, <2>13, <2>14, <2>15, <2>16 DEF Reconcile
<1> QED
  BY <1>1, <1>2, <1>3

LEMMA EntriesGrow ==
  ASSUME Inv, pc \in Busy, NEW e, EndItem(e)
  PROVE  /\ Len(entries') = i /\ entries'[i] = e /\ pc' = "next"
         /\ \A j \in 1..(i - 1) : entries'[j] = entries[j]
<1>1. i \in Nat /\ entries \in Seq(Entry) /\ Len(entries) = i - 1
  BY DEF Inv, TypeOK, Busy
<1> QED
  BY <1>1 DEF EndItem

LEMMA ItemPlace ==
  ASSUME Inv, pc # "idle"
  PROVE  /\ i \in 1..Len(items) /\ Len(items) \in Nat /\ items \in Playbooks
         /\ DOMAIN items = 1..Len(items)
         /\ Len(entries) = IF pc = "next" THEN i ELSE i - 1
<1>1. i \in 1..Len(items) /\ items \in Playbooks \cup {<<>>}
  BY DEF Inv, TypeOK
<1>2. items # <<>>
  BY <1>1
<1> QED
  BY <1>1, <1>2, PlaybooksAssumption DEF Inv, TypeOK

-----------------------------------------------------------------------------
(* A second run is silent *)

\* What a first run has not failed on is as asked, and after it everything is; a
\* run after that touches nothing.
Settling ==
  /\ calm => ~disturbed
  /\ settled # None =>
       /\ \A j \in 1..Len(settled) : SpecMet(settled[j], host)
       /\ pc # "idle" => calm /\ (~check => settled = items /\ ~touched)
  /\ calm /\ ~check /\ pc # "idle" =>
       \A j \in 1..Len(entries) : entries[j].failed \/ SpecMet(items[j], host)
  /\ pc = "next" => (entries[i].failed => ~entries[i].changed)

\* An item whose spec is met changes nothing, whatever it repeats.
LEMMA RestingStep ==
  ASSUME Here, ~check, Reconcile, SpecMet(Item, host)
  PROVE  UNCHANGED <<host, touched>>
<1>1. Reached(Own(host)) /\ Inv
  BY MetReached DEF Here
<1>2. ASSUME NEW u \in {loc.existing, loc.dom}, Exists(u)
      PROVE  /\ u \in UUIDs /\ u \in DOMAIN Own(host) /\ Own(host)[u] = host[u]
             /\ host[u] \in Domain /\ Item.state # "absent"
             /\ Defined(u, host[u]) /\ Flagged(host[u]) /\ InRunState(host[u])
  <2>1. u \in DOMAIN Own(host) /\ Own(host)[u] = host[u]
    BY <1>1, <1>2, HandleOwn
  <2>2. \A v \in DOMAIN Own(host) : u = v
    BY <1>1, <2>1, OwnDomain
  <2> QED
    BY <1>1, <2>1, <2>2, OwnDomain DEF Reached
<1>3. ASSUME NEW u \in UUIDs, Mutate(u, host[u])
      PROVE  UNCHANGED <<host, touched>>
  <2>1. touched \in BOOLEAN /\ host \in [UUIDs -> Maybe(Domain)]
    BY <1>1 DEF Inv, TypeOK, SaneHost
  <2>2. host' = host
    BY <1>3, <2>1 DEF Mutate
  <2>3. Visible(host') = Visible(host)
    BY <2>2
  <2> QED
    BY <1>3, <2>1, <2>2, <2>3 DEF Mutate
<1>4. CASE AbsentDestroy \/ AbsentUndefine
  <2>1. ~Exists(loc.existing)
    BY <1>1, <1>2, <1>4 DEF AbsentDestroy, AbsentUndefine, Inv, Control, Removing
  <2> QED
    BY <1>4, <2>1 DEF AbsentDestroy, AbsentUndefine, Call, CallFails, Observe
<1>5. CASE DefineDomain
  <2>1. ASSUME NEW u \in DefineTargets(Item.name, IncomingUuid),
               NEW macs \in Filled(CarryOver(Item.macs, loc.before)),
               Mutate(u, DefinedAs(u, Item.name, Item.cfg, macs))
        PROVE  UNCHANGED <<host, touched>>
    <3> DEFINE d == DefinedAs(u, Item.name, Item.cfg, macs)
    <3>1. pc = "define" /\ Item.state # "absent"
      BY <1>5 DEF DefineDomain, Here, At, Located
    <3>2. DOMAIN Own(host) # {}
      BY <1>1, <3>1 DEF Reached
    <3>3. loc.existing \in DOMAIN Own(host)
      BY <3>1, <3>2 DEF Here, At, Located
    <3>4. u = loc.existing /\ Exists(u)
      BY <1>1, <3>3, OwnDomain DEF DefineTargets, IncomingUuid, Exists
    <3>5. /\ u \in UUIDs /\ host[u] \in Domain /\ host[u] # None
          /\ Defined(u, host[u])
      BY <1>2, <3>4 DEF Exists
    <3>6. /\ Len(macs) = Len(Item.macs) /\ DOMAIN macs = 1..Len(Item.macs)
          /\ \A k \in 1..Len(Item.macs) :
               /\ Item.macs[k] \in {None, macs[k]}
               /\ loc.existing # None /\ Item.macs[k] = None
                  /\ k \in DOMAIN host[loc.existing].macs =>
                    macs[k] = host[loc.existing].macs[k]
      BY <3>1, FilledMacs
    <3> DEFINE had == host[u].macs
    <3>7. had \in Seq(Macs) /\ Len(had) = Len(Item.macs) /\ DOMAIN had = 1..Len(Item.macs)
          /\ \A k \in 1..Len(Item.macs) : Item.macs[k] \in {None, had[k]}
      BY <3>5 DEF Domain, Defined
    <3>8. \A k \in 1..Len(Item.macs) : macs[k] = had[k]
      BY <3>4, <3>5, <3>6, <3>7 DEF Exists
    <3>9. macs \in Seq(Macs)
      <4>1. loc.before \in Maybe(Xml) /\ Item.macs \in Seq(Maybe(Macs))
        BY <1>1, <3>1, ItemType DEF Inv, TypeOK, Locals, DomainSpec
      <4> QED
        BY <4>1, FilledType
    <3>10. macs = had
      BY <3>6, <3>7, <3>8, <3>9
    <3>11. d = [host[u] EXCEPT !.cfg = Item.cfg, !.macs = macs, !.persistent = TRUE]
      BY <3>5 DEF DefinedAs
    <3>12. d = host[u]
      <4>1. host[u].cfg = Item.cfg /\ host[u].persistent = TRUE
        BY <3>5 DEF Defined, Domain
      <4>2. d = [host[u] EXCEPT !.cfg = host[u].cfg, !.macs = host[u].macs,
                                !.persistent = host[u].persistent]
        BY <3>10, <3>11, <4>1
      <4> QED
        BY <3>5, <4>2 DEF Domain
    <3> QED
      BY <1>3, <2>1, <3>5, <3>12
  <2> QED
    BY <1>5, <2>1 DEF DefineDomain, CallFails, Observe
<1>6. CASE SetAutostart
  <2>1. ~Exists(loc.dom)
    <3> SUFFICES ASSUME Exists(loc.dom) PROVE FALSE
      OBVIOUS
    <3>1. Flagged(host[loc.dom]) /\ Own(host)[loc.dom] = host[loc.dom]
      BY <1>2
    <3> QED
      BY <1>6, <3>1 DEF SetAutostart, Here, Inv, Control, At, Achieved, Flagged
  <2> QED
    BY <1>6, <2>1 DEF SetAutostart, Call, CallFails, Observe
<1>7. CASE ApplyRunState
  <2> DEFINE u == loc.dom
  <2>1. ASSUME Exists(u), Operation # "nothing"
        PROVE  u \in UUIDs /\ Effect(Operation, host[u]) = host[u]
    <3>1. /\ u \in UUIDs /\ host[u] \in Domain /\ Own(host)[u] = host[u]
          /\ InRunState(host[u])
      BY <1>2, <2>1
    <3>2. /\ loc.active = (host[u].run # "shutoff")
          /\ loc.active => loc.run = host[u].run
      BY <1>7, <3>1 DEF ApplyRunState, Here, At, Fresh, Driving
    <3>3. Operation = "shutdown" /\ host[u].acpi = TRUE
      BY <2>1, <3>1, <3>2 DEF Operation, InRunState, Domain
    <3>4. [host[u] EXCEPT !.acpi = TRUE] = host[u]
      BY <3>1, <3>3 DEF Domain
    <3> QED
      BY <3>1, <3>3, <3>4 DEF Effect
  <2> QED
    BY <1>3, <1>7, <2>1 DEF ApplyRunState, Call, CallFails, Observe
<1> QED
  BY <1>4, <1>5, <1>6, <1>7
     DEF Reconcile, ValidateSpec, LookupDomain, AlreadyAbsent, WouldUndefine,
     AbsentIsActive, BuildXml, ReadDefinition, CompareDefinition, ReadAutostart,
     ReadActive, ReadState, FactState, FactActive, FactAutostart, FactPersistent,
     Raise, Read, CallFails, Observe

LEMMA EnvironmentForgets ==
  ASSUME Environment
  PROVE  calm' = FALSE /\ settled' = None /\ forecast' = None /\ UNCHANGED <<pc, entries, i>>
  BY DEF Environment, GuestObeys, GuestActs, ClientDrives, ClientEdits, ClientUndefines,
     ClientDefines, Outside, task

LEMMA ReconcileSettling ==
  ASSUME Distinct, Inv, Outcome, Settling, Reconcile
  PROVE  Settling'
<1>1. /\ pc \in Busy /\ UNCHANGED <<items, i, check, disturbed, calm, settled, forecast>>
      /\ pc # "idle" /\ pc # "next" /\ pc' # "idle" /\ Module
  BY ReconcileKeepsItem, ReconcileRecords DEF Busy, Module
<1>2. /\ i \in 1..Len(items) /\ Len(entries) = i - 1 /\ Len(items) \in Nat
  BY <1>1, ItemPlace
<1>3. calm => Here
  BY <1>1 DEF Settling, Outcome, Here
<1>4. settled # None =>
        /\ \A j \in 1..Len(settled) : SpecMet(settled[j], host')
        /\ ~check => ~touched'
  <2>1. CASE check
    <3>1. UNCHANGED host
      BY <1>1, <2>1, DryStep
    <3> QED
      BY <2>1, <3>1 DEF Settling
  <2>2. CASE settled # None /\ ~check
    <3>1. calm /\ settled = items /\ ~touched /\ SpecMet(Item, host)
      BY <1>1, <1>2, <2>2 DEF Settling, Item
    <3>2. UNCHANGED <<host, touched>>
      BY <1>3, <2>2, <3>1, RestingStep
    <3> QED
      BY <3>1, <3>2 DEF Settling
  <2> QED
    BY <2>1, <2>2
<1>5. ASSUME calm, ~check, NEW j \in 1..Len(entries')
      PROVE  entries'[j].failed \/ SpecMet(items[j], host')
  <2>1. ASSUME NEW m \in 1..(i - 1), entries'[m] = entries[m]
        PROVE  entries'[m].failed \/ SpecMet(items[m], host')
    <3>1. m \in 1..Len(items) /\ m # i
      BY <1>2
    <3>2. entries[m].failed \/ SpecMet(items[m], host)
      BY <1>1, <1>2, <1>5 DEF Settling
    <3>3. OwnIn(items[m], host') = OwnIn(items[m], host)
      BY <3>1, OthersAlone
    <3> QED
      BY <2>1, <3>2, <3>3 DEF SpecMet
  <2>2. CASE pc' = "next"
    <3>1. PICK e : EndItem(e)
      BY <2>2, ReconcileRecords
    <3>2. /\ Len(entries') = i
          /\ \A m \in 1..(i - 1) : entries'[m] = entries[m]
      BY <1>1, <3>1, EntriesGrow
    <3>3. CASE j = i
      <4>1. Ended(entries'[i], Own(host'), touched')
        BY <1>3, <1>5, <2>2, ReconcileOnward DEF Onward
      <4>2. entries'[i].failed \/ SpecMet(Item, host')
        BY <1>5, <4>1, MetReached DEF Ended
      <4> QED
        BY <3>3, <4>2 DEF Item
    <3>4. CASE j # i
      <4>1. j \in 1..(i - 1)
        BY <1>2, <3>2, <3>4
      <4> QED
        BY <2>1, <3>2, <4>1
    <3> QED
      BY <3>3, <3>4
  <2>3. CASE pc' # "next"
    <3>1. UNCHANGED entries
      BY <2>3, ReconcileRecords
    <3> QED
      BY <1>2, <2>1, <3>1
  <2> QED
    BY <2>2, <2>3
<1>6. pc' = "next" => (entries'[i].failed => ~entries'[i].changed)
  BY <1>1, ReconcileRecords, EntriesGrow
<1> QED
  BY <1>1, <1>4, <1>5, <1>6 DEF Settling

LEMMA LoopSettling ==
  ASSUME Inv, Settling,
         NextItem \/ FinishRun \/ Kill \/ (\E c \in BOOLEAN : StartRun(c)) \/ Environment
  PROVE  Settling'
<1>1. CASE NextItem
  BY <1>1 DEF NextItem, task, Settling
<1>2. CASE FinishRun
  <2>1. /\ pc = "next" /\ i = Len(items) /\ pc' = "idle" /\ calm' = FALSE
        /\ UNCHANGED host
        /\ settled' = IF check THEN settled ELSE IF calm /\ AllOk THEN items ELSE None
    BY <1>2 DEF FinishRun, Exit
  <2>2. Len(entries) = Len(items) /\ DOMAIN entries = 1..Len(entries)
    BY <2>1 DEF Inv, TypeOK
  <2>3. ASSUME settled' # None, NEW j \in 1..Len(settled')
        PROVE  SpecMet(settled'[j], host)
    <3>1. CASE settled' = settled
      BY <2>3, <3>1 DEF Settling
    <3>2. CASE ~check /\ calm /\ AllOk /\ settled' = items
      BY <2>1, <2>2, <2>3, <3>2 DEF Settling, AllOk
    <3> QED
      BY <2>1, <2>3, <3>1, <3>2
  <2> QED
    BY <2>1, <2>3 DEF Settling
<1>3. CASE Kill
  BY <1>3 DEF Kill, Exit, Settling
<1>4. ASSUME NEW c \in BOOLEAN, StartRun(c) PROVE Settling'
  <2>1. /\ pc' = "validate" /\ check' = c /\ entries' = <<>> /\ calm' = TRUE
        /\ disturbed' = FALSE /\ touched' = FALSE /\ UNCHANGED host
        /\ settled' = IF c \/ settled = items' THEN settled ELSE None
    BY <1>4 DEF StartRun
  <2>2. settled' # None => settled' = settled /\ (~c => settled' = items')
    BY <2>1
  <2>3. \A j \in 1..Len(entries') : FALSE
    BY <2>1
  <2> QED
    BY <2>1, <2>2, <2>3 DEF Settling
<1>5. CASE Environment
  <2>1. calm' = FALSE /\ settled' = None /\ UNCHANGED <<pc, entries, i>>
    BY <1>5, EnvironmentForgets
  <2> QED
    BY <2>1 DEF Settling
<1> QED
  BY <1>1, <1>2, <1>3, <1>4, <1>5

LEMMA NextSettling ==
  ASSUME Distinct, Inv, Outcome, Settling, [Next]_vars
  PROVE  Settling'
<1>1. CASE UNCHANGED vars
  BY <1>1 DEF vars, Settling
<1> QED
  BY <1>1, ReconcileSettling, LoopSettling DEF Next, Module

LEMMA SettlingInvariance ==
  ASSUME Distinct
  PROVE  Spec => [](Inv /\ Outcome /\ Settling)
<1>1. Init => Settling
  BY DEF Init, Settling
<1>2. Inv /\ Outcome /\ Settling /\ [Next]_vars => Settling'
  BY NextSettling
<1> QED
  BY <1>1, <1>2, OutcomeInvariance, PTL DEF Spec

\* Where each domain is listed once, a list that has just succeeded undisturbed
\* changes nothing when it is run again, whatever fails in that second run: every
\* item finds its domain as asked, no other item has taken that back, and what it
\* repeats, the definition with the addresses libvirt drew for it included, is what
\* the domain already is.  Only shutdown is asked for again.
THEOREM RerunsSilently == Distinct => (Spec => []Idempotent)
<1> SUFFICES ASSUME Distinct PROVE Spec => []Idempotent
  OBVIOUS
<1>1. ASSUME Inv, Outcome, Settling, pc = "next", ~check, settled = items
      PROVE  ~entries[i].changed \/ Item.state = "shutdown"
  <2>1. settled # None
    <3>1. items \in Playbooks
      BY <1>1, ItemPlace
    <3> QED
      BY <1>1, <3>1, NoneAssumption
  <2>2. ~disturbed /\ ~touched
    BY <1>1, <2>1 DEF Settling
  <2>3. Ended(entries[i], Own(host), touched)
    BY <1>1, <2>2 DEF Outcome
  <2> QED
    BY <1>1, <2>2, <2>3 DEF Settling, Ended, Counted
<1>2. Inv /\ Outcome /\ Settling => Idempotent
  BY <1>1 DEF Idempotent
<1> QED
  BY <1>2, SettlingInvariance, PTL

-----------------------------------------------------------------------------
(* A dry run foretells the real one *)

NeedsFlag(spec, d) == spec.autostart \notin {None, d.autostart}

NeedsDrive(spec, d) ==
  \/ spec.state = "running" /\ d.run \in {"shutoff", "paused"}
  \/ spec.state = "paused" /\ d.run = "running"
  \/ spec.state \in {"shutdown", "destroyed"} /\ d.run # "shutoff"

\* What a dry run finds to do about a spec, given the domains of its name.
Foretold(spec, own) ==
  IF spec.state = "absent" THEN DOMAIN own # {}
  ELSE \/ DOMAIN own = {}
       \/ \E u \in DOMAIN own : NeedsFlag(spec, own[u]) \/ NeedsDrive(spec, own[u])

Foresees(e, spec, h) == e.failed \/ e.changed = Foretold(spec, OwnIn(spec, h))

\* While the item is in work: p is what is foretold for it, and what is still to be
\* done or has been counted since comes to just that, definitions aside.
Ledger(c, l, own, p) ==
  /\ p \in BOOLEAN
  /\ c \notin Holding => ~l.defined
  /\ check => ~l.defined
  /\ c \in {"validate", "lookup", "gone", "build", "xmlDesc", "define", "newXml"} =>
       p = Foretold(Item, own)
  /\ c \in {"would", "absActive", "absDestroy", "absUndefine"} => p
  /\ c \in Holding =>
       IF l.defined THEN l.changed
       ELSE /\ c = "autostart" => ~l.changed /\ p = Foretold(Item, own)
            /\ c = "setAutostart" => p
            /\ c \in Driving => p = (l.changed \/ NeedsDrive(Item, own[l.dom]))
            /\ c \in FactPoints => l.changed = p

Balanced(e, l, p) ==
  /\ e.failed \/ e.changed = (p \/ l.defined)
  /\ check => ~l.defined

\* A step of the item keeps the account.
Kept(p) ==
  IF pc' = "next" THEN Balanced(entries'[i], loc', p)
  ELSE Ledger(pc', loc', Own(host'), p)

Accounted(p) == Here /\ Ledger(pc, loc, Own(host), p)

LEMMA CallFailsKept ==
  ASSUME NEW p, Accounted(p), NEW possible, CallFails(possible)
  PROVE  Kept(p)
<1>1. pc' = "next" /\ entries'[i] = Raised /\ loc' = loc
  BY EndsWith DEF Accounted, Here, CallFails
<1> QED
  BY <1>1 DEF Kept, Balanced, Raised, Accounted, Ledger

LEMMA RaiseKept ==
  ASSUME NEW p, Accounted(p), Raise
  PROVE  Kept(p)
<1>1. pc' = "next" /\ entries'[i] = Raised /\ loc' = loc
  BY EndsWith DEF Accounted, Here, Raise
<1> QED
  BY <1>1 DEF Kept, Balanced, Raised, Accounted, Ledger

LEMMA EndKept ==
  ASSUME NEW p, Accounted(p), NEW c, NEW f, EndItem(Ok(c, f)), UNCHANGED loc,
         c = (p \/ loc.defined)
  PROVE  Kept(p)
<1>1. pc' = "next" /\ entries'[i] = Ok(c, f) /\ loc' = loc
  BY EndsWith DEF Accounted, Here
<1>2. check => ~loc.defined
  BY DEF Accounted, Ledger
<1> QED
  BY <1>1, <1>2 DEF Kept, Balanced, Ok

LEMMA QuietKept ==
  ASSUME NEW p, NEW to, to # "next", Continue(to), Observe, Ledger(to, loc', Own(host), p)
  PROVE  Kept(p)
<1>1. host' = host /\ pc' = to
  BY DEF Observe, Continue
<1> QED
  BY <1>1 DEF Kept

LEMMA ReadKept ==
  ASSUME NEW p, Accounted(p), NEW to, to # "next", NEW u, NEW new, Read(to, u, new),
         Exists(u) => Ledger(to, new, Own(host), p)
  PROVE  Kept(p)
<1>1. CASE Exists(u) /\ Continue(to) /\ Observe /\ loc' = new
  BY <1>1, QuietKept
<1> QED
  BY <1>1, CallFailsKept DEF Read

LEMMA CallKept ==
  ASSUME NEW p, Accounted(p), NEW to, to # "next", NEW u, NEW possible, NEW d, NEW new,
         Call(to, u, possible, d, new),
         possible /\ Mutate(u, d) => Ledger(to, new, Own(host'), p)
  PROVE  Kept(p)
<1>1. CASE possible /\ Continue(to) /\ Mutate(u, d) /\ loc' = new
  BY <1>1 DEF Kept, Continue
<1> QED
  BY <1>1, CallFailsKept DEF Call

\* The item's domain is the one a handle is to.
LEMMA ForetoldAt ==
  ASSUME Inv, Item.state # "absent", NEW u \in DOMAIN Own(host)
  PROVE  Foretold(Item, Own(host))
           <=> NeedsFlag(Item, Own(host)[u]) \/ NeedsDrive(Item, Own(host)[u])
<1>1. \A v \in DOMAIN Own(host) : u = v
  BY OwnDomain
<1> QED
  BY <1>1 DEF Foretold

LEMMA RemovalKept ==
  ASSUME NEW p, Accounted(p),
         \/ ValidateSpec \/ LookupDomain \/ AlreadyAbsent \/ WouldUndefine
         \/ AbsentIsActive \/ AbsentDestroy \/ AbsentUndefine
  PROVE  Kept(p)
<1>0. Here /\ Inv /\ Ledger(pc, loc, Own(host), p) /\ p \in BOOLEAN
  BY DEF Accounted, Here, Ledger
<1>1. CASE ValidateSpec
  <2>1. CASE Continue("lookup") /\ Observe /\ UNCHANGED loc
    <3>1. Ledger("lookup", loc', Own(host), p)
      BY <1>0, <1>1, <2>1 DEF ValidateSpec, Ledger, Holding, Driving, FactPoints
    <3> QED
      BY <2>1, <3>1, QuietKept
  <2> QED
    BY <1>1, <2>1, RaiseKept DEF ValidateSpec
<1>2. CASE LookupDomain
  <2>1. ASSUME NEW e \in (IF Named(Item.name) = {} THEN {None} ELSE Named(Item.name)),
               Continue(AfterLookup(e)), loc' = [loc EXCEPT !.existing = e], Observe
        PROVE  Kept(p)
    <3>1. e = None <=> DOMAIN Own(host) = {}
      BY <1>0, <2>1, NamedOwn, OwnDomain
    <3>2. loc'.defined = loc.defined
      BY <1>0, <2>1, LocalsType DEF Locals
    <3>3. Item.state = "absent" /\ e # None => p
      BY <1>0, <1>2, <3>1 DEF LookupDomain, Ledger, Foretold
    <3>4. Ledger(AfterLookup(e), loc', Own(host), p)
      BY <1>0, <1>2, <3>2, <3>3 DEF LookupDomain, Ledger, AfterLookup, Holding, Driving, FactPoints
    <3> QED
      BY <2>1, <3>4, QuietKept DEF AfterLookup
  <2> QED
    BY <1>2, <2>1, CallFailsKept DEF LookupDomain
<1>3. CASE AlreadyAbsent
  <2>1. p = FALSE /\ ~loc.defined
    BY <1>0, <1>3 DEF AlreadyAbsent, Here, Inv, Control, Removing, At, Located, Ledger, Foretold,
       Holding, Driving, FactPoints
  <2> QED
    BY <1>3, <2>1, EndKept DEF AlreadyAbsent
<1>4. CASE WouldUndefine
  <2>1. p = TRUE
    BY <1>0, <1>4 DEF WouldUndefine, Ledger
  <2> QED
    BY <1>4, <2>1, EndKept DEF WouldUndefine
<1>5. CASE AbsentIsActive
  <2> DEFINE to == IF Exists(loc.existing) /\ IsActive(loc.existing)
                   THEN "absDestroy" ELSE "absUndefine"
  <2>1. Ledger(to, loc, Own(host), p)
    BY <1>0, <1>5 DEF AbsentIsActive, Ledger, Holding, Driving, FactPoints
  <2> QED
    BY <1>5, <2>1, ReadKept DEF AbsentIsActive
<1>6. CASE AbsentDestroy
  <2>1. Ledger("absUndefine", loc, Own(host'), p)
    BY <1>0, <1>6 DEF AbsentDestroy, Ledger, Holding, Driving, FactPoints
  <2> QED
    BY <1>6, <2>1, CallKept DEF AbsentDestroy
<1>7. CASE AbsentUndefine
  <2>1. p = TRUE
    BY <1>0, <1>7 DEF AbsentUndefine, Ledger
  <2> QED
    BY <1>7, <2>1, EndKept, CallFailsKept DEF AbsentUndefine
<1> QED
  BY <1>1, <1>2, <1>3, <1>4, <1>5, <1>6, <1>7

LEMMA DefinitionKept ==
  ASSUME NEW p, Accounted(p), BuildXml \/ ReadDefinition \/ CompareDefinition
  PROVE  Kept(p)
<1> USE DEF Holding, Driving, FactPoints
<1>0. Here /\ Inv /\ Ledger(pc, loc, Own(host), p) /\ p \in BOOLEAN /\ loc \in Locals
  BY LocalsType DEF Accounted, Here, Ledger
<1>1. CASE BuildXml
  <2>1. CASE /\ Continue(IF loc.existing = None THEN "define" ELSE "xmlDesc")
             /\ Observe /\ UNCHANGED loc
    <3> DEFINE to == IF loc.existing = None THEN "define" ELSE "xmlDesc"
    <3>1. Ledger(to, loc', Own(host), p)
      BY <1>0, <1>1, <2>1 DEF BuildXml, Ledger
    <3> QED
      BY <2>1, <3>1, QuietKept
  <2>2. CASE loc.existing = None /\ check /\ EndItem(Ok(TRUE, None)) /\ UNCHANGED loc
    <3>1. p = TRUE
      BY <1>0, <1>1, <2>2 DEF BuildXml, Here, At, Located, Ledger, Foretold
    <3> QED
      BY <2>2, <3>1, EndKept
  <2> QED
    BY <1>1, <2>1, <2>2, RaiseKept DEF BuildXml
<1>2. CASE ReadDefinition
  <2>1. ASSUME Continue(IF check THEN "autostart" ELSE "define"), Observe,
               loc' = [loc EXCEPT !.before = XmlOf(loc.existing),
                                  !.dom = IF check THEN loc.existing ELSE None]
        PROVE  Kept(p)
    <3>1. loc'.defined = loc.defined /\ loc'.changed = loc.changed
      BY <1>0, <2>1 DEF Locals
    <3>2. ~loc.changed
      BY <1>0, <1>2 DEF ReadDefinition, Here, At, Clean, Untouching
    <3>3. Ledger(IF check THEN "autostart" ELSE "define", loc', Own(host), p)
      BY <1>0, <1>2, <3>1, <3>2 DEF ReadDefinition, Ledger
    <3> QED
      BY <2>1, <3>3, QuietKept
  <2> QED
    BY <1>2, <2>1, RaiseKept, CallFailsKept DEF ReadDefinition
<1>3. CASE CompareDefinition
  <2> DEFINE differs == Exists(loc.dom) /\ XmlOf(loc.dom) # loc.before
             new == [loc EXCEPT !.defined = differs, !.changed = differs]
  <2>1. new.defined = differs /\ new.changed = differs
    BY <1>0 DEF Locals
  <2>2. ~check
    BY <1>0, <1>3 DEF CompareDefinition, Inv, Control, Writing
  <2> HIDE DEF new, differs
  <2>3. Ledger("autostart", new, Own(host), p)
    BY <1>0, <1>3, <2>1, <2>2 DEF CompareDefinition, Ledger
  <2> QED
    BY <1>3, <2>3, ReadKept DEF CompareDefinition, new, differs
<1> QED
  BY <1>1, <1>2, <1>3

\* A definition leaves run state and autostart as they are.
LEMMA DefineKept ==
  ASSUME NEW p, Accounted(p), DefineDomain
  PROVE  Kept(p)
<1>0. /\ Here /\ Inv /\ Ledger(pc, loc, Own(host), p) /\ p \in BOOLEAN /\ loc \in Locals
      /\ pc = "define" /\ ~check /\ Item.state # "absent"
  BY LocalsType DEF Accounted, Here, Ledger, DefineDomain, Inv, Control, Writing, At, Located
<1> DEFINE e == loc.existing
           created == e = None
<1>1. ASSUME NEW u \in DefineTargets(Item.name, IncomingUuid),
             NEW macs \in Filled(CarryOver(Item.macs, loc.before)),
             Continue(IF created THEN "autostart" ELSE "newXml"),
             Mutate(u, DefinedAs(u, Item.name, Item.cfg, macs)),
             loc' = [loc EXCEPT !.dom = u, !.defined = created, !.changed = created]
      PROVE  Kept(p)
  <2> DEFINE d == DefinedAs(u, Item.name, Item.cfg, macs)
  <2>1. loc'.defined = created /\ loc'.changed = created
    BY <1>0, <1>1 DEF Locals
  <2>2. CASE created
    <3>1. Ledger("autostart", loc', Own(host'), p)
      BY <1>0, <2>1, <2>2 DEF Ledger, Holding, Driving, FactPoints
    <3> QED
      BY <1>1, <2>2, <3>1 DEF Kept, Continue
  <2>3. CASE ~created
    <3>1. u = e /\ e \in DOMAIN Own(host)
      BY <1>0, <2>3 DEF Here, At, Located, DefineTargets, IncomingUuid
    <3>2. /\ u \in UUIDs /\ host[u] \in Domain /\ host[u] # None /\ Own(host)[u] = host[u]
          /\ host[u].name = Item.name /\ DOMAIN Own(host) \subseteq {u}
      BY <1>0, <3>1, OwnDomain
    <3>3. macs \in Seq(Macs)
      <4>1. loc.before \in Maybe(Xml) /\ Item.macs \in Seq(Maybe(Macs))
        BY <1>0, ItemType DEF Inv, Busy, Locals, DomainSpec
      <4> QED
        BY <4>1, FilledType
    <3>4. d # None /\ d.name = Item.name
      BY <1>0, <3>2, <3>3, DefinedShows DEF Maybe
    <3>5. d.run = host[u].run /\ d.autostart = host[u].autostart
      BY <3>2 DEF DefinedAs, Domain
    <3>6. host' = [host EXCEPT ![u] = d]
      BY <1>1 DEF Mutate
    <3> HIDE DEF d
    <3>7. DOMAIN Own(host') = {u} /\ Own(host')[u] = d
      BY <1>0, <3>2, <3>4, <3>6, OwnReplaced
    <3>8. p <=> NeedsFlag(Item, host[u]) \/ NeedsDrive(Item, host[u])
      BY <1>0, <3>1, <3>2, ForetoldAt DEF Ledger
    <3>9. Foretold(Item, Own(host')) <=> NeedsFlag(Item, d) \/ NeedsDrive(Item, d)
      BY <1>0, <3>7 DEF Foretold
    <3>10. p <=> Foretold(Item, Own(host'))
      BY <3>5, <3>8, <3>9 DEF NeedsFlag, NeedsDrive
    <3>11. Foretold(Item, Own(host')) \in BOOLEAN
      BY DEF Foretold
    <3>12. Ledger("newXml", loc', Own(host'), p)
      BY <1>0, <2>1, <2>3, <3>10, <3>11 DEF Ledger, Holding, Driving, FactPoints
    <3> QED
      BY <1>1, <2>3, <3>12 DEF Kept, Continue
  <2> QED
    BY <2>2, <2>3
<1> QED
  BY <1>1, CallFailsKept DEF DefineDomain

LEMMA FlagKept ==
  ASSUME NEW p, Accounted(p), ReadAutostart \/ SetAutostart
  PROVE  Kept(p)
<1> USE DEF Holding, Driving, FactPoints
<1>0. /\ Here /\ Inv /\ Ledger(pc, loc, Own(host), p) /\ p \in BOOLEAN /\ loc \in Locals
      /\ loc.changed \in BOOLEAN /\ check \in BOOLEAN
      /\ loc.dom \in DOMAIN Own(host) /\ Item.state # "absent"
  BY LocalsType DEF Accounted, Here, Ledger, ReadAutostart, SetAutostart, At, Located, Inv, TypeOK
<1> DEFINE d == Own(host)[loc.dom]
<1>1. /\ loc.dom \in UUIDs /\ Exists(loc.dom) /\ d = host[loc.dom] /\ d \in Domain
      /\ DOMAIN Own(host) \subseteq {loc.dom}
  BY <1>0, OwnDomain DEF Exists
<1>2. Foretold(Item, Own(host)) <=> NeedsFlag(Item, d) \/ NeedsDrive(Item, d)
  BY <1>0, ForetoldAt
<1>3. Item.state = "present" => ~NeedsDrive(Item, d)
  BY DEF NeedsDrive
<1>4. CASE ReadAutostart
  <2>1. pc = "autostart" /\ (~loc.defined => ~loc.changed /\ (p <=> NeedsFlag(Item, d) \/ NeedsDrive(Item, d)))
    BY <1>0, <1>2, <1>4 DEF ReadAutostart, Ledger
  <2>2. CASE Item.autostart = None /\ Continue(AfterAutostart) /\ Observe /\ UNCHANGED loc
    <3>1. ~NeedsFlag(Item, d)
      BY <2>2 DEF NeedsFlag
    <3>2. Ledger(AfterAutostart, loc', Own(host), p)
      BY <1>0, <1>3, <2>1, <2>2, <3>1 DEF Ledger, AfterAutostart
    <3> QED
      BY <2>2, <3>2, AfterAutostartCases, QuietKept
  <2>3. CASE Item.autostart # None
    <3> DEFINE differs == Exists(loc.dom) /\ host[loc.dom].autostart # Item.autostart
               to == IF differs /\ ~check THEN "setAutostart" ELSE AfterAutostart
               new == [loc EXCEPT !.changed = loc.changed \/ (differs /\ check)]
    <3>1. differs <=> NeedsFlag(Item, d)
      BY <1>1, <2>3 DEF NeedsFlag
    <3>2. /\ new.dom = loc.dom /\ new.defined = loc.defined
          /\ new.changed = (loc.changed \/ (differs /\ check))
          /\ differs \in BOOLEAN
      BY <1>0 DEF Locals
    <3> HIDE DEF new, differs
    <3>3. Ledger(to, new, Own(host), p)
      <4>1. CASE to = "setAutostart"
        BY <1>0, <2>1, <3>1, <3>2, <4>1, AfterAutostartCases DEF Ledger
      <4>2. CASE to = AfterAutostart
        <5>1. ~differs \/ check
          BY <4>2, AfterAutostartCases
        <5>2. CASE loc.defined
          BY <1>0, <2>1, <3>2, <4>2, <5>2, AfterAutostartCases DEF Ledger
        <5>3. CASE ~loc.defined
          <6>1. new.changed = differs
            <7>1. CASE differs
              BY <1>0, <2>1, <3>2, <5>1, <5>3, <7>1
            <7>2. CASE ~differs
              BY <1>0, <2>1, <3>2, <5>3, <7>2
            <7> QED
              BY <7>1, <7>2
          <6>2. p = (new.changed \/ NeedsDrive(Item, d))
            BY <1>0, <2>1, <3>1, <5>3, <6>1 DEF NeedsDrive, NeedsFlag
          <6>3. to = "factState" => new.changed = p
            BY <1>0, <1>3, <3>1, <3>2, <4>2, <6>1, <6>2, AfterAutostartCases
          <6> QED
            BY <1>0, <3>2, <4>2, <5>3, <6>2, <6>3, AfterAutostartCases DEF Ledger
        <5> QED
          BY <5>2, <5>3
      <4> QED
        BY <4>1, <4>2
    <3> QED
      BY <1>4, <2>3, <3>3, AfterAutostartCases, ReadKept DEF ReadAutostart, new, differs
  <2> QED
    BY <1>4, <2>2, <2>3 DEF ReadAutostart
<1>5. CASE SetAutostart
  <2> DEFINE e == [host[loc.dom] EXCEPT !.autostart = Item.autostart]
             new == [loc EXCEPT !.changed = TRUE]
  <2>1. pc = "setAutostart" /\ ~check /\ Item.autostart \in BOOLEAN
    BY <1>0, <1>5, ItemType DEF SetAutostart, Inv, Control, Writing, DomainSpec, Maybe, Busy
  <2>2. new.changed = TRUE /\ new.defined = loc.defined /\ new.dom = loc.dom
    BY <1>0 DEF Locals
  <2>3. ~loc.defined => p
    BY <1>0, <2>1 DEF Ledger
  <2> HIDE DEF new
  <2>4. Ledger(AfterAutostart, new, Own(host'), p)
    <3>1. ~loc.defined => p = (new.changed \/ NeedsDrive(Item, Own(host')[loc.dom])) /\ p = new.changed
      BY <1>0, <2>2, <2>3
    <3> QED
      BY <1>0, <2>1, <2>2, <3>1, AfterAutostartCases DEF Ledger
  <2> QED
    BY <1>5, <2>4, AfterAutostartCases, CallKept DEF SetAutostart, new
<1> QED
  BY <1>4, <1>5

LEMMA DriveKept ==
  ASSUME NEW p, Accounted(p), ReadActive \/ ReadState \/ ApplyRunState
  PROVE  Kept(p)
<1> USE DEF Holding, Driving, FactPoints
<1>0. /\ Here /\ Inv /\ Ledger(pc, loc, Own(host), p) /\ p \in BOOLEAN /\ loc \in Locals
      /\ loc.changed \in BOOLEAN /\ loc.active \in BOOLEAN
      /\ loc.dom \in DOMAIN Own(host) /\ Item.state # "absent"
  BY LocalsType DEF Accounted, Here, Ledger, ReadActive, ReadState, ApplyRunState, At, Located
<1> DEFINE d == Own(host)[loc.dom]
<1>1. pc \in Driving /\ (IF loc.defined THEN loc.changed
                         ELSE p = (loc.changed \/ NeedsDrive(Item, d)))
  BY <1>0 DEF Ledger, ReadActive, ReadState, ApplyRunState
<1>2. ASSUME NEW new, NEW to \in Driving, new.defined = loc.defined, new.changed = loc.changed,
             new.dom = loc.dom
      PROVE  Ledger(to, new, Own(host), p)
  BY <1>0, <1>1, <1>2 DEF Ledger
<1>3. CASE ReadActive
  <2> DEFINE active == Exists(loc.dom) /\ IsActive(loc.dom)
             new == [loc EXCEPT !.active = active]
             to == IF active THEN "state" ELSE "drive"
  <2>1. new.defined = loc.defined /\ new.changed = loc.changed /\ new.dom = loc.dom
    BY <1>0 DEF Locals
  <2> HIDE DEF new
  <2>2. Ledger(to, new, Own(host), p)
    BY <1>2, <2>1
  <2> QED
    BY <1>3, <2>2, ReadKept DEF ReadActive, new
<1>4. CASE ReadState
  <2> DEFINE new == [loc EXCEPT !.run = host[loc.dom].run]
  <2>1. new.defined = loc.defined /\ new.changed = loc.changed /\ new.dom = loc.dom
    BY <1>0 DEF Locals
  <2> HIDE DEF new
  <2>2. Ledger("drive", new, Own(host), p)
    BY <1>2, <2>1
  <2> QED
    BY <1>4, <2>2, ReadKept DEF ReadState, new
<1>5. CASE ApplyRunState
  <2>1. /\ d \in Domain /\ loc.active = (d.run # "shutoff")
        /\ loc.active => loc.run = d.run
    BY <1>0, <1>5, OwnDomain DEF ApplyRunState, Here, At, Fresh
  <2>2. Operation # "nothing" <=> NeedsDrive(Item, d)
    BY <1>0, <2>1 DEF Operation, NeedsDrive, Domain, RunStates
  <2>3. CASE Operation = "nothing" /\ Continue("factState") /\ Observe /\ UNCHANGED loc
    <3>1. ~loc.defined => loc.changed = p
      BY <1>0, <1>1, <2>2, <2>3
    <3>2. Ledger("factState", loc', Own(host), p)
      BY <1>0, <1>1, <2>3, <3>1 DEF Ledger
    <3> QED
      BY <2>3, <3>2, QuietKept
  <2>4. CASE Operation # "nothing"
    <3> DEFINE new == [loc EXCEPT !.changed = TRUE]
    <3>1. new.defined = loc.defined /\ new.changed = TRUE
      BY <1>0 DEF Locals
    <3>2. ~loc.defined => p = TRUE
      BY <1>0, <1>1, <2>2, <2>4
    <3> HIDE DEF new
    <3>3. \A h : Ledger("factState", new, Own(h), p)
      BY <1>0, <3>1, <3>2 DEF Ledger
    <3>4. CASE Continue("factState") /\ Observe /\ loc' = new
      BY <3>3, <3>4, QuietKept
    <3>5. ASSUME NEW possible, NEW e, Call("factState", loc.dom, possible, e, new) PROVE Kept(p)
      BY <3>3, <3>5, CallKept
    <3> QED
      BY <1>5, <2>4, <3>4, <3>5 DEF ApplyRunState, new
  <2> QED
    BY <1>5, <2>3, <2>4 DEF ApplyRunState
<1> QED
  BY <1>3, <1>4, <1>5

LEMMA FactsKept ==
  ASSUME NEW p, Accounted(p), FactState \/ FactActive \/ FactAutostart \/ FactPersistent
  PROVE  Kept(p)
<1> USE DEF Holding, Driving, FactPoints
<1>0. /\ Here /\ Inv /\ Ledger(pc, loc, Own(host), p) /\ p \in BOOLEAN /\ loc \in Locals
      /\ loc.changed \in BOOLEAN /\ loc.defined \in BOOLEAN /\ pc \in FactPoints
  BY LocalsType DEF Accounted, Here, Ledger, FactState, FactActive, FactAutostart, FactPersistent,
     Locals
<1>1. ASSUME NEW new, NEW to \in FactPoints, new.defined = loc.defined, new.changed = loc.changed
      PROVE  Ledger(to, new, Own(host), p)
  BY <1>0, <1>1 DEF Ledger
<1>2. ASSUME NEW new, NEW to \in FactPoints, Read(to, loc.dom, new),
             new.defined = loc.defined, new.changed = loc.changed
      PROVE  Kept(p)
  BY <1>1, <1>2, ReadKept
<1>3. CASE FactState \/ FactActive \/ FactAutostart
  <2>1. ASSUME NEW x
        PROVE  /\ [loc EXCEPT !.facts.run = x].defined = loc.defined
               /\ [loc EXCEPT !.facts.run = x].changed = loc.changed
               /\ [loc EXCEPT !.facts.active = x].defined = loc.defined
               /\ [loc EXCEPT !.facts.active = x].changed = loc.changed
               /\ [loc EXCEPT !.facts.autostart = x].defined = loc.defined
               /\ [loc EXCEPT !.facts.autostart = x].changed = loc.changed
    BY <1>0 DEF Locals
  <2> QED
    BY <1>2, <1>3, <2>1 DEF FactState, FactActive, FactAutostart
<1>4. CASE FactPersistent
  <2>1. loc.changed = (p \/ loc.defined)
    BY <1>0 DEF Ledger
  <2> QED
    BY <1>4, <2>1, EndKept, CallFailsKept DEF FactPersistent
<1> QED
  BY <1>3, <1>4

LEMMA ReconcileKept ==
  ASSUME NEW p, Accounted(p), Reconcile
  PROVE  Kept(p)
  BY RemovalKept, DefinitionKept, DefineKept, FlagKept, DriveKept, FactsKept DEF Reconcile

\* The account of the state the module is in.
Keeps(p) ==
  IF pc = "next" THEN Balanced(entries[i], loc, p)
  ELSE Ledger(pc, loc, Own(host), p)

\* The real run has yet to reach what the forecast still says of the host.
Awaiting ==
  forecast # None =>
    \A j \in 1..Len(forecast.items) :
      pc = "idle" \/ j > i => Foresees(forecast.entries[j], forecast.items[j], host)

\* The real run under a forecast keeps to it.
Answering ==
  forecast # None /\ pc # "idle" =>
    /\ calm /\ ~check /\ forecast.items = items
    /\ forecast.entries[i].failed \/ Keeps(forecast.entries[i].changed)

\* The dry run gathers what it finds to do.
Recording ==
  calm /\ check /\ pc # "idle" =>
    /\ \A j \in 1..Len(entries) : Foresees(entries[j], items[j], host)
    /\ pc # "next" => Ledger(pc, loc, Own(host), Foretold(Item, Own(host)))

Foreseeing == Awaiting /\ Answering /\ Recording

LEMMA KeptKeeps ==
  ASSUME NEW p, UNCHANGED <<items, i, check>>, Kept(p)
  PROVE  Keeps(p)'
<1>1. Item' = Item
  BY DEF Item
<1>2. Own(host)' = Own(host')
  BY <1>1 DEF Own
<1>3. CASE pc' = "next"
  <2>1. Balanced(entries[i], loc, p)'
    BY <1>3 DEF Kept, Balanced
  <2> QED
    BY <1>3, <2>1 DEF Keeps
<1>4. CASE pc' # "next"
  <2>1. Ledger(pc, loc, Own(host), p)'
    BY <1>1, <1>2, <1>4 DEF Kept, Ledger, Foretold, NeedsFlag, NeedsDrive
  <2> QED
    BY <1>4, <2>1 DEF Keeps
<1> QED
  BY <1>3, <1>4

\* An item starts with everything foretold still to be done.
LEMMA KeepsFromStart ==
  ASSUME NEW p, pc' = "validate", loc' = NoLocals, p = Foretold(Item, Own(host))'
  PROVE  Keeps(p)'
<1>1. p \in BOOLEAN
  BY DEF Foretold
<1>2. Ledger("validate", NoLocals, Own(host), p)'
  BY <1>1 DEF Ledger, NoLocals, Holding, Driving, FactPoints
<1> QED
  BY <1>2 DEF Keeps

LEMMA ReconcileForeseeing ==
  ASSUME Distinct, Inv, Outcome, Settling, Foreseeing, Reconcile
  PROVE  Foreseeing'
<1>1. /\ pc \in Busy /\ UNCHANGED <<items, i, check, disturbed, calm, settled, forecast>>
      /\ pc # "idle" /\ pc # "next" /\ pc' # "idle" /\ Module
  BY ReconcileKeepsItem, ReconcileRecords DEF Busy, Module
<1>2. /\ i \in 1..Len(items) /\ Len(entries) = i - 1 /\ Len(items) \in Nat
  BY <1>1, ItemPlace
<1>3. calm => Here
  BY <1>1 DEF Settling, Outcome, Here
<1>4. Awaiting'
  <2> SUFFICES ASSUME forecast # None, NEW j \in 1..Len(forecast.items), j > i
               PROVE  Foresees(forecast.entries[j], forecast.items[j], host')
    BY <1>1 DEF Awaiting
  <2>1. forecast.items = items /\ j \in 1..Len(items) /\ j # i
    BY <1>1, <1>2 DEF Foreseeing, Answering
  <2>2. Foresees(forecast.entries[j], items[j], host)
    BY <1>1, <2>1 DEF Foreseeing, Awaiting
  <2>3. OwnIn(items[j], host') = OwnIn(items[j], host)
    BY <2>1, OthersAlone
  <2> QED
    BY <2>1, <2>2, <2>3 DEF Foresees
<1>5. Answering'
  <2>1. ASSUME forecast # None, ~forecast.entries[i].failed
        PROVE  Keeps(forecast.entries[i].changed)'
    <3> DEFINE p == forecast.entries[i].changed
    <3>1. calm /\ Ledger(pc, loc, Own(host), p)
      BY <1>1, <2>1 DEF Foreseeing, Answering, Keeps
    <3>2. Kept(p)
      BY <1>3, <3>1, ReconcileKept DEF Accounted
    <3>3. PICK q : q = p
      OBVIOUS
    <3>4. Keeps(q)'
      BY <1>1, <3>2, <3>3, KeptKeeps
    <3> QED
      BY <1>1, <3>3, <3>4
  <2> QED
    BY <1>1, <2>1 DEF Foreseeing, Answering
<1>6. CASE calm /\ check
  <2> DEFINE p == Foretold(Item, Own(host))
  <2>1. host' = host /\ Item' = Item /\ Own(host)' = Own(host)
    <3>1. host' = host /\ Item' = Item
      BY <1>1, <1>6, DryStep DEF Item
    <3> QED
      BY <3>1 DEF Own
  <2>2. Kept(p)
    BY <1>1, <1>3, <1>6, ReconcileKept DEF Foreseeing, Recording, Accounted
  <2>3. p' = p
    BY <2>1 DEF Foretold, NeedsFlag, NeedsDrive
  <2>4. pc' # "next" => Ledger(pc, loc, Own(host), p)'
    <3>1. PICK q : q = p
      OBVIOUS
    <3>2. Keeps(q)'
      BY <1>1, <2>2, <3>1, KeptKeeps
    <3> QED
      BY <2>3, <3>1, <3>2 DEF Keeps
  <2>5. ASSUME NEW j \in 1..Len(entries')
        PROVE  Foresees(entries'[j], items[j], host)
    <3>1. CASE pc' = "next"
      <4>1. PICK e : EndItem(e)
        BY <3>1, ReconcileRecords
      <4>2. /\ Len(entries') = i
            /\ \A m \in 1..(i - 1) : entries'[m] = entries[m]
        BY <1>1, <4>1, EntriesGrow
      <4>3. CASE j = i
        <5>1. Balanced(entries'[i], loc', p) /\ p \in BOOLEAN
          BY <2>2, <3>1 DEF Kept, Foretold
        <5>2. OwnIn(items[i], host) = Own(host)
          BY OwnInItem DEF Item
        <5>3. entries'[i].failed \/ entries'[i].changed = p
          BY <1>6, <5>1 DEF Balanced
        <5> QED
          BY <4>3, <5>2, <5>3 DEF Foresees, Item
      <4>4. CASE j # i
        <5>1. j \in 1..Len(entries) /\ entries'[j] = entries[j]
          BY <1>2, <4>2, <4>4
        <5> QED
          BY <1>1, <1>6, <5>1 DEF Foreseeing, Recording
      <4> QED
        BY <4>3, <4>4
    <3>2. CASE pc' # "next"
      <4>1. UNCHANGED entries
        BY <3>2, ReconcileRecords
      <4> QED
        BY <1>1, <1>6, <4>1 DEF Foreseeing, Recording
    <3> QED
      BY <3>1, <3>2
  <2>6. Recording'
    BY <1>1, <2>1, <2>4, <2>5 DEF Recording
  <2> QED
    BY <1>4, <1>5, <2>6 DEF Foreseeing
<1>7. CASE ~(calm /\ check)
  BY <1>1, <1>4, <1>5, <1>7 DEF Foreseeing, Recording
<1> QED
  BY <1>6, <1>7

LEMMA NextItemForeseeing ==
  ASSUME Inv, Foreseeing, NextItem
  PROVE  Foreseeing'
<1>1. /\ pc = "next" /\ pc' = "validate" /\ i < Len(items) /\ i' = i + 1
      /\ loc' = NoLocals /\ UNCHANGED <<host, items, check, entries, calm, forecast>>
  BY DEF NextItem, task
<1>2. i \in 1..Len(items) /\ Len(items) \in Nat /\ i' \in 1..Len(items) /\ i' > i
  BY <1>1, ItemPlace
<1>3. OwnIn(items[i'], host) = Own(host)'
  BY <1>1 DEF OwnIn, Own, Item
<1>4. Awaiting'
  BY <1>1, <1>2 DEF Foreseeing, Awaiting
<1>5. Answering'
  <2>1. ASSUME forecast # None, ~forecast.entries[i'].failed
        PROVE  Keeps(forecast.entries[i].changed)'
    <3>1. PICK q : q = forecast.entries[i'].changed
      OBVIOUS
    <3>2. Foresees(forecast.entries[i'], items[i'], host)
      BY <1>1, <1>2, <2>1 DEF Foreseeing, Awaiting, Answering
    <3>3. q = Foretold(Item, Own(host))'
      BY <1>1, <1>3, <2>1, <3>1, <3>2 DEF Foresees, Foretold, Item, NeedsFlag, NeedsDrive
    <3>4. Keeps(q)'
      BY <1>1, <3>3, KeepsFromStart
    <3> QED
      BY <1>1, <3>1, <3>4
  <2> QED
    BY <1>1, <2>1 DEF Foreseeing, Answering
<1>6. Recording'
  <2>1. PICK q : q = Foretold(Item, Own(host))'
    OBVIOUS
  <2>2. Keeps(q)'
    BY <1>1, <2>1, KeepsFromStart
  <2> QED
    BY <1>1, <2>1, <2>2 DEF Foreseeing, Recording, Keeps
<1> QED
  BY <1>4, <1>5, <1>6 DEF Foreseeing

LEMMA StartForeseeing ==
  ASSUME Foreseeing, NEW c \in BOOLEAN, StartRun(c)
  PROVE  Foreseeing'
<1>1. /\ pc = "idle" /\ pc' = "validate" /\ items' \in Playbooks /\ i' = 1 /\ check' = c
      /\ loc' = NoLocals /\ entries' = <<>> /\ calm' = TRUE /\ UNCHANGED host
      /\ forecast' = IF ~c /\ forecast # None /\ forecast.items = items'
                     THEN forecast ELSE None
  BY DEF StartRun
<1>2. 1 \in 1..Len(items')
  BY <1>1, PlaybooksAssumption
<1>3. OwnIn(items'[1], host) = Own(host)'
  BY <1>1 DEF OwnIn, Own, Item
<1>4. ASSUME forecast' # None
      PROVE  forecast' = forecast /\ forecast.items = items' /\ ~c
  BY <1>1, <1>4
<1>5. Awaiting'
  BY <1>1, <1>4 DEF Foreseeing, Awaiting
<1>6. Answering'
  <2>1. ASSUME forecast' # None, ~forecast'.entries[1].failed
        PROVE  Keeps(forecast.entries[i].changed)'
    <3>1. PICK q : q = forecast'.entries[1].changed
      OBVIOUS
    <3>2. Foresees(forecast'.entries[1], items'[1], host)
      BY <1>1, <1>2, <1>4, <2>1 DEF Foreseeing, Awaiting
    <3>3. q = Foretold(Item, Own(host))'
      BY <1>1, <1>3, <2>1, <3>1, <3>2 DEF Foresees, Foretold, Item, NeedsFlag, NeedsDrive
    <3>4. Keeps(q)'
      BY <1>1, <3>3, KeepsFromStart
    <3> QED
      BY <1>1, <3>1, <3>4
  <2> QED
    BY <1>1, <1>4, <2>1 DEF Answering
<1>7. Recording'
  <2>1. PICK q : q = Foretold(Item, Own(host))'
    OBVIOUS
  <2>2. Keeps(q)'
    BY <1>1, <2>1, KeepsFromStart
  <2>3. \A j \in 1..Len(entries') : FALSE
    BY <1>1
  <2> QED
    BY <1>1, <2>1, <2>2, <2>3 DEF Recording, Keeps
<1> QED
  BY <1>5, <1>6, <1>7 DEF Foreseeing

LEMMA ExitForeseeing ==
  ASSUME Inv, Foreseeing, FinishRun \/ Kill \/ Environment
  PROVE  Foreseeing'
<1>1. CASE FinishRun
  <2>1. /\ pc = "next" /\ i = Len(items) /\ pc' = "idle" /\ calm' = FALSE /\ UNCHANGED host
        /\ forecast' = IF check /\ calm
                       THEN [items |-> items, entries |-> entries] ELSE None
    BY <1>1 DEF FinishRun, Exit
  <2>2. Len(entries) = Len(items)
    BY <2>1, ItemPlace
  <2>3. CASE check /\ calm
    <3>1. forecast'.items = items /\ forecast'.entries = entries
      BY <2>1, <2>3
    <3>2. \A j \in 1..Len(items) : Foresees(entries[j], items[j], host)
      BY <2>1, <2>2, <2>3 DEF Foreseeing, Recording
    <3> QED
      BY <2>1, <3>1, <3>2 DEF Foreseeing, Awaiting, Answering, Recording
  <2>4. CASE ~(check /\ calm)
    BY <2>1, <2>4 DEF Foreseeing, Awaiting, Answering, Recording
  <2> QED
    BY <2>3, <2>4
<1>2. CASE Kill
  BY <1>2 DEF Kill, Exit, Foreseeing, Awaiting, Answering, Recording
<1>3. CASE Environment
  <2>1. calm' = FALSE /\ forecast' = None
    BY <1>3, EnvironmentForgets
  <2> QED
    BY <2>1 DEF Foreseeing, Awaiting, Answering, Recording
<1> QED
  BY <1>1, <1>2, <1>3

LEMMA StutterForeseeing ==
  ASSUME Foreseeing, UNCHANGED vars
  PROVE  Foreseeing'
<1>1. UNCHANGED <<host, pc, items, i, check, loc, entries, calm, forecast>>
  BY DEF vars
<1>2. Item' = Item /\ Own(host)' = Own(host)
  <2>1. Item' = Item
    BY <1>1 DEF Item
  <2> QED
    BY <1>1, <2>1 DEF Own
<1>3. Awaiting'
  BY <1>1 DEF Foreseeing, Awaiting
<1>4. ASSUME NEW q, Keeps(q) PROVE Keeps(q)'
  <2>1. Kept(q)
    BY <1>1, <1>2, <1>4 DEF Kept, Keeps
  <2> QED
    BY <1>1, <2>1, KeptKeeps
<1>5. Answering'
  <2>1. PICK q : q = forecast.entries[i].changed
    OBVIOUS
  <2>2. forecast # None /\ pc # "idle" /\ ~forecast.entries[i].failed => Keeps(q)'
    BY <1>4, <2>1 DEF Foreseeing, Answering
  <2> QED
    BY <1>1, <2>1, <2>2 DEF Foreseeing, Answering
<1>6. Recording'
  <2>1. PICK q : q = Foretold(Item, Own(host))
    OBVIOUS
  <2>2. Foretold(Item, Own(host))' = q
    BY <1>2, <2>1 DEF Foretold, NeedsFlag, NeedsDrive
  <2>3. calm /\ check /\ pc # "idle" /\ pc # "next" => Keeps(q)'
    BY <1>4, <2>1 DEF Foreseeing, Recording, Keeps
  <2>4. calm /\ check /\ pc # "idle" /\ pc # "next" => Ledger(pc, loc, Own(host), q)'
    BY <1>1, <2>3 DEF Keeps
  <2> QED
    BY <1>1, <2>2, <2>4 DEF Foreseeing, Recording
<1> QED
  BY <1>3, <1>5, <1>6 DEF Foreseeing

\* Where each domain is listed once and nobody else has touched the host since, the
\* real run reports exactly the items the dry run named and those whose definition
\* it rewrote: what one item does is not what a later one was foretold from.
THEOREM ForetellsRun == Distinct => (Spec => []CheckForecast)
<1> SUFFICES ASSUME Distinct PROVE Spec => []CheckForecast
  OBVIOUS
<1>1. Init => Foreseeing
  BY DEF Init, Foreseeing, Awaiting, Answering, Recording
<1>2. Inv /\ Outcome /\ Settling /\ Foreseeing /\ [Next]_vars => Foreseeing'
  BY ReconcileForeseeing, NextItemForeseeing, StartForeseeing, ExitForeseeing,
     StutterForeseeing DEF Next, Module
<1>3. Foreseeing => CheckForecast
  BY DEF Foreseeing, Answering, Keeps, Balanced, CheckForecast, Succeeded
<1> QED
  BY <1>1, <1>2, <1>3, SettlingInvariance, PTL DEF Spec
=============================================================================
