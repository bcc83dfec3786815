-------------------------- MODULE DefinitionsProofs --------------------------
(***************************************************************************)
(* Proofs about Definitions for any plays, lists and names: everything     *)
(* libvirt is given was built of an item that the filter, the argument     *)
(* spec and the builder took (Built), so it is well-formed and says what   *)
(* the item asks; and when a domain is made, its disks are there           *)
(* (Progress).                                                             *)
(***************************************************************************)
EXTENDS Definitions, RoleFilterProofs, SequenceTheorems, TLAPS

-----------------------------------------------------------------------------
(* Names, volumes and disks *)

LEMMA AppendPart ==
  ASSUME NEW S, NEW s \in Seq(S), NEW e \in S
  PROVE  /\ s \o <<e>> \in Seq(S) /\ Last(s \o <<e>>) = e
         /\ Len(s \o <<e>>) = Len(s) + 1
         /\ \A x \in 1..Len(s) : (s \o <<e>>)[x] = s[x]
  BY DEF Last

LEMMA PrefixOf ==
  ASSUME NEW S, NEW s \in Seq(S), NEW t \in Seq(S), Len(s) <= Len(t),
         \A x \in 1..Len(s) : t[x] = s[x]
  PROVE  IsPrefix(s, t)
<1>1. Len(s) \in Nat /\ \A x \in 1..Len(s) : t[x] \in S
  OBVIOUS
<1>2. /\ SubSeq(t, 1, Len(s)) \in Seq(S) /\ Len(SubSeq(t, 1, Len(s))) = Len(s)
      /\ \A x \in 1..Len(s) : SubSeq(t, 1, Len(s))[x] = t[x]
  BY <1>1
<1>3. SubSeq(t, 1, Len(s)) = s
  BY <1>2, SeqEqual
<1> QED
  BY <1>3, SubSeqFull DEF IsPrefix

\* A file of an instance begins with its name and ends as its kind does.
LEMMA FileParts ==
  ASSUME NEW vm, vm.name \in Seq(Parts), NEW part \in Seq(Parts), NEW ending \in Parts
  PROVE  /\ File(vm, part, ending) \in Seq(Parts)
         /\ Last(File(vm, part, ending)) = ending
         /\ IsPrefix(vm.name, File(vm, part, ending))
<1> DEFINE a == vm.name \o part
           f == a \o <<ending>>
<1>1. /\ a \in Seq(Parts) /\ Len(a) = Len(vm.name) + Len(part)
      /\ \A x \in 1..Len(vm.name) : a[x] = vm.name[x]
      /\ Len(vm.name) \in Nat /\ Len(part) \in Nat
  BY ConcatProperties, LenProperties
<1> HIDE DEF a
<1>2. /\ f \in Seq(Parts) /\ Last(f) = ending /\ Len(f) = Len(a) + 1
      /\ \A x \in 1..Len(a) : f[x] = a[x]
  BY <1>1, AppendPart
<1> HIDE DEF f
<1>3. Len(vm.name) <= Len(f) /\ \A x \in 1..Len(vm.name) : f[x] = vm.name[x]
  BY <1>1, <1>2
<1>4. IsPrefix(vm.name, f)
  BY <1>2, <1>3, PrefixOf
<1>5. File(vm, part, ending) = f
  BY DEF File, f, a
<1> QED
  BY <1>2, <1>4, <1>5

\* An instance of a play, and how many disks of its own it has.
Instance(vm) ==
  /\ vm.name \in Seq(Parts) /\ Listed(vm.data_disks)
  /\ \A x \in 1..Len(vm.data_disks) : vm.data_disks[x].name \in Seq(Parts)

LEMMA InstanceType ==
  ASSUME NEW p \in UNION Sites, p.role = "instances", NEW x \in 1..Len(p.list)
  PROVE  Instance(p.list[x])
<1>1. p.list[x] \in ToSet(p.list)
  BY DefinitionsAssumption DEF ToSet, Listed
<1>2. \A y \in DOMAIN p.list[x].data_disks : p.list[x].data_disks[y] \in ToSet(p.list[x].data_disks)
  BY DEF ToSet
<1> QED
  BY <1>1, <1>2, InstancesAssumption DEF Instance, Listed

LEMMA Endings ==
  ASSUME NEW vm, Instance(vm)
  PROVE  /\ OsDisk(vm) \in Seq(Parts) /\ Last(OsDisk(vm)) = ".qcow2"
         /\ IsPrefix(vm.name, OsDisk(vm))
         /\ SeedIso(vm) \in Seq(Parts) /\ Last(SeedIso(vm)) = ".iso"
         /\ IsPrefix(vm.name, SeedIso(vm))
         /\ \A x \in 1..Len(vm.data_disks) :
              /\ DataDisk(vm, x) \in Seq(Parts) /\ Last(DataDisk(vm, x)) = ".qcow2"
              /\ IsPrefix(vm.name, DataDisk(vm, x))
<1>1. "os" \in Parts /\ "cidata" \in Parts /\ ".qcow2" \in Parts /\ ".iso" \in Parts
  BY InstancesAssumption
<1>2. \A part \in Parts : <<part>> \in Seq(Parts)
  OBVIOUS
<1>3. <<"os">> \in Seq(Parts) /\ <<"cidata">> \in Seq(Parts)
  BY <1>1, <1>2
<1> QED
  BY <1>1, <1>3, FileParts DEF Instance, OsDisk, SeedIso, DataDisk

\* The volumes of an instance are its system disk and its data disks.
LEMMA VolumesOf ==
  ASSUME NEW vm, Instance(vm)
  PROVE  LET all == instance_volumes(vm, Base)
         IN  /\ Len(all) = 1 + Len(vm.data_disks) /\ Len(vm.data_disks) \in Nat
             /\ all[1].name = OsDisk(vm)
             /\ \A x \in 1..Len(vm.data_disks) : all[x + 1].name = DataDisk(vm, x)
<1> DEFINE first == [name |-> OsDisk(vm), capacity |-> vm.os_disk_gb, clone_source |-> Base[vm.os]]
           data(x) == [name |-> DataDisk(vm, x), capacity |-> vm.data_disks[x].size_gb,
                       clone_source |-> None]
           m == Len(vm.data_disks)
           more == [x \in 1..m |-> data(x)]
           S == {first} \cup {data(x) : x \in 1..m}
<1>1. m \in Nat /\ DOMAIN vm.data_disks = 1..m
  BY DEF Instance, Listed
<1>2. <<first>> \in Seq(S) /\ Len(<<first>>) = 1 /\ <<first>>[1] = first
  OBVIOUS
<1>3. more \in Seq(S) /\ Len(more) = m /\ \A x \in 1..m : more[x] = data(x)
  BY <1>1
<1>4. instance_volumes(vm, Base) = <<first>> \o more
  BY <1>1 DEF instance_volumes
<1>5. first.name = OsDisk(vm) /\ \A x \in 1..m : data(x).name = DataDisk(vm, x)
  OBVIOUS
<1> HIDE DEF first, more, S, data
<1>6. /\ Len(<<first>> \o more) = 1 + m /\ (<<first>> \o more)[1] = first
      /\ \A x \in 1..m : (<<first>> \o more)[x + 1] = data(x)
  BY <1>1, <1>2, <1>3, ConcatProperties
<1> QED
  BY <1>1, <1>4, <1>5, <1>6

\* The disks of an instance are its volumes and its seed, in this order.
LEMMA DisksOf ==
  ASSUME NEW vm, Instance(vm), NEW root, NEW cdrom
  PROVE  LET disks == instance_disks(vm, root, cdrom, Letters)
             m == Len(vm.data_disks)
         IN  /\ m \in Nat /\ DOMAIN disks = 1..(m + 2)
             /\ disks[1].source = OsDisk(vm) /\ disks[1].device = None
             /\ \A x \in 1..m : /\ disks[x + 1].source = DataDisk(vm, x)
                                /\ disks[x + 1].device = None
             /\ disks[m + 2].source = SeedIso(vm) /\ disks[m + 2].device = "cdrom"
<1> DEFINE first == [source |-> OsDisk(vm), target_dev |-> <<"vd", "a">>, device |-> None,
                     bus |-> root]
           data(x) == [source |-> DataDisk(vm, x), target_dev |-> <<"vd", Letters[x]>>,
                       device |-> None, bus |-> "virtio"]
           seed == [source |-> SeedIso(vm), target_dev |-> <<"sd", "a">>, device |-> "cdrom",
                    bus |-> cdrom]
           m == Len(vm.data_disks)
           more == [x \in 1..m |-> data(x)]
           S == {first, seed} \cup {data(x) : x \in 1..m}
           front == <<first>> \o more
<1>1. m \in Nat /\ DOMAIN vm.data_disks = 1..m
  BY DEF Instance, Listed
<1>2. /\ <<first>> \in Seq(S) /\ Len(<<first>>) = 1 /\ <<first>>[1] = first
      /\ <<seed>> \in Seq(S) /\ Len(<<seed>>) = 1 /\ <<seed>>[1] = seed
  OBVIOUS
<1>3. more \in Seq(S) /\ Len(more) = m /\ \A x \in 1..m : more[x] = data(x)
  BY <1>1
<1>4. instance_disks(vm, root, cdrom, Letters) = front \o <<seed>>
  BY <1>1 DEF instance_disks
<1>5. /\ first.source = OsDisk(vm) /\ first.device = None
      /\ seed.source = SeedIso(vm) /\ seed.device = "cdrom"
      /\ \A x \in 1..m : data(x).source = DataDisk(vm, x) /\ data(x).device = None
  OBVIOUS
<1> HIDE DEF first, more, S, data, seed
<1>6. /\ front \in Seq(S) /\ Len(front) = 1 + m /\ front[1] = first
      /\ \A x \in 1..m : front[x + 1] = data(x)
  BY <1>1, <1>2, <1>3, ConcatProperties
<1> HIDE DEF front
<1>7. /\ front \o <<seed>> \in Seq(S) /\ Len(front \o <<seed>>) = m + 2
      /\ \A x \in 1..(m + 1) : (front \o <<seed>>)[x] = front[x]
      /\ (front \o <<seed>>)[m + 2] = seed
  BY <1>1, <1>2, <1>6, ConcatProperties
<1>8. DOMAIN (front \o <<seed>>) = 1..(m + 2)
  BY <1>7, LenProperties
<1>9. \A x \in 1..m : (front \o <<seed>>)[x + 1] = data(x)
  BY <1>1, <1>6, <1>7
<1> QED
  BY <1>1, <1>4, <1>5, <1>6, <1>7, <1>8, <1>9

-----------------------------------------------------------------------------
(* What libvirt has been given *)

\* A network was built of an item that the filter, the argument spec and the builder took.
NetworkBuilt(n) ==
  LET spec == network_spec(n.item, n.from.domain, n.from.dns)
  IN  /\ n.from \in Asked("network") /\ n.item \in ToSet(n.from.list)
      /\ FilterAccepts(n.item) /\ NetworkArgs(spec) /\ NetworkValid(spec)
      /\ n.xml = NetworkXML(spec)

PoolBuilt(p) == \E spec : PoolValid(spec) /\ p = PoolXML(spec)

\* A volume is a base image, or made of a definition the builder took, in the format that
\* the ending of its name tells.
VolumeBuilt(v) ==
  \/ v.xml = None /\ \E os \in DOMAIN Base : v.name = Base[os]
  \/ /\ v.xml # None /\ GoodName(v.name) /\ v.xml.capacity > 0
     /\ IF v.as = "seed" THEN Last(v.name) = ".iso" /\ v.xml.format = "iso"
        ELSE Last(v.name) = ".qcow2" /\ v.xml.format = "qcow2"

DomainBuilt(d) ==
  \E p \in Asked("instances"), type \in DOMAIN_TYPES : \E x \in 1..Len(p.list) :
    /\ DomainValid(DomainArgs(p.list[x], type, p))
    /\ d = DomainXML(DomainArgs(p.list[x], type, p))

Built ==
  /\ \A n \in nets : NetworkBuilt(n)
  /\ \A p \in pools : PoolBuilt(p)
  /\ \A v \in vols : VolumeBuilt(v)
  /\ \A d \in doms : DomainBuilt(d)

\* Where the play is, and what let it come there.
Placed ==
  /\ pc \in {"idle", "items", "volumes", "seed", "domain"}
  /\ site \in Sites /\ play \in site /\ k \in 1..Len(play.list)
  /\ j \in Nat \ {0} /\ failed \in BOOLEAN
  /\ pc = "idle" => k = 1
  /\ pc = "items" => play.role # "instances" /\ Accepted(play)
  /\ pc \in {"volumes", "seed", "domain"} => play.role = "instances"
  /\ pc = "volumes" => j <= 1 + Len(Item.data_disks)
  /\ pc \in {"seed", "domain"} => ~failed /\ j = 1

LEMMA PlacePlay ==
  ASSUME Placed
  PROVE  /\ play \in UNION Sites /\ Len(play.list) \in Nat /\ DOMAIN play.list = 1..Len(play.list)
         /\ play.list # <<>> /\ Item \in ToSet(play.list)
         /\ play.role = "instances" => Instance(Item)
<1>1. play \in UNION Sites /\ k \in 1..Len(play.list)
  BY DEF Placed
<1>2. Len(play.list) \in Nat /\ DOMAIN play.list = 1..Len(play.list) /\ play.list # <<>>
  BY <1>1, DefinitionsAssumption DEF Listed
<1> QED
  BY <1>1, <1>2, InstanceType DEF Item, ToSet

LEMMA FirstItem ==
  ASSUME NEW p \in UNION Sites
  PROVE  1 \in 1..Len(p.list)
<1>1. Len(p.list) \in Nat /\ DOMAIN p.list = 1..Len(p.list) /\ p.list # <<>>
  BY DefinitionsAssumption DEF Listed
<1> QED
  BY <1>1

LEMMA AcceptedArgs ==
  ASSUME Placed, pc = "items"
  PROVE  /\ play.role = "network" =>
              /\ FilterAccepts(Item)
              /\ Nets(play)[k] = network_spec(Item, play.domain, play.dns)
              /\ NetworkArgs(network_spec(Item, play.domain, play.dns))
         /\ play.role = "storage_pool" => PoolArgs(Item)
<1>1. Accepted(play) /\ Item \in ToSet(play.list) /\ k \in DOMAIN play.list
  BY PlacePlay DEF Placed
<1>2. CASE play.role = "network"
  <2>1. Nets(play)[k] = network_spec(Item, play.domain, play.dns)
    BY <1>1 DEF Nets, network_specs, Item
  <2>2. Nets(play)[k] \in ToSet(Nets(play))
    BY <1>1 DEF Nets, network_specs, ToSet
  <2> QED
    BY <1>1, <1>2, <2>1, <2>2 DEF Accepted
<1>3. CASE play.role = "storage_pool"
  BY <1>1, <1>3 DEF Accepted
<1> QED
  BY <1>2, <1>3

LEMMA EndPlaced ==
  ASSUME Placed, EndPlay, UNCHANGED site
  PROVE  Placed'
<1>1. play \in UNION Sites
  BY PlacePlay
<1>2. 1 \in 1..Len(play.list)
  BY <1>1, FirstItem
<1>3. /\ pc' = "idle" /\ k' = 1 /\ j' = 1 /\ failed' = FALSE /\ play' = play /\ site' = site
      /\ site \in Sites /\ play \in site
  BY DEF EndPlay, Placed
<1>4. k' \in 1..Len(play'.list)
  BY <1>2, <1>3
<1>5. failed' \in BOOLEAN
  BY <1>3
<1> QED
  BY <1>3, <1>4, <1>5 DEF Placed

LEMMA BeginPlaced ==
  ASSUME Placed, BeginPlay, UNCHANGED site
  PROVE  Placed'
<1>1. PICK p \in site :
        IF Accepted(p)
        THEN /\ pc' = IF p.role = "instances" THEN "volumes" ELSE "items"
             /\ play' = p /\ k' = 1 /\ j' = 1 /\ failed' = FALSE
        ELSE play' = p /\ UNCHANGED <<pc, k, j, failed>>
  BY DEF BeginPlay
<1>2. p \in UNION Sites /\ pc = "idle" /\ k = 1 /\ site \in Sites /\ j \in Nat \ {0}
      /\ failed \in BOOLEAN
  BY DEF BeginPlay, Placed
<1>3. 1 \in 1..Len(p.list)
  BY <1>2, FirstItem
<1>4. CASE Accepted(p)
  <2>1. p.role = "instances" => Instance(p.list[1])
    BY <1>2, <1>3, InstanceType
  <2>2. p.role = "instances" => 1 <= 1 + Len(p.list[1].data_disks)
    BY <2>1 DEF Instance, Listed
  <2>3. Accepted(play') /\ Item' = p.list[1]
    BY <1>1, <1>4 DEF Item
  <2>4. /\ pc' \in {"items", "volumes"} /\ play' = p /\ k' = 1 /\ j' = 1 /\ failed' = FALSE
        /\ pc' = "volumes" <=> p.role = "instances"
    BY <1>1, <1>4
  <2>5. k' \in 1..Len(play'.list)
    BY <1>3, <2>4
  <2>6. failed' \in BOOLEAN
    BY <2>4
  <2> QED
    BY <1>2, <2>2, <2>3, <2>4, <2>5, <2>6 DEF Placed
<1>5. CASE ~Accepted(p)
  BY <1>1, <1>2, <1>3, <1>5 DEF Placed
<1> QED
  BY <1>4, <1>5

LEMMA ItemsPlaced ==
  ASSUME Placed, pc = "items", NEW ok \in BOOLEAN, NextItem(ok), UNCHANGED site
  PROVE  Placed'
<1>1. CASE k < Len(play.list)
  <2>1. Len(play.list) \in Nat
    BY PlacePlay
  <2>2. /\ k' = k + 1 /\ failed' = (failed \/ ~ok) /\ UNCHANGED <<pc, j, play>>
    BY <1>1 DEF NextItem
  <2>3. Accepted(play)' = Accepted(play)
    BY <2>2
  <2> QED
    BY <1>1, <2>1, <2>2, <2>3 DEF Placed
<1>2. CASE ~(k < Len(play.list))
  BY <1>2, EndPlaced DEF NextItem
<1> QED
  BY <1>1, <1>2

LEMMA InstancePlaced ==
  ASSUME Placed, UNCHANGED site,
         VolumeItem \/ UnknownOs \/ SeedItem \/ DomainItem \/ TooManyDisks
  PROVE  Placed'
<1>1. /\ pc \in {"volumes", "seed", "domain"} /\ play.role = "instances" /\ Instance(Item)
      /\ site \in Sites /\ play \in site /\ k \in 1..Len(play.list) /\ Len(play.list) \in Nat
      /\ j \in Nat \ {0} /\ failed \in BOOLEAN
  BY PlacePlay DEF VolumeItem, UnknownOs, SeedItem, DomainItem, TooManyDisks, Placed
<1>2. CASE VolumeItem
  <2> DEFINE all == instance_volumes(Item, Base)
  <2>1. Len(all) = 1 + Len(Item.data_disks) /\ Len(Item.data_disks) \in Nat
    BY <1>1, VolumesOf
  <2>2. \/ j < Len(all) /\ j' = j + 1 /\ failed' \in BOOLEAN /\ UNCHANGED <<pc, play, k>>
        \/ EndPlay
        \/ ~failed /\ pc' = "seed" /\ j' = 1 /\ UNCHANGED <<play, k, failed>>
    BY <1>1, <1>2 DEF VolumeItem, Go
  <2>3. CASE j < Len(all) /\ j' = j + 1 /\ failed' \in BOOLEAN /\ UNCHANGED <<pc, play, k>>
    <3>1. pc = "volumes" /\ Item' = Item
      BY <1>2, <2>3 DEF VolumeItem, Item
    <3> HIDE DEF all
    <3>2. j' \in Nat \ {0} /\ j' <= 1 + Len(Item.data_disks)
      BY <1>1, <2>1, <2>3
    <3> QED
      BY <1>1, <2>3, <3>1, <3>2 DEF Placed
  <2>4. CASE ~failed /\ pc' = "seed" /\ j' = 1 /\ UNCHANGED <<play, k, failed>>
    BY <1>1, <2>4 DEF Placed
  <2> QED
    BY <2>2, <2>3, <2>4, EndPlaced
<1>3. CASE SeedItem
  <2>1. CASE pc = "seed" /\ Go("domain") /\ UNCHANGED <<j, failed>>
    BY <1>1, <2>1 DEF Go, Placed
  <2> QED
    BY <1>3, <2>1, EndPlaced DEF SeedItem
<1>4. CASE DomainItem
  <2>1. CASE k < Len(play.list) /\ pc' = "volumes" /\ k' = k + 1 /\ UNCHANGED <<play, j, failed>>
    <3>1. k' \in 1..Len(play.list) /\ play \in UNION Sites
      BY <1>1, <2>1
    <3>2. Instance(play.list[k'])
      BY <1>1, <3>1, InstanceType
    <3>3. j = 1 /\ ~failed
      BY <1>4 DEF DomainItem, Placed
    <3>4. 1 <= 1 + Len(play.list[k'].data_disks)
      BY <3>2 DEF Instance, Listed
    <3> QED
      BY <1>1, <2>1, <3>1, <3>3, <3>4 DEF Placed, Item
  <2> QED
    BY <1>4, <2>1, EndPlaced DEF DomainItem
<1>5. CASE UnknownOs \/ TooManyDisks
  BY <1>5, EndPlaced DEF UnknownOs, TooManyDisks, Fails
<1> QED
  BY <1>1, <1>2, <1>3, <1>4, <1>5

LEMMA NextPlaced ==
  ASSUME Placed, [Next]_vars
  PROVE  Placed'
<1>1. CASE UNCHANGED vars
  BY <1>1 DEF vars, Placed, Item
<1>2. ASSUME UNCHANGED site, NetworkItem \/ PoolItem PROVE Placed'
  BY <1>2, ItemsPlaced DEF NetworkItem, PoolItem
<1> QED
  BY <1>1, <1>2, BeginPlaced, InstancePlaced DEF Next
LEMMA NetworkItemBuilt ==
  ASSUME Placed, Built, NetworkItem
  PROVE  Built'
<1> DEFINE spec == Nets(play)[k]
           new == [from |-> play, item |-> Item, xml |-> NetworkXML(spec)]
<1>1. nets' \subseteq nets \/ (NetworkValid(spec) /\ nets' = nets \cup {new})
  BY DEF NetworkItem
<1>2. UNCHANGED <<pools, vols, doms>> /\ pc = "items" /\ play.role = "network"
  BY DEF NetworkItem
<1>3. NetworkValid(spec) => NetworkBuilt(new)
  <2>1. /\ FilterAccepts(Item) /\ NetworkArgs(spec)
        /\ spec = network_spec(Item, play.domain, play.dns)
    BY <1>2, AcceptedArgs
  <2>2. play \in Asked("network") /\ Item \in ToSet(play.list)
    BY <1>2, PlacePlay DEF Asked
  <2>3. new.from = play /\ new.item = Item /\ new.xml = NetworkXML(spec)
    OBVIOUS
  <2> HIDE DEF new, spec
  <2> QED
    BY <2>1, <2>2, <2>3 DEF NetworkBuilt
<1> QED
  BY <1>1, <1>2, <1>3 DEF Built

LEMMA PoolItemBuilt ==
  ASSUME Built, PoolItem
  PROVE  Built'
<1>1. pools' \subseteq pools \/ (PoolValid(Item) /\ pools' = pools \cup {PoolXML(Item)})
  BY DEF PoolItem
<1>2. UNCHANGED <<nets, vols, doms>>
  BY DEF PoolItem
<1>3. PoolValid(Item) => PoolBuilt(PoolXML(Item))
  BY DEF PoolBuilt
<1> QED
  BY <1>1, <1>2, <1>3 DEF Built

\* A volume that a task makes is as its definition and its name say.
LEMMA MakeBuilt ==
  ASSUME Built, UNCHANGED <<nets, pools, doms>>, NEW v, NEW as, NEW by,
         VolumeValid(v), v.name \in Seq(Parts), v.allocation = None,
         IF as = "seed" THEN Last(v.name) = ".iso" /\ v.format = "iso"
         ELSE Last(v.name) = ".qcow2" /\ v.format = "qcow2",
         Make(v, as, by)
  PROVE  Built' /\ \E x \in vols' : x.name = v.name
<1> DEFINE new == [name |-> v.name, as |-> as, by |-> by, xml |-> VolumeXML(v)]
<1>1. \/ UNCHANGED vols /\ Volumes(v.name) # {}
      \/ vols' = vols \cup {new}
  BY DEF Make
<1>2. VolumeXML(v) # None /\ VolumeXML(v).capacity > 0 /\ VolumeXML(v).format = v.format
  BY VolumesAssumption DEF VolumeXML, VolumeValid, Positive
<1>3. new.name = v.name /\ new.as = as /\ new.xml = VolumeXML(v)
  OBVIOUS
<1> HIDE DEF new
<1>4. VolumeBuilt(new)
  BY <1>2, <1>3 DEF VolumeBuilt, VolumeValid
<1> QED
  BY <1>1, <1>3, <1>4 DEF Built, Volumes, Named

\* What the volume tasks of an instance ask for.
LEMMA VolumeNamed ==
  ASSUME NEW vm, Instance(vm), NEW x \in 1..(1 + Len(vm.data_disks))
  PROVE  LET v == VolumeArgs(instance_volumes(vm, Base)[x])
         IN  /\ v.name = instance_volumes(vm, Base)[x].name
             /\ v.name \in Seq(Parts) /\ Last(v.name) = ".qcow2"
             /\ v.format = "qcow2" /\ v.allocation = None
<1> DEFINE all == instance_volumes(vm, Base)
           m == Len(vm.data_disks)
<1>1. /\ m \in Nat /\ all[1].name = OsDisk(vm)
      /\ \A y \in 1..m : all[y + 1].name = DataDisk(vm, y)
  BY VolumesOf
<1> HIDE DEF all
<1>2. all[x].name \in Seq(Parts) /\ Last(all[x].name) = ".qcow2"
  <2>1. CASE x = 1
    BY <1>1, <2>1, Endings
  <2>2. CASE x # 1
    <3>1. x - 1 \in 1..m /\ (x - 1) + 1 = x
      BY <1>1, <2>2
    <3> QED
      BY <1>1, <3>1, Endings
  <2> QED
    BY <2>1, <2>2
<1> QED
  BY <1>2 DEF VolumeArgs, all

LEMMA VolumeItemBuilt ==
  ASSUME Placed, Built, VolumeItem
  PROVE  Built'
<1> DEFINE v == VolumeArgs(instance_volumes(Item, Base)[j])
           as == IF v.clone_source = None THEN "blank" ELSE "clone"
<1>1. Instance(Item) /\ j \in 1..(1 + Len(Item.data_disks))
  <2>1. Instance(Item) /\ j \in Nat \ {0} /\ j <= 1 + Len(Item.data_disks)
    BY PlacePlay DEF VolumeItem, Placed
  <2> QED
    BY <2>1 DEF Instance, Listed
<1>2. v.name \in Seq(Parts) /\ Last(v.name) = ".qcow2" /\ v.format = "qcow2" /\ v.allocation = None
  BY <1>1, VolumeNamed
<1>3. /\ UNCHANGED <<nets, pools, doms>>
      /\ UNCHANGED vols \/ (VolumeValid(v) /\ Make(v, as, Item.name))
  BY DEF VolumeItem
<1>4. as # "seed"
  OBVIOUS
<1> HIDE DEF v, as
<1>5. CASE UNCHANGED vols
  BY <1>3, <1>5 DEF Built
<1>6. CASE VolumeValid(v) /\ Make(v, as, Item.name)
  BY <1>2, <1>3, <1>4, <1>6, MakeBuilt
<1> QED
  BY <1>3, <1>5, <1>6

LEMMA SeedNamed ==
  ASSUME NEW vm, Instance(vm)
  PROVE  /\ SeedArgs(vm).name = SeedIso(vm) /\ SeedArgs(vm).name \in Seq(Parts)
         /\ Last(SeedArgs(vm).name) = ".iso" /\ SeedArgs(vm).format = "iso"
         /\ SeedArgs(vm).allocation = None
  BY Endings DEF SeedArgs

LEMMA SeedItemBuilt ==
  ASSUME Placed, Built, SeedItem
  PROVE  Built'
<1>1. Instance(Item)
  BY PlacePlay DEF SeedItem, Placed
<1>2. /\ UNCHANGED <<nets, pools, doms>>
      /\ \/ UNCHANGED vols
         \/ VolumeValid(SeedArgs(Item)) /\ Make(SeedArgs(Item), "seed", Item.name)
  BY DEF SeedItem
<1>3. CASE UNCHANGED vols
  BY <1>2, <1>3 DEF Built
<1>4. CASE VolumeValid(SeedArgs(Item)) /\ Make(SeedArgs(Item), "seed", Item.name)
  BY <1>1, <1>2, <1>4, SeedNamed, MakeBuilt
<1> QED
  BY <1>2, <1>3, <1>4

LEMMA DomainItemBuilt ==
  ASSUME Placed, Built, DomainItem
  PROVE  Built'
<1>1. UNCHANGED <<nets, pools, vols>> /\ play \in Asked("instances") /\ k \in 1..Len(play.list)
  BY PlacePlay DEF DomainItem, Placed, Asked
<1>2. ASSUME NEW type \in DOMAIN_TYPES, DomainValid(DomainArgs(Item, type, play))
      PROVE  DomainBuilt(DomainXML(DomainArgs(Item, type, play)))
  BY <1>1, <1>2 DEF DomainBuilt, Item
<1>3. \/ UNCHANGED doms
      \/ \E type \in DOMAIN_TYPES :
           /\ DomainValid(DomainArgs(Item, type, play))
           /\ doms' \subseteq doms \cup {DomainXML(DomainArgs(Item, type, play))}
  BY DEF DomainItem
<1> QED
  BY <1>1, <1>2, <1>3 DEF Built

LEMMA NextBuilt ==
  ASSUME Placed, Built, [Next]_vars
  PROVE  Built'
<1>1. CASE UNCHANGED host
  BY <1>1 DEF host, Built
<1>2. BeginPlay \/ UnknownOs \/ TooManyDisks => UNCHANGED host
  BY DEF BeginPlay, UnknownOs, TooManyDisks, Fails
<1>3. UNCHANGED vars => UNCHANGED host
  BY DEF vars, host
<1> QED
  BY <1>1, <1>2, <1>3, NetworkItemBuilt, PoolItemBuilt, VolumeItemBuilt, SeedItemBuilt,
     DomainItemBuilt DEF Next

LEMMA InitBuilt ==
  ASSUME Init
  PROVE  Placed /\ Built
<1>1. /\ site \in Sites /\ play \in site /\ play \in UNION Sites /\ pc = "idle" /\ k = 1 /\ j = 1
      /\ failed = FALSE
  BY DEF Init
<1>2. k \in 1..Len(play.list) /\ failed \in BOOLEAN
  BY <1>1, FirstItem
<1>3. Placed
  BY <1>1, <1>2 DEF Placed
<1>4. \A v \in vols : v.xml = None /\ \E os \in DOMAIN Base : v.name = Base[os]
  BY DEF Init
<1> QED
  BY <1>3, <1>4 DEF Init, Built, VolumeBuilt

LEMMA BuiltInvariance == Spec => [](Placed /\ Built)
<1>1. Init => Placed /\ Built
  BY InitBuilt
<1>2. Placed /\ Built /\ [Next]_vars => (Placed /\ Built)'
  BY NextPlaced, NextBuilt
<1> QED
  BY <1>1, <1>2, PTL DEF Spec
-----------------------------------------------------------------------------
(* What is given is well-formed and says what was asked *)

LEMMA NetworkForm ==
  ASSUME NEW n, NetworkBuilt(n)
  PROVE  /\ Distinct([x \in DOMAIN n.xml.portgroups |-> n.xml.portgroups[x].name])
         /\ \A pg \in ToSet(n.xml.portgroups) : ToSet(pg.tags) \subseteq VlanIds
         /\ n.xml.forward # None => n.xml.bridge # None
<1> DEFINE spec == network_spec(n.item, n.from.domain, n.from.dns)
           groups == [x \in DOMAIN spec.vlans |->
                        [name |-> spec.vlans[x].name, default |-> spec.vlans[x].default,
                         trunk |-> spec.vlans[x].trunk, tags |-> spec.vlans[x].tags]]
<1>1. NetworkValid(spec) /\ n.xml = NetworkXML(spec)
  BY DEF NetworkBuilt
<1> HIDE DEF spec
<1>2. /\ n.xml.portgroups = groups
      /\ n.xml.bridge = IF spec.mode # None THEN spec.bridge_name ELSE None
      /\ n.xml.forward = IF spec.mode \in {None, "private"} THEN None ELSE spec.mode
  BY <1>1 DEF NetworkXML
<1>3. VlansValid(spec.vlans) /\ (spec.mode # None => Given(spec.bridge_name))
  BY <1>1 DEF NetworkValid
<1>7. \A x, y \in DOMAIN spec.vlans : spec.vlans[x].name = spec.vlans[y].name => x = y
  BY <1>3 DEF VlansValid
<1>8. \A x \in DOMAIN spec.vlans : \A tag \in ToSet(spec.vlans[x].tags) : tag \in VlanIds
  <2> SUFFICES ASSUME NEW x \in DOMAIN spec.vlans, NEW tag \in ToSet(spec.vlans[x].tags)
               PROVE  tag \in VlanIds
    OBVIOUS
  <2>1. TagValid(tag)
    BY <1>3 DEF VlansValid
  <2> QED
    BY <2>1 DEF TagValid, VLAN_TAG_MIN, VLAN_TAG_MAX, VlanIds
<1>4. /\ DOMAIN groups = DOMAIN spec.vlans
      /\ \A x \in DOMAIN spec.vlans : /\ groups[x].name = spec.vlans[x].name
                                      /\ groups[x].tags = spec.vlans[x].tags
  OBVIOUS
<1> HIDE DEF groups
<1>5. Distinct([x \in DOMAIN groups |-> groups[x].name])
  BY <1>7, <1>4 DEF Distinct
<1>6. \A pg \in ToSet(groups) : ToSet(pg.tags) \subseteq VlanIds
  <2> SUFFICES ASSUME NEW pg \in ToSet(groups) PROVE ToSet(pg.tags) \subseteq VlanIds
    OBVIOUS
  <2>1. PICK x \in DOMAIN groups : pg = groups[x]
    BY DEF ToSet
  <2>2. x \in DOMAIN spec.vlans /\ pg.tags = spec.vlans[x].tags
    BY <1>4, <2>1
  <2>3. ASSUME NEW tag \in ToSet(pg.tags) PROVE tag \in VlanIds
    <3>1. tag \in ToSet(spec.vlans[x].tags)
      BY <2>2, <2>3
    <3> QED
      BY <1>8, <2>2, <3>1
  <2> QED
    BY <2>3
<1>9. n.xml.forward # None => n.xml.bridge # None
  BY <1>2, <1>3 DEF Given
<1> QED
  <2>1. Distinct([x \in DOMAIN n.xml.portgroups |-> n.xml.portgroups[x].name])
    BY <1>2, <1>5
  <2>2. \A pg \in ToSet(n.xml.portgroups) : ToSet(pg.tags) \subseteq VlanIds
    <3>1. ToSet(n.xml.portgroups) = ToSet(groups)
      BY <1>2
    <3> QED
      BY <1>6, <3>1
  <2> QED
    BY <2>1, <2>2, <1>9, Zenon

LEMMA PoolForm ==
  ASSUME NEW p, PoolBuilt(p)
  PROVE  /\ p.permissions.mode # None => ToSet(p.permissions.mode) \subseteq 0..7
         /\ {p.permissions.owner, p.permissions.group} \subseteq Maybe(Nat)
  BY DEF PoolBuilt, PoolValid, PoolXML, ModeValid

LEMMA VolumeForm ==
  ASSUME NEW v, VolumeBuilt(v)
  PROVE  v.name \notin BadNames /\ (v.xml # None => v.xml.capacity > 0)
  BY VolumesAssumption DEF VolumeBuilt, GoodName

LEMMA DomainForm ==
  ASSUME NEW d, DomainBuilt(d)
  PROVE  /\ d.memory > 0 /\ d.vcpu > 0
         /\ Distinct([x \in DOMAIN d.disks |-> d.disks[x].target_dev])
<1>1. PICK a : DomainValid(a) /\ d = DomainXML(a)
  BY DEF DomainBuilt
<1>2. d.memory = a.memory_mb /\ d.vcpu = a.vcpus /\ d.disks = [x \in DOMAIN a.disks |-> DiskXML(a.disks[x])]
  BY <1>1 DEF DomainXML
<1>3. /\ Positive(a.memory_mb) /\ Positive(a.vcpus)
      /\ \A x, y \in DOMAIN a.disks : a.disks[x].target_dev = a.disks[y].target_dev => x = y
  BY <1>1 DEF DomainValid, DisksValid
<1>4. \A x \in DOMAIN a.disks : DiskXML(a.disks[x]).target_dev = a.disks[x].target_dev
  BY DEF DiskXML
<1>5. Distinct([x \in DOMAIN d.disks |-> d.disks[x].target_dev])
  BY <1>2, <1>3, <1>4 DEF Distinct
<1> QED
  BY <1>2, <1>3, <1>5 DEF Positive

\* Whatever the roles' variables hold, in lists of any length, and whichever items and
\* calls fail: no network with two port groups of one name, a tag out of range or a
\* forward without a bridge, no pool with a mode that is none, no empty volume or one
\* of a bad name and no domain with two disks at one target reaches libvirt.
THEOREM TypeCorrect == Spec => []TypeOK
<1>1. Placed /\ Built => TypeOK
  <2> SUFFICES ASSUME Placed, Built PROVE TypeOK
    OBVIOUS
  <2>1. /\ pc \in {"idle", "items", "volumes", "seed", "domain"}
        /\ site \in Sites /\ play \in site /\ k \in 1..Len(play.list)
        /\ j \in Nat \ {0} /\ failed \in BOOLEAN
    BY DEF Placed
  <2>2. \A n \in nets :
          /\ Distinct([x \in DOMAIN n.xml.portgroups |-> n.xml.portgroups[x].name])
          /\ \A pg \in ToSet(n.xml.portgroups) : ToSet(pg.tags) \subseteq VlanIds
          /\ n.xml.forward # None => n.xml.bridge # None
    <3> SUFFICES ASSUME NEW n \in nets
                 PROVE  /\ Distinct([x \in DOMAIN n.xml.portgroups |-> n.xml.portgroups[x].name])
                        /\ \A pg \in ToSet(n.xml.portgroups) : ToSet(pg.tags) \subseteq VlanIds
                        /\ n.xml.forward # None => n.xml.bridge # None
      OBVIOUS
    <3>1. NetworkBuilt(n)
      BY DEF Built
    <3> QED
      BY <3>1, NetworkForm
  <2>3. \A p \in pools :
          /\ p.permissions.mode # None => ToSet(p.permissions.mode) \subseteq 0..7
          /\ {p.permissions.owner, p.permissions.group} \subseteq Maybe(Nat)
    BY PoolForm DEF Built
  <2>4. \A v \in vols : v.name \notin BadNames /\ (v.xml # None => v.xml.capacity > 0)
    BY VolumeForm DEF Built
  <2>5. \A d \in doms : /\ d.memory > 0 /\ d.vcpu > 0
                        /\ Distinct([x \in DOMAIN d.disks |-> d.disks[x].target_dev])
    BY DomainForm DEF Built
  <2> QED
    BY <2>1, <2>2, <2>3, <2>4, <2>5 DEF TypeOK
<1> QED
  BY <1>1, BuiltInvariance, PTL

\* For port groups of any number with any ids: what the filter, the argument spec and
\* the builder make of them keeps every group, in its place, with its name and ids, and
\* a group is a trunk when its ids were given as a list.
THEOREM CarriesVlans == Spec => []VlansCarried
<1>1. ASSUME NEW n, NetworkBuilt(n)
      PROVE  /\ Len(n.xml.portgroups) = Len(n.item.vlans)
             /\ \A x \in DOMAIN n.item.vlans :
                  LET asked == n.item.vlans[x]
                      got   == n.xml.portgroups[x]
                  IN  /\ got.name = asked.name /\ got.default = asked.default
                      /\ ToSet(got.tags) = IF asked.vlan = None THEN {} ELSE ToSet(asked.vlan)
                      /\ asked.vlan # None => got.trunk = asked.listed
  <2> DEFINE spec == network_spec(n.item, n.from.domain, n.from.dns)
             vlans == n.item.vlans
             group(x) == [name |-> spec.vlans[x].name, default |-> spec.vlans[x].default,
                          trunk |-> spec.vlans[x].trunk, tags |-> spec.vlans[x].tags]
  <2>1. /\ Listed(vlans)
        /\ \A x \in DOMAIN vlans : vlans[x].trunk \in BOOLEAN /\ vlans[x].listed \in BOOLEAN
    BY <1>1, NetworksAssumption DEF NetworkBuilt, Asked, ToSet
  <2>2. spec.vlans = [x \in DOMAIN vlans |-> vlan_portgroup(vlans[x])]
    BY DEF network_spec
  <2>3. /\ n.xml = NetworkXML(spec) /\ FilterAccepts(n.item) /\ NetworkArgs(spec)
    BY <1>1 DEF NetworkBuilt
  <2> HIDE DEF spec
  <2>4. n.xml.portgroups = [x \in DOMAIN vlans |-> group(x)]
    BY <2>2, <2>3 DEF NetworkXML
  <2>5. Len(n.xml.portgroups) = Len(vlans)
    BY <2>1, <2>4 DEF Listed
  <2>6. ASSUME NEW x \in DOMAIN vlans
        PROVE  LET asked == vlans[x]
                   got   == n.xml.portgroups[x]
               IN  /\ got.name = asked.name /\ got.default = asked.default
                   /\ ToSet(got.tags) = IF asked.vlan = None THEN {} ELSE ToSet(asked.vlan)
                   /\ asked.vlan # None => got.trunk = asked.listed
    <3>1. spec.vlans[x] = vlan_portgroup(vlans[x]) /\ n.xml.portgroups[x] = group(x)
      BY <2>2, <2>4, <2>6
    <3>2. vlans[x].trunk /\ vlans[x].vlan # None => vlans[x].listed
      BY <2>3, <2>6 DEF FilterAccepts
    <3>3. ~vlan_portgroup(vlans[x]).nested
      BY <2>2, <2>3, <2>6, <3>1 DEF NetworkArgs, ToSet
    <3>4. vlans[x].vlan # None => vlans[x].trunk = vlans[x].listed
      <4>1. vlans[x].vlan # None => ~(vlans[x].listed /\ ~vlans[x].trunk)
        BY <3>3 DEF vlan_portgroup
      <4> QED
        BY <2>1, <2>6, <3>2, <4>1
    <3>5. ToSet(<<>>) = {}
      BY DEF ToSet
    <3>6. /\ n.xml.portgroups[x].name = spec.vlans[x].name
          /\ n.xml.portgroups[x].default = spec.vlans[x].default
          /\ n.xml.portgroups[x].trunk = spec.vlans[x].trunk
          /\ n.xml.portgroups[x].tags = spec.vlans[x].tags
      BY <3>1
    <3>7. /\ spec.vlans[x].name = vlans[x].name /\ spec.vlans[x].default = vlans[x].default
          /\ spec.vlans[x].trunk = vlans[x].trunk
          /\ spec.vlans[x].tags = IF vlans[x].vlan = None THEN <<>> ELSE vlans[x].vlan
      BY <3>1 DEF vlan_portgroup
    <3>8. /\ n.xml.portgroups[x].name = vlans[x].name
          /\ n.xml.portgroups[x].default = vlans[x].default
      BY <3>6, <3>7
    <3>9. vlans[x].vlan # None => n.xml.portgroups[x].trunk = vlans[x].listed
      BY <3>4, <3>6, <3>7
    <3>10. ToSet(n.xml.portgroups[x].tags)
             = IF vlans[x].vlan = None THEN {} ELSE ToSet(vlans[x].vlan)
      BY <3>5, <3>6, <3>7
    <3> QED
      BY <3>8, <3>9, <3>10
  <2> QED
    BY <2>5, <2>6
<1>2. Placed /\ Built => VlansCarried
  BY <1>1 DEF Built, VlansCarried
<1> QED
  BY <1>2, BuiltInvariance, PTL

\* A network serves DHCP just if its item says so, from the gateway and on the range of
\* the item, with the start not after the end.
THEOREM CarriesDhcp == Spec => []DhcpCarried
<1>1. ASSUME NEW n, NetworkBuilt(n)
      PROVE  /\ n.item.enable_dhcp = (n.xml.ip # None)
             /\ n.xml.ip # None =>
                  /\ n.xml.ip.gateway = n.item.dhcp_gateway
                  /\ n.item.dhcp_scope_start <= n.item.dhcp_scope_end
                  /\ n.xml.ip.range_start = n.item.dhcp_scope_start
                  /\ n.xml.ip.range_end = n.item.dhcp_scope_end
  <2> DEFINE spec == network_spec(n.item, n.from.domain, n.from.dns)
  <2>1. n.item.enable_dhcp \in BOOLEAN /\ DhcpOf(n.item) # None
    BY <1>1, NetworksAssumption DEF NetworkBuilt, Asked
  <2>5. n.xml = NetworkXML(spec) /\ NetworkValid(spec)
    BY <1>1 DEF NetworkBuilt
  <2>3. spec.dhcp = IF n.item.enable_dhcp THEN DhcpOf(n.item) ELSE None
    BY DEF network_spec
  <2> HIDE DEF spec
  <2>2. n.xml.ip = spec.dhcp /\ (spec.dhcp # None => DhcpValid(spec.dhcp))
    <3>1. NetworkXML(spec).ip = spec.dhcp
      BY DEF NetworkXML
    <3> QED
      BY <2>5, <3>1 DEF NetworkValid
  <2>4. n.xml.ip # None => n.xml.ip = DhcpOf(n.item) /\ DhcpValid(DhcpOf(n.item))
    BY <2>2, <2>3
  <2> QED
    BY <2>1, <2>2, <2>3, <2>4 DEF DhcpOf, DhcpValid
<1>2. Placed /\ Built => DhcpCarried
  BY <1>1 DEF Built, DhcpCarried
<1> QED
  BY <1>2, BuiltInvariance, PTL

\* A network forwards to the servers of its play that are not empty, to each of them
\* and to no other, if it serves DHCP, and to none if it does not.
THEOREM CarriesForwarders == Spec => []ForwardersCarried
<1>1. ASSUME NEW n, NetworkBuilt(n)
      PROVE  ToSet(n.xml.forwarders) = IF n.item.enable_dhcp
                                       THEN ToSet(n.from.dns) \ {None, Empty} ELSE {}
  <2> DEFINE spec == network_spec(n.item, n.from.domain, n.from.dns)
  <2>1. n.item.enable_dhcp \in BOOLEAN /\ IsSequence(n.from.dns)
    BY <1>1, NetworksAssumption DEF NetworkBuilt, Asked, Listed, IsSequence
  <2>2. spec.forwarders = Forwarders(n.item, n.from.dns)
    BY DEF network_spec
  <2>3. n.xml.forwarders = spec.forwarders
    <3>1. n.xml = NetworkXML(spec)
      BY <1>1 DEF NetworkBuilt
    <3> HIDE DEF spec
    <3> QED
      BY <3>1 DEF NetworkXML
  <2>4. n.xml.forwarders = IF n.item.enable_dhcp THEN AddressesIn(n.from.dns) ELSE <<>>
    BY <2>2, <2>3 DEF Forwarders
  <2>5. ToSet(<<>>) = {}
    BY DEF ToSet
  <2> HIDE DEF spec
  <2> QED
    BY <2>1, <2>4, <2>5, AddressesKept
<1>2. Placed /\ Built => ForwardersCarried
  BY <1>1 DEF Built, ForwardersCarried
<1> QED
  BY <1>2, BuiltInvariance, PTL

-----------------------------------------------------------------------------
(* Disks and the volumes behind them *)

\* What libvirt has of a disk: the seed of an instance, or one of its volumes.
DiskOf(vm, disk) ==
  \/ disk.source = SeedIso(vm) /\ disk.readonly = TRUE /\ disk.format = "raw"
  \/ /\ \/ disk.source = OsDisk(vm)
        \/ \E z \in 1..Len(vm.data_disks) : disk.source = DataDisk(vm, z)
     /\ disk.readonly = FALSE /\ disk.format = "qcow2"

LEMMA DisksGiven ==
  ASSUME NEW p \in Asked("instances"), NEW y \in 1..Len(p.list), NEW type
  PROVE  LET vm == p.list[y]
             d  == DomainXML(DomainArgs(vm, type, p))
         IN  /\ Instance(vm) /\ d.name = vm.name
             /\ \A x \in DOMAIN d.disks : DiskOf(vm, d.disks[x])
<1> DEFINE vm == p.list[y]
           a == DomainArgs(vm, type, p)
           d == DomainXML(a)
           disks == instance_disks(vm, p.root_disk_bus, p.cdrom_bus, Letters)
           m == Len(vm.data_disks)
           disk(x) == [source |-> disks[x].source, target_dev |-> disks[x].target_dev,
                       bus |-> disks[x].bus, format |-> None, readonly |-> None,
                       device |-> Or(disks[x].device, "disk")]
<1>1. Instance(vm)
  BY InstanceType DEF Asked
<1>2. /\ m \in Nat /\ DOMAIN disks = 1..(m + 2)
      /\ disks[1].source = OsDisk(vm) /\ disks[1].device = None
      /\ \A x \in 1..m : disks[x + 1].source = DataDisk(vm, x) /\ disks[x + 1].device = None
      /\ disks[m + 2].source = SeedIso(vm) /\ disks[m + 2].device = "cdrom"
  BY <1>1, DisksOf
<1>3. /\ a.name = vm.name /\ a.disks = [x \in DOMAIN disks |-> disk(x)]
  BY DEF DomainArgs
<1>4. d.name = a.name /\ d.disks = [x \in DOMAIN a.disks |-> DiskXML(a.disks[x])]
  BY DEF DomainXML
<1> HIDE DEF a, d, disks
<1>6. /\ \A x : disk(x).source = disks[x].source /\ disk(x).device = Or(disks[x].device, "disk")
      /\ \A x : disk(x).format = None /\ disk(x).readonly = None
  OBVIOUS
<1> HIDE DEF disk
<1>5. DOMAIN d.disks = 1..(m + 2) /\ \A x \in 1..(m + 2) : d.disks[x] = DiskXML(disk(x))
  <2>1. DOMAIN a.disks = DOMAIN disks /\ \A x \in DOMAIN disks : a.disks[x] = disk(x)
    BY <1>3
  <2>2. DOMAIN d.disks = DOMAIN a.disks /\ \A x \in DOMAIN a.disks : d.disks[x] = DiskXML(a.disks[x])
    BY <1>4
  <2> QED
    BY <1>2, <2>1, <2>2
<1>7. ASSUME NEW x, disks[x].device = None
      PROVE  /\ DiskXML(disk(x)).source = disks[x].source
             /\ DiskXML(disk(x)).readonly = FALSE /\ DiskXML(disk(x)).format = "qcow2"
  <2>1. Device(disk(x)) = "disk"
    BY <1>6, <1>7, BuildersAssumption DEF Device, Or, Given
  <2> QED
    BY <1>6, <2>1 DEF DiskXML, Or, Given
<1>8. ASSUME NEW x, disks[x].device = "cdrom"
      PROVE  /\ DiskXML(disk(x)).source = disks[x].source
             /\ DiskXML(disk(x)).readonly = TRUE /\ DiskXML(disk(x)).format = "raw"
  <2>1. Device(disk(x)) = "cdrom"
    BY <1>6, <1>8, BuildersAssumption DEF Device, Or
  <2> QED
    BY <1>6, <2>1 DEF DiskXML, Or, Given
<1>9. ASSUME NEW x \in DOMAIN d.disks
      PROVE  DiskOf(vm, d.disks[x])
  <2>1. x \in 1..(m + 2) /\ d.disks[x] = DiskXML(disk(x))
    BY <1>5, <1>9
  <2>2. CASE x = 1
    BY <1>2, <1>7, <2>1, <2>2 DEF DiskOf
  <2>3. CASE x = m + 2
    BY <1>2, <1>8, <2>1, <2>3 DEF DiskOf
  <2>4. CASE x # 1 /\ x # m + 2
    <3>1. x - 1 \in 1..m /\ (x - 1) + 1 = x
      BY <1>2, <2>1, <2>4
    <3>2. disks[x].source = DataDisk(vm, x - 1) /\ disks[x].device = None
      BY <1>2, <3>1
    <3> QED
      BY <1>7, <2>1, <3>1, <3>2 DEF DiskOf
  <2> QED
    BY <2>2, <2>3, <2>4
<1>10. d.name = vm.name
  BY <1>3, <1>4
<1> QED
  BY <1>1, <1>9, <1>10 DEF d, a

\* What begins a name begins it up to the shorter of the two.
LEMMA PrefixesNested ==
  ASSUME NEW S, NEW s \in Seq(S), NEW t \in Seq(S), NEW u \in Seq(S),
         IsPrefix(s, u), IsPrefix(t, u), Len(s) <= Len(t)
  PROVE  IsPrefix(s, t)
<1>1. ASSUME NEW r \in Seq(S), IsPrefix(r, u), NEW x \in 1..Len(r)
      PROVE  r[x] = u[x]
  <2>1. SubSeq(r, 1, Len(r)) = SubSeq(u, 1, Len(r)) /\ Len(r) <= Len(u)
    BY <1>1 DEF IsPrefix
  <2>2. SubSeq(r, 1, Len(r))[x] = r[x] /\ SubSeq(u, 1, Len(r))[x] = u[x]
    BY <2>1
  <2> QED
    BY <2>1, <2>2
<1>2. \A x \in 1..Len(s) : x \in 1..Len(t)
  OBVIOUS
<1>3. \A x \in 1..Len(s) : t[x] = s[x]
  BY <1>1, <1>2
<1> QED
  BY <1>3, PrefixOf

LEMMA BuiltDisks ==
  ASSUME NEW d, DomainBuilt(d)
  PROVE  \E p \in Asked("instances") : \E y \in 1..Len(p.list) :
           /\ Instance(p.list[y]) /\ d.name = p.list[y].name
           /\ \A x \in DOMAIN d.disks : DiskOf(p.list[y], d.disks[x])
<1>1. PICK p \in Asked("instances"), type \in DOMAIN_TYPES :
        \E y \in 1..Len(p.list) : d = DomainXML(DomainArgs(p.list[y], type, p))
  BY DEF DomainBuilt
<1>2. PICK y \in 1..Len(p.list) : d = DomainXML(DomainArgs(p.list[y], type, p))
  BY <1>1
<1> DEFINE vm == p.list[y]
           g  == DomainXML(DomainArgs(vm, type, p))
<1>3. /\ Instance(vm) /\ g.name = vm.name
      /\ \A x \in DOMAIN g.disks : DiskOf(vm, g.disks[x])
  BY DisksGiven
<1>4. d = g
  BY <1>2
<1> HIDE DEF g
<1> QED
  BY <1>3, <1>4

LEMMA SourcePrefixed ==
  ASSUME NEW d, DomainBuilt(d), NEW f \in Sources(d)
  PROVE  d.name \in Seq(Parts) /\ f \in Seq(Parts) /\ IsPrefix(d.name, f)
<1>1. PICK p \in Asked("instances") : \E y \in 1..Len(p.list) :
        /\ Instance(p.list[y]) /\ d.name = p.list[y].name
        /\ \A x \in DOMAIN d.disks : DiskOf(p.list[y], d.disks[x])
  BY BuiltDisks
<1>2. PICK y \in 1..Len(p.list) :
        /\ Instance(p.list[y]) /\ d.name = p.list[y].name
        /\ \A x \in DOMAIN d.disks : DiskOf(p.list[y], d.disks[x])
  BY <1>1
<1>3. \/ f \in {SeedIso(p.list[y]), OsDisk(p.list[y])}
      \/ \E z \in 1..Len(p.list[y].data_disks) : f = DataDisk(p.list[y], z)
  BY <1>2 DEF Sources, DiskOf
<1> QED
  BY <1>2, <1>3, Endings DEF Instance

\* Instances of any names, with disks of any names: a disk of two domains begins with the
\* name of each, so one of the names begins with the other.
THEOREM SharesNoDisk == Spec => []OwnVolumes
<1>1. Placed /\ Built => OwnVolumes
  <2> SUFFICES ASSUME Built, NEW d \in doms, NEW e \in doms, NEW f \in Sources(d) \cap Sources(e)
               PROVE  IsPrefix(d.name, e.name) \/ IsPrefix(e.name, d.name)
    BY DEF OwnVolumes, Apart
  <2>1. DomainBuilt(d) /\ DomainBuilt(e)
    BY DEF Built
  <2>2. /\ d.name \in Seq(Parts) /\ e.name \in Seq(Parts) /\ f \in Seq(Parts)
        /\ IsPrefix(d.name, f) /\ IsPrefix(e.name, f)
    BY <2>1, SourcePrefixed
  <2>3. Len(d.name) <= Len(e.name) \/ Len(e.name) <= Len(d.name)
    BY <2>2
  <2> QED
    BY <2>2, <2>3, PrefixesNested
<1> QED
  BY <1>1, BuiltInvariance, PTL

-----------------------------------------------------------------------------
(* The volumes are there before the domain *)

Exists(n) == \E v \in vols : v.name = n

VolumeExists(x) == Exists(instance_volumes(Item, Base)[x].name)

\* How far the play of an instance has come, if nothing has failed.
Progress ==
  /\ pc = "volumes" /\ ~failed => \A x \in 1..(j - 1) : VolumeExists(x)
  /\ pc \in {"seed", "domain"} => \A x \in 1..(1 + Len(Item.data_disks)) : VolumeExists(x)
  /\ pc = "domain" => Exists(SeedIso(Item))
  /\ \A d \in doms : \A x \in DOMAIN d.disks : Exists(d.disks[x].source)

LEMMA VolumesKept ==
  ASSUME vols \subseteq vols', NEW n, Exists(n)
  PROVE  Exists(n)'
  BY DEF Exists

\* While the item is the same, a volume that is there stays.
LEMMA ItemKept ==
  ASSUME vols \subseteq vols', UNCHANGED <<play, k>>
  PROVE  /\ Item' = Item
         /\ \A x : VolumeExists(x) => VolumeExists(x)'
         /\ Exists(SeedIso(Item)) => Exists(SeedIso(Item))'
  BY DEF VolumeExists, Exists, Item

LEMMA MakeExists ==
  ASSUME NEW v, NEW as, NEW by, Make(v, as, by)
  PROVE  vols \subseteq vols' /\ \E x \in vols' : x.name = v.name
<1> DEFINE new == [name |-> v.name, as |-> as, by |-> by, xml |-> VolumeXML(v)]
<1>1. \/ UNCHANGED vols /\ Volumes(v.name) # {}
      \/ vols' = vols \cup {new}
  BY DEF Make
<1>2. new.name = v.name
  OBVIOUS
<1> HIDE DEF new
<1> QED
  BY <1>1, <1>2 DEF Volumes, Named

LEMMA VolumeItemMade ==
  ASSUME Placed, Progress, VolumeItem
  PROVE  Progress'
<1> DEFINE all == instance_volumes(Item, Base)
           v == VolumeArgs(all[j])
           as == IF v.clone_source = None THEN "blank" ELSE "clone"
<1>1. /\ play.role = "instances" /\ Instance(Item) /\ pc = "volumes" /\ j \in Nat \ {0}
      /\ Len(all) = 1 + Len(Item.data_disks) /\ Len(Item.data_disks) \in Nat
      /\ failed \in BOOLEAN
  BY PlacePlay, VolumesOf DEF VolumeItem, Placed
<1>2. v.name = all[j].name
  BY DEF VolumeArgs
<1>3. /\ UNCHANGED doms
      /\ \/ /\ Make(v, as, Item.name)
            /\ \/ j < Len(all) /\ j' = j + 1 /\ UNCHANGED <<pc, play, k, failed>>
               \/ pc' = "idle"
               \/ j >= Len(all) /\ ~failed /\ pc' = "seed" /\ UNCHANGED <<play, k>>
         \/ /\ UNCHANGED vols
            /\ \/ failed' = TRUE /\ pc' = "volumes"
               \/ pc' = "idle"
  BY <1>1 DEF VolumeItem, EndPlay, Go
<1> HIDE DEF all, v, as
<1>4. vols \subseteq vols'
  BY <1>3, MakeExists
<1>5. \A d \in doms' : \A x \in DOMAIN d.disks : Exists(d.disks[x].source)'
  BY <1>3, <1>4, VolumesKept DEF Progress
<1>6. CASE pc' = "idle" \/ (failed' = TRUE /\ pc' = "volumes")
  BY <1>5, <1>6 DEF Progress
<1>7. CASE Make(v, as, Item.name) /\ UNCHANGED <<play, k>> /\ ~failed
  <2>1. Item' = Item /\ (\A x : VolumeExists(x) => VolumeExists(x)')
    BY <1>4, <1>7, ItemKept
  <2>2. \E x \in vols' : x.name = all[j].name
    BY <1>2, <1>7, MakeExists
  <2>3. ASSUME NEW y \in 1..j PROVE VolumeExists(y)'
    <3>1. CASE y = j
      <4>1. VolumeExists(y)' <=> \E x \in vols' : x.name = instance_volumes(Item, Base)[y].name
        BY <2>1 DEF VolumeExists, Exists
      <4> QED
        BY <2>2, <3>1, <4>1 DEF all
    <3>2. CASE y # j
      <4>1. y \in 1..(j - 1)
        BY <1>1, <3>2
      <4>2. VolumeExists(y)
        BY <1>1, <1>7, <4>1 DEF Progress
      <4> QED
        BY <2>1, <4>2
    <3> QED
      BY <3>1, <3>2
  <2>4. CASE j < Len(all) /\ j' = j + 1 /\ UNCHANGED <<pc, play, k, failed>>
    <3>1. j' - 1 = j
      BY <1>1, <2>4
    <3>2. \A x \in 1..(j' - 1) : VolumeExists(x)'
      BY <2>3, <3>1
    <3> QED
      BY <1>1, <1>5, <2>4, <3>2 DEF Progress
  <2>5. CASE j >= Len(all) /\ ~failed /\ pc' = "seed"
    <3>1. \A x \in 1..(1 + Len(Item.data_disks)) : x \in 1..j
      BY <1>1, <2>5
    <3>2. \A x \in 1..(1 + Len(Item'.data_disks)) : VolumeExists(x)'
      BY <2>1, <2>3, <3>1
    <3> QED
      BY <1>5, <2>5, <3>2 DEF Progress
  <2> QED
    BY <1>3, <1>6, <1>7, <2>4, <2>5
<1>8. CASE failed /\ pc' = "volumes" /\ UNCHANGED failed
  BY <1>5, <1>8 DEF Progress
<1> QED
  BY <1>1, <1>3, <1>6, <1>7, <1>8

LEMMA SeedItemMade ==
  ASSUME Placed, Progress, SeedItem
  PROVE  Progress'
<1>1. /\ pc = "seed" /\ UNCHANGED doms
      /\ \/ /\ Make(SeedArgs(Item), "seed", Item.name)
            /\ pc' = "domain" /\ UNCHANGED <<play, k>>
         \/ (UNCHANGED vols \/ Make(SeedArgs(Item), "seed", Item.name)) /\ pc' = "idle"
  BY DEF SeedItem, Go, EndPlay
<1>2. vols \subseteq vols'
  BY <1>1, MakeExists
<1>3. \A d \in doms' : \A x \in DOMAIN d.disks : Exists(d.disks[x].source)'
  BY <1>1, <1>2, VolumesKept DEF Progress
<1>4. CASE pc' = "idle"
  BY <1>3, <1>4 DEF Progress
<1>5. CASE Make(SeedArgs(Item), "seed", Item.name) /\ pc' = "domain" /\ UNCHANGED <<play, k>>
  <2>1. Item' = Item /\ (\A x : VolumeExists(x) => VolumeExists(x)')
    BY <1>2, <1>5, ItemKept
  <2>2. \E x \in vols' : x.name = SeedArgs(Item).name
    BY <1>5, MakeExists
  <2>3. SeedArgs(Item).name = SeedIso(Item)
    BY DEF SeedArgs
  <2>4. Exists(SeedIso(Item))'
    BY <2>1, <2>2, <2>3 DEF Exists
  <2>5. \A x \in 1..(1 + Len(Item'.data_disks)) : VolumeExists(x)'
    BY <1>1, <2>1 DEF Progress
  <2> QED
    BY <1>3, <1>5, <2>4, <2>5 DEF Progress
<1> QED
  BY <1>1, <1>4, <1>5

\* The disks of the domain that is made are the volumes and the seed that are there.
LEMMA DisksThere ==
  ASSUME Placed, Progress, pc = "domain", NEW type
  PROVE  LET d == DomainXML(DomainArgs(Item, type, play))
         IN  \A x \in DOMAIN d.disks : Exists(d.disks[x].source)
<1> DEFINE d == DomainXML(DomainArgs(Item, type, play))
<1>1. play \in Asked("instances") /\ k \in 1..Len(play.list) /\ Instance(Item)
  BY PlacePlay DEF Placed, Asked
<1>2. \A x \in DOMAIN d.disks : DiskOf(Item, d.disks[x])
  BY <1>1, DisksGiven DEF Item
<1>3. /\ Exists(SeedIso(Item))
      /\ \A x \in 1..(1 + Len(Item.data_disks)) : VolumeExists(x)
  BY DEF Progress
<1>4. LET all == instance_volumes(Item, Base)
      IN  /\ Len(Item.data_disks) \in Nat /\ all[1].name = OsDisk(Item)
          /\ \A x \in 1..Len(Item.data_disks) : all[x + 1].name = DataDisk(Item, x)
  BY <1>1, VolumesOf
<1>5. Exists(OsDisk(Item))
  BY <1>3, <1>4 DEF VolumeExists
<1>6. ASSUME NEW x \in 1..Len(Item.data_disks) PROVE Exists(DataDisk(Item, x))
  <2>1. VolumeExists(x + 1)
    BY <1>3, <1>4
  <2> QED
    BY <1>4, <2>1 DEF VolumeExists
<1> HIDE DEF d
<1>7. \A x \in DOMAIN d.disks : Exists(d.disks[x].source)
  BY <1>2, <1>3, <1>5, <1>6 DEF DiskOf
<1> QED
  BY <1>7 DEF d

LEMMA DomainItemMade ==
  ASSUME Placed, Progress, DomainItem
  PROVE  Progress'
<1>1. /\ UNCHANGED vols
      /\ \/ pc' = "idle"
         \/ pc' = "volumes" /\ UNCHANGED j
      /\ \/ UNCHANGED doms
         \/ \E type \in DOMAIN_TYPES :
              doms' \subseteq doms \cup {DomainXML(DomainArgs(Item, type, play))}
      /\ pc = "domain" /\ j = 1
  BY DEF DomainItem, EndPlay, Placed
<1>2. \A n : Exists(n) => \E v \in vols' : v.name = n
  BY <1>1 DEF Exists
<1>3. \A d \in doms : \A x \in DOMAIN d.disks : Exists(d.disks[x].source)
  BY DEF Progress
<1>4. \A type \in DOMAIN_TYPES :
        LET d == DomainXML(DomainArgs(Item, type, play))
        IN  \A x \in DOMAIN d.disks : Exists(d.disks[x].source)
  BY <1>1, DisksThere
<1>5. ASSUME NEW d \in doms', NEW x \in DOMAIN d.disks
      PROVE  Exists(d.disks[x].source)'
  <2>1. Exists(d.disks[x].source)
    BY <1>1, <1>3, <1>4, <1>5
  <2> QED
    BY <1>2, <2>1 DEF Exists
<1>6. CASE pc' = "idle"
  BY <1>5, <1>6 DEF Progress
<1>7. CASE pc' = "volumes" /\ UNCHANGED j
  <2>1. \A x \in 1..(j' - 1) : FALSE
    BY <1>1, <1>7
  <2> QED
    BY <1>5, <1>7, <2>1 DEF Progress
<1> QED
  BY <1>1, <1>6, <1>7

LEMMA NextMade ==
  ASSUME Placed, Progress, [Next]_vars
  PROVE  Progress'
<1>1. CASE UNCHANGED vars
  <2>1. UNCHANGED <<pc, play, k, j, failed, vols, doms>>
    BY <1>1 DEF vars
  <2> QED
    BY <2>1 DEF Progress, VolumeExists, Exists, Item
<1>2. CASE NetworkItem \/ PoolItem
  <2>1. UNCHANGED <<vols, doms>> /\ pc' \in {"idle", "items"}
    BY <1>2 DEF NetworkItem, PoolItem, NextItem, EndPlay
  <2> QED
    BY <2>1 DEF Progress, Exists
<1>3. CASE UnknownOs \/ TooManyDisks
  <2>1. UNCHANGED <<vols, doms>> /\ pc' = "idle"
    BY <1>3 DEF UnknownOs, TooManyDisks, Fails, EndPlay, host
  <2> QED
    BY <2>1 DEF Progress, Exists
<1>4. CASE BeginPlay
  <2>1. /\ UNCHANGED <<vols, doms>>
        /\ \/ pc' \in {"idle", "items"}
           \/ pc' = "volumes" /\ j' = 1
    BY <1>4 DEF BeginPlay, host
  <2>2. j' = 1 => \A x \in 1..(j' - 1) : FALSE
    OBVIOUS
  <2> QED
    BY <2>1, <2>2 DEF Progress, Exists
<1> QED
  BY <1>1, <1>2, <1>3, <1>4, VolumeItemMade, SeedItemMade, DomainItemMade DEF Next

LEMMA InitMade == Init => Progress
<1> SUFFICES ASSUME Init PROVE Progress
  OBVIOUS
<1> QED
  BY DEF Init, Progress

\* The volume behind a disk, and what it says of the disk.
LEMMA DiskMade ==
  ASSUME DisjointBases, Built, NEW d \in doms, NEW x \in DOMAIN d.disks,
         Exists(d.disks[x].source)
  PROVE  \E v \in vols :
           /\ v.name = d.disks[x].source /\ v.xml # None
           /\ d.disks[x].readonly = (v.as = "seed")
           /\ d.disks[x].format = IF v.xml.format = "iso" THEN "raw" ELSE v.xml.format
<1>1. PICK p \in Asked("instances") : \E y \in 1..Len(p.list) :
        /\ Instance(p.list[y]) /\ d.name = p.list[y].name
        /\ \A z \in DOMAIN d.disks : DiskOf(p.list[y], d.disks[z])
  BY BuiltDisks DEF Built
<1>2. PICK y \in 1..Len(p.list) :
        /\ Instance(p.list[y]) /\ d.name = p.list[y].name
        /\ \A z \in DOMAIN d.disks : DiskOf(p.list[y], d.disks[z])
  BY <1>1
<1> DEFINE vm == p.list[y]
           disk == d.disks[x]
<1>3. PICK v \in vols : v.name = disk.source
  BY DEF Exists
<1>4. disk.source \in FileNames(vm) /\ DiskOf(vm, disk)
  BY <1>2 DEF DiskOf, FileNames
<1>5. ~\E os \in DOMAIN Base : v.name = Base[os]
  BY <1>3, <1>4 DEF DisjointBases
<1>6. /\ v.xml # None
      /\ IF v.as = "seed" THEN Last(v.name) = ".iso" /\ v.xml.format = "iso"
         ELSE Last(v.name) = ".qcow2" /\ v.xml.format = "qcow2"
  BY <1>5 DEF Built, VolumeBuilt
<1>7. \/ disk.readonly = TRUE /\ disk.format = "raw" /\ Last(v.name) = ".iso"
      \/ disk.readonly = FALSE /\ disk.format = "qcow2" /\ Last(v.name) = ".qcow2"
  BY <1>2, <1>3, <1>4, Endings DEF DiskOf
<1> HIDE DEF disk
<1>8. \/ disk.readonly = TRUE /\ disk.format = "raw" /\ v.as = "seed" /\ v.xml.format = "iso"
      \/ /\ disk.readonly = FALSE /\ disk.format = "qcow2" /\ v.as # "seed"
         /\ v.xml.format = "qcow2"
  BY <1>6, <1>7
<1>9. disk.readonly = (v.as = "seed")
  BY <1>8
<1>10. disk.format = IF v.xml.format = "iso" THEN "raw" ELSE v.xml.format
  BY <1>8
<1> QED
  BY <1>3, <1>6, <1>9, <1>10 DEF disk

\* For plays of any length, instances with any disks and a failure of any item or call:
\* no domain is defined over a disk that is not there, the seed alone is read-only and
\* each disk has the format of its volume - unless a base image has the name of a file
\* of an instance, when the domain would start from the image itself.
THEOREM MakesDisks == DisjointBases => (Spec => []DisksMade)
<1> SUFFICES ASSUME DisjointBases PROVE Spec => []DisksMade
  OBVIOUS
<1>1. Init => Placed /\ Built /\ Progress
  BY InitBuilt, InitMade
<1>2. Placed /\ Built /\ Progress /\ [Next]_vars => (Placed /\ Built /\ Progress)'
  BY NextPlaced, NextBuilt, NextMade
<1>3. Placed /\ Built /\ Progress => DisksMade
  <2> SUFFICES ASSUME Built, Progress, NEW d \in doms, NEW x \in DOMAIN d.disks
               PROVE  \E v \in vols :
                        /\ v.name = d.disks[x].source /\ v.xml # None
                        /\ d.disks[x].readonly = (v.as = "seed")
                        /\ d.disks[x].format = IF v.xml.format = "iso" THEN "raw"
                                               ELSE v.xml.format
    BY DEF DisksMade
  <2>1. Exists(d.disks[x].source)
    BY DEF Progress
  <2> QED
    BY <2>1, DiskMade
<1> QED
  BY <1>1, <1>2, <1>3, PTL DEF Spec
=============================================================================
