----------------------------- MODULE Definitions -----------------------------
(***************************************************************************)
(* From the roles' variables to what libvirt is given: a play of the role  *)
(* network, storage_pool or instances passes its data through a filter,    *)
(* the module's argument spec and, item by item, an XML builder.  The      *)
(* first two refuse the whole task, the builder one item; a failed task    *)
(* ends the play.  Run states and handles are left to LibvirtNetwork,      *)
(* LibvirtPool, Instances and LibvirtDomain: here an item is one step.     *)
(***************************************************************************)
EXTENDS XmlBuilders

CONSTANTS
  Sites,   \* what an operator runs: a set of plays, the roles' variables of each
  Parts,   \* what the names of instances and their files are made of
  Base,    \* os_base_volumes: the base image of an operating system
  Letters  \* data_disk_letters

VARIABLES
  site,      \* the operator's plays
  pc, play,  \* the task at hand: "idle", "items", "volumes", "seed" or "domain"
  k, j,      \* the item of the play, and the volume of an instance
  failed,    \* whether an item of the task has failed
  nets,      \* networks of libvirt: what libvirt was given, from which item
  pools,     \* pools of libvirt
  vols,      \* volumes: for which instance, cloned, blank or seed, as defined
  doms       \* domains of libvirt

host == <<nets, pools, vols, doms>>
vars == <<site, pc, play, k, j, failed, nets, pools, vols, doms>>

Listed(s) == Len(s) \in Nat /\ DOMAIN s = 1..Len(s)

\* The shapes of the variables: lists are lists, flags are flags, names have parts.
ASSUME DefinitionsAssumption ==
  /\ \A p \in UNION Sites :
       /\ p.role \in {"network", "storage_pool", "instances"}
       /\ Listed(p.list) /\ p.list # <<>>
  /\ \A vd \in 1..Len(Letters) : Given(Letters[vd])
ASSUME NetworksAssumption ==
  \A p \in UNION Sites : p.role = "network" =>
    /\ Listed(p.dns)
    /\ \A n \in ToSet(p.list) :
         /\ n.enable_dhcp \in BOOLEAN /\ DhcpOf(n) # None
         /\ Listed(n.vlans)
         /\ \A vl \in ToSet(n.vlans) : vl.trunk \in BOOLEAN /\ vl.listed \in BOOLEAN
ASSUME InstancesAssumption ==
  /\ {"os", "cidata", ".qcow2", ".iso"} \subseteq Parts
  /\ \A p \in UNION Sites : p.role = "instances" =>
       \A vm \in ToSet(p.list) :
         /\ vm.name \in Seq(Parts) /\ Listed(vm.data_disks)
         /\ \A disk \in ToSet(vm.data_disks) : disk.name \in Seq(Parts)
ASSUME VolumesAssumption ==
  /\ \A os \in DOMAIN Base : Base[os] \notin BadNames
  /\ None \notin [name: Seq(Parts), capacity: Nat, unit: CAPACITY_UNITS,
                 allocation: {None}, format: VOLUME_FORMATS]

-----------------------------------------------------------------------------
(* Argument specs *)

STATES == {"present", "active", "inactive", "absent"}

\* libvirt_network: choices, required_if, and tags that are integers.
NetworkArgs(spec) ==
  /\ spec.state \in STATES
  /\ spec.mode \in Maybe(NETWORK_MODES)
  /\ spec.mode # None => spec.bridge_name # None
  /\ spec.mode = "route" => spec.route_device # None
  /\ \A pg \in ToSet(spec.vlans) : ~pg.nested

\* libvirt_pool
PoolArgs(spec) == spec.name # None /\ spec.state \in STATES /\ spec.type = "dir"

\* libvirt_volume: what instance_volumes leaves out gets its default.
VolumeArgs(v) ==
  [name |-> v.name, capacity |-> v.capacity, unit |-> "G", format |-> "qcow2",
   allocation |-> None, clone_source |-> v.clone_source]

\* libvirt_cloud_init_iso makes a volume of the size of the image it has built.
SeedArgs(vm) ==
  [name |-> SeedIso(vm), capacity |-> 1, unit |-> "bytes", format |-> "iso",
   allocation |-> None, clone_source |-> None]

\* libvirt_domain, as tasks/instance.yml calls it.
DomainArgs(vm, type, p) ==
  LET disks == instance_disks(vm, p.root_disk_bus, p.cdrom_bus, Letters)
  IN  [name |-> vm.name, domain_type |-> type, memory_mb |-> vm.memory_mb,
       vcpus |-> vm.vcpus, features |-> {"acpi", "apic"},
       disks |-> [d \in DOMAIN disks |->
                    [source |-> disks[d].source, target_dev |-> disks[d].target_dev,
                     bus |-> disks[d].bus, format |-> None, readonly |-> None,
                     device |-> Or(disks[d].device, "disk")]],
       interfaces |-> <<[type |-> "network", source |-> p.network, mac |-> None]>>,
       graphics |-> IF p.graphics \in {"spice", "vnc"} THEN p.graphics ELSE "none"]

Item == play.list[k]
Nets(p) == network_specs(p.list, p.domain, p.dns)

\* What a network or pool task survives before its first item.
Accepted(p) ==
  CASE p.role = "network" ->
         /\ \A n \in ToSet(p.list) : FilterAccepts(n)
         /\ \A spec \in ToSet(Nets(p)) : NetworkArgs(spec)
    [] p.role = "storage_pool" -> \A spec \in ToSet(p.list) : PoolArgs(spec)
    [] OTHER -> TRUE

-----------------------------------------------------------------------------
(* libvirt *)

\* Two networks do not share a bridge that libvirt makes, nor two pools a directory.
BridgeFree(xml) ==
  \A n \in nets : n.xml.bridge = xml.bridge => None = xml.bridge \/ xml.forward = "bridge"
PathFree(xml) == \A p \in pools : p.path # xml.path

Named(set, n) == {x \in set : x.name = n}
Volumes(n) == Named(vols, n)

-----------------------------------------------------------------------------

Go(to) == pc' = to /\ UNCHANGED <<play, k>>
EndPlay == pc' = "idle" /\ k' = 1 /\ j' = 1 /\ failed' = FALSE /\ UNCHANGED play

BeginPlay ==
  /\ pc = "idle"
  /\ \E p \in site :
       IF Accepted(p)
       THEN /\ pc' = IF p.role = "instances" THEN "volumes" ELSE "items"
            /\ play' = p /\ k' = 1 /\ j' = 1 /\ failed' = FALSE
       ELSE play' = p /\ UNCHANGED <<pc, k, j, failed>>
  /\ UNCHANGED host

\* An item of a network or pool task is behind us; a failed task ends the play.
NextItem(ok) ==
  /\ IF k < Len(play.list)
     THEN k' = k + 1 /\ failed' = (failed \/ ~ok) /\ UNCHANGED <<pc, j, play>>
     ELSE EndPlay

\* A network that is there is not looked at; an absent one is not built.
NetworkItem ==
  LET spec == Nets(play)[k]
      here == {n \in nets : n.xml.name = spec.name}
      xml  == NetworkXML(spec)
  IN  /\ pc = "items" /\ play.role = "network"
      /\ UNCHANGED <<pools, vols, doms>>
      /\ \/ spec.state = "absent" /\ nets' = nets \ here /\ NextItem(TRUE)
         \/ spec.state # "absent" /\ here # {} /\ UNCHANGED nets /\ NextItem(TRUE)
         \/ /\ spec.state # "absent" /\ here = {}
            /\ NetworkValid(spec) /\ BridgeFree(xml)
            /\ nets' = nets \cup {[from |-> play, item |-> Item, xml |-> xml]}
            /\ NextItem(TRUE)
         \/ UNCHANGED nets /\ NextItem(FALSE)  \* refused, or a call fails

PoolItem ==
  LET spec == Item
      here == Named(pools, spec.name)
  IN  /\ pc = "items" /\ play.role = "storage_pool"
      /\ UNCHANGED <<nets, vols, doms>>
      /\ \/ spec.state = "absent" /\ pools' = pools \ here /\ NextItem(TRUE)
         \/ spec.state # "absent" /\ here # {} /\ UNCHANGED pools /\ NextItem(TRUE)
         \/ /\ spec.state # "absent" /\ here = {}
            /\ PoolValid(spec) /\ PathFree(PoolXML(spec))
            /\ pools' = pools \cup {PoolXML(spec)}
            /\ NextItem(TRUE)
         \/ UNCHANGED pools /\ NextItem(FALSE)

\* The play of an instance fails: the instances after it are not reached.
Fails == EndPlay /\ UNCHANGED host

Make(v, as, by) ==
  IF Volumes(v.name) # {} THEN UNCHANGED vols
  ELSE vols' = vols \cup {[name |-> v.name, as |-> as, by |-> by, xml |-> VolumeXML(v)]}

\* One volume: refused by its builder, kept, cloned or made empty.
VolumeItem ==
  LET all == instance_volumes(Item, Base)
      v   == VolumeArgs(all[j])
  IN  /\ pc = "volumes" /\ VolumesAccept(Item, Base)
      /\ UNCHANGED <<nets, pools, doms>>
      /\ \/ /\ VolumeValid(v)
            /\ v.clone_source # None => Volumes(v.name) \cup Volumes(v.clone_source) # {}
            /\ Make(v, IF v.clone_source = None THEN "blank" ELSE "clone", Item.name)
            /\ IF j < Len(all) THEN j' = j + 1 /\ UNCHANGED <<pc, play, k, failed>>
               ELSE IF failed THEN EndPlay
               ELSE Go("seed") /\ j' = 1 /\ UNCHANGED failed
         \/ /\ UNCHANGED vols  \* refused, or a call fails
            /\ IF j < Len(all) THEN j' = j + 1 /\ failed' = TRUE /\ UNCHANGED <<pc, play, k>>
               ELSE EndPlay

UnknownOs == pc = "volumes" /\ ~VolumesAccept(Item, Base) /\ Fails

\* The seed; when a call fails it may have been made.
SeedItem ==
  LET Seeded == VolumeValid(SeedArgs(Item)) /\ Make(SeedArgs(Item), "seed", Item.name)
  IN  /\ pc = "seed"
      /\ UNCHANGED <<nets, pools, doms>>
      /\ \/ Seeded /\ Go("domain") /\ UNCHANGED <<j, failed>>
         \/ (UNCHANGED vols \/ Seeded) /\ EndPlay

\* Unlike the others, an existing domain is defined again.
DomainItem ==
  /\ pc = "domain" /\ DisksAccept(Item, Letters)
  /\ UNCHANGED <<nets, pools, vols>>
  /\ \/ \E type \in DOMAIN_TYPES :
          LET d == DomainArgs(Item, type, play)
          IN  /\ DomainValid(d)
              /\ doms' = (doms \ Named(doms, d.name)) \cup {DomainXML(d)}
              /\ IF k < Len(play.list)
                 THEN pc' = "volumes" /\ k' = k + 1 /\ UNCHANGED <<play, j, failed>>
                 ELSE EndPlay
     \/ UNCHANGED doms /\ EndPlay

TooManyDisks == pc = "domain" /\ ~DisksAccept(Item, Letters) /\ Fails

-----------------------------------------------------------------------------

Init ==
  /\ site \in Sites /\ pc = "idle" /\ play \in site /\ k = 1 /\ j = 1 /\ failed = FALSE
  /\ nets = {} /\ pools = {} /\ doms = {}
  /\ vols = {[name |-> Base[os], as |-> "image", by |-> None, xml |-> None] :
               os \in DOMAIN Base}

Next ==
  /\ \/ BeginPlay \/ NetworkItem \/ PoolItem
     \/ VolumeItem \/ UnknownOs \/ SeedItem \/ DomainItem \/ TooManyDisks
  /\ UNCHANGED site

Spec == Init /\ [][Next]_vars

-----------------------------------------------------------------------------
(* Properties *)

VlanIds == 0..4095
Distinct(seq) == \A a, b \in DOMAIN seq : seq[a] = seq[b] => a = b

\* What libvirt is asked to keep is never nonsense, whatever the roles' variables
\* hold: "an invalid definition is rejected before it ever reaches the hypervisor"
\* (libvirt_xml.py:12-13).
TypeOK ==
  /\ pc \in {"idle", "items", "volumes", "seed", "domain"}
  /\ site \in Sites /\ play \in site /\ k \in 1..Len(play.list)
  /\ j \in Nat \ {0} /\ failed \in BOOLEAN
  /\ \A n \in nets :
       /\ Distinct([x \in DOMAIN n.xml.portgroups |-> n.xml.portgroups[x].name])
       /\ \A pg \in ToSet(n.xml.portgroups) : ToSet(pg.tags) \subseteq VlanIds
       /\ n.xml.forward # None => n.xml.bridge # None
  /\ \A p \in pools : /\ p.permissions.mode # None => ToSet(p.permissions.mode) \subseteq 0..7
                      /\ {p.permissions.owner, p.permissions.group} \subseteq Maybe(Nat)
  /\ \A v \in vols : v.name \notin BadNames /\ (v.xml # None => v.xml.capacity > 0)
  /\ \A d \in doms : /\ d.memory > 0 /\ d.vcpu > 0
                     /\ Distinct([x \in DOMAIN d.disks |-> d.disks[x].target_dev])

\* A network libvirt has carries the port groups its item asks for, no other and
\* each with its ids, through the filter's three cases, the argument spec and the
\* builder's two (filter/libvirt.py:155-160, libvirt_xml.py:432-446).
VlansCarried ==
  \A n \in nets :
    /\ Len(n.xml.portgroups) = Len(n.item.vlans)
    /\ \A x \in DOMAIN n.item.vlans :
         LET asked == n.item.vlans[x]
             got   == n.xml.portgroups[x]
         IN  /\ got.name = asked.name /\ got.default = asked.default
             /\ ToSet(got.tags) = IF asked.vlan = None THEN {} ELSE ToSet(asked.vlan)
             /\ asked.vlan # None => got.trunk = asked.listed

\* A network that is to serve DHCP does so on the range asked for and in order, or it
\* is not there; and one that is not to serve DHCP does not
\* (filter/libvirt.py:117-123, libvirt_xml.py:330-351).
DhcpCarried ==
  \A n \in nets :
    /\ n.item.enable_dhcp = (n.xml.ip # None)
    /\ n.xml.ip # None =>
         /\ n.xml.ip.gateway = n.item.dhcp_gateway
         /\ n.item.dhcp_scope_start <= n.item.dhcp_scope_end
         /\ n.xml.ip.range_start = n.item.dhcp_scope_start
         /\ n.xml.ip.range_end = n.item.dhcp_scope_end

\* Its DNS servers are those that were given, none is lost with the empty ones; and a
\* network that does not serve DHCP forwards to none (filter/libvirt.py:124-128).
ForwardersCarried ==
  \A n \in nets :
    ToSet(n.xml.forwarders) = IF n.item.enable_dhcp
                              THEN ToSet(n.from.dns) \ {None, Empty} ELSE {}

Sources(d) == {d.disks[x].source : x \in DOMAIN d.disks}

Asked(role) == {p \in UNION Sites : p.role = role}

FileNames(vm) == {OsDisk(vm), SeedIso(vm)} \cup {DataDisk(vm, x) : x \in 1..Len(vm.data_disks)}

\* Two kinds of files in one pool: no base image has the name of a file of an instance.
DisjointBases ==
  \A p \in Asked("instances") : \A y \in 1..Len(p.list) :
    \A os \in DOMAIN Base : Base[os] \notin FileNames(p.list[y])

\* The disks of every domain exist: the names instance_disks makes up are those that
\* instance_volumes and the task of the seed have made, whatever failed in between
\* (filter/libvirt.py:36-46, 70-88; tasks/instance.yml:65).  Only the seed is
\* read-only, and qemu is told the format a volume was made in (libvirt_xml.py:640,
\* libvirt_volume.py:329, libvirt_cloud_init_iso.py:232).
DisksMade ==
  \A d \in doms : \A x \in DOMAIN d.disks :
    \E v \in vols :
      /\ v.name = d.disks[x].source /\ v.xml # None
      /\ d.disks[x].readonly = (v.as = "seed")
      /\ d.disks[x].format = IF v.xml.format = "iso" THEN "raw" ELSE v.xml.format

\* An instance's name is not the beginning of another's, up to a hyphen.
Apart(m, n) == ~IsPrefix(m, n) /\ ~IsPrefix(n, m)

\* Two instances share no disk, unless one's name continues the other's
\* (filter/libvirt.py:37-44, 71-84).
OwnVolumes ==
  \A d, e \in doms : Apart(d.name, e.name) => Sources(d) \cap Sources(e) = {}
=============================================================================
