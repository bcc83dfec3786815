----------------------------- MODULE RoleFilters -----------------------------
(***************************************************************************)
(* The filters of plugins/filter/libvirt.py, which turn the roles'         *)
(* variables into what the modules are given: lists of systemd units,      *)
(* network specs, volumes and disks.                                       *)
(*                                                                         *)
(* A unit is a pair of a daemon and a part: <<"qemu", "ro">> is            *)
(* virtqemud-ro.socket, <<"libvirtd", "service">> libvirtd.service.  A     *)
(* name is the sequence of its parts between hyphens, the ending of a file *)
(* name is a part of its own: <<"web", "1", "os", ".qcow2">> is            *)
(* web-1-os.qcow2.                                                         *)
(***************************************************************************)
EXTENDS Integers, SequencesExt

CONSTANTS
  None,   \* Python's None, or a key that is not there
  Empty   \* the empty string

Maybe(S) == S \cup {None}

\* What Python takes for true.
Given(x) == x \notin {None, Empty}

-----------------------------------------------------------------------------
(* Units.  services is libvirt_services, in the order of the dictionary: the *)
(* daemon and those of its parts that have "enabled: true".                  *)

\* A daemon is not libvirtd, and it has a part enabled, one left out.
only_enabled(svc, but) == svc.daemon # "libvirtd" /\ svc.enabled \ {but} # {}

modular_socket_units(d) ==
  <<<<d, "socket">>>>
  \o (IF d \in {"lock", "log"} THEN <<>> ELSE <<<<d, "ro">>>>)
  \o <<<<d, "admin">>>>

modular_sockets(services) ==
  FlattenSeq([k \in DOMAIN services |->
    IF only_enabled(services[k], "service")
    THEN modular_socket_units(services[k].daemon) ELSE <<>>])

modular_services(services) ==
  FlattenSeq([k \in DOMAIN services |->
    IF only_enabled(services[k], "socket")
    THEN <<<<services[k].daemon, "service">>>> ELSE <<>>])

Kept == {"libvirtd", "lock", "log"}

AllUnits(d) ==
  <<<<d, "service">>>> \o modular_socket_units(d)
  \o (IF d # "proxy" THEN <<>> ELSE <<<<"proxy", "tcp">>, <<"proxy", "tls">>>>)

modular_daemons_off(services) ==
  FlattenSeq([k \in DOMAIN services |->
    IF services[k].daemon \in Kept THEN <<>> ELSE AllUnits(services[k].daemon)])

\* listen holds "tls" and "tcp" as libvirt_proxy asks for them.
proxy_services == <<<<"proxy", "service">>>>

libvirt_proxy_daemons(listen) ==
  proxy_services \o <<<<"proxy", "ro">>, <<"proxy", "admin">>>>
  \o (IF "tls" \in listen THEN <<<<"proxy", "tls">>>> ELSE <<>>)
  \o (IF "tcp" \in listen THEN <<<<"proxy", "tcp">>>> ELSE <<>>)

-----------------------------------------------------------------------------
(* Networks.  The vlan of a port group is None or a sequence of ids, listed *)
(* when it was written as a list; nested, when it ends up as a list in one. *)

\* What raises in the filter: a missing name, a trunk without a list.
FilterAccepts(net) ==
  /\ net.name # None
  /\ \A k \in DOMAIN net.vlans :
       LET vl == net.vlans[k]
       IN  vl.name # None /\ (vl.trunk /\ vl.vlan # None => vl.listed)

\* Faulty variant: a trunk carries its first id only.
vlan_portgroup_first(vl) ==
  [name |-> vl.name, default |-> vl.default, trunk |-> vl.trunk,
   tags |-> IF vl.vlan \in {None, <<>>} THEN <<>> ELSE <<vl.vlan[1]>>,
   nested |-> vl.vlan # None /\ vl.listed /\ ~vl.trunk]

vlan_portgroup(vl) ==
  [name |-> vl.name, default |-> vl.default, trunk |-> vl.trunk,
   tags |-> IF vl.vlan = None THEN <<>> ELSE vl.vlan,
   nested |-> vl.vlan # None /\ vl.listed /\ ~vl.trunk]

\* Faulty variant: the ends of the scope are swapped.
DhcpOfSwapped(net) ==
  [gateway |-> net.dhcp_gateway, netmask |-> net.dhcp_netmask,
   range_start |-> net.dhcp_scope_end, range_end |-> net.dhcp_scope_start]

DhcpOf(net) ==
  [gateway |-> net.dhcp_gateway, netmask |-> net.dhcp_netmask,
   range_start |-> net.dhcp_scope_start, range_end |-> net.dhcp_scope_end]

\* Empty entries are dropped.
AddressesIn(dns) ==
  FlattenSeq([k \in DOMAIN dns |-> IF Given(dns[k]) THEN <<dns[k]>> ELSE <<>>])

\* Faulty variant: servers are passed on whether the network serves DHCP or not.
ForwardersAlways(net, dns) == AddressesIn(dns)

Forwarders(net, dns) == IF net.enable_dhcp THEN AddressesIn(dns) ELSE <<>>

network_spec(net, domain, dns) ==
  [name |-> net.name, state |-> net.state, mode |-> net.mode,
   bridge_name |-> net.bridge_name,
   route_device |-> net.route_device, virtualport_type |-> net.virtualport_type,
   uuid |-> net.uuid, vlan_tag |-> net.vlan,
   dhcp |-> IF net.enable_dhcp THEN DhcpOf(net) ELSE None,
   domain |-> IF net.enable_dhcp /\ Given(domain) THEN domain ELSE None,
   forwarders |-> Forwarders(net, dns),
   vlans |-> [k \in DOMAIN net.vlans |-> vlan_portgroup(net.vlans[k])]]

network_specs(nets, domain, dns) ==
  [k \in DOMAIN nets |-> network_spec(nets[k], domain, dns)]

-----------------------------------------------------------------------------
(* Instances.  The pool's path, the same for all disks, is left out. *)

\* Faulty variant: files carry the name of the disk alone.
FileOfDisk(vm, part, ending) == part \o <<ending>>

File(vm, part, ending) == vm.name \o part \o <<ending>>

OsDisk(vm) == File(vm, <<"os">>, ".qcow2")
DataDisk(vm, k) == File(vm, vm.data_disks[k].name, ".qcow2")
SeedIso(vm) == File(vm, <<"cidata">>, ".iso")

\* An operating system without a base volume raises, and so does a disk too many.
VolumesAccept(vm, base) == vm.os \in DOMAIN base

instance_volumes(vm, base) ==
  <<[name |-> OsDisk(vm), capacity |-> vm.os_disk_gb, clone_source |-> base[vm.os]]>>
  \o [k \in DOMAIN vm.data_disks |->
        [name |-> DataDisk(vm, k), capacity |-> vm.data_disks[k].size_gb,
         clone_source |-> None]]

DisksAccept(vm, letters) == Len(vm.data_disks) <= Len(letters)

instance_disks(vm, root_disk_bus, cdrom_bus, letters) ==
  <<[source |-> OsDisk(vm), target_dev |-> <<"vd", "a">>, device |-> None,
     bus |-> root_disk_bus]>>
  \o [k \in DOMAIN vm.data_disks |->
        [source |-> DataDisk(vm, k), target_dev |-> <<"vd", letters[k]>>,
         device |-> None, bus |-> "virtio"]]
  \o <<[source |-> SeedIso(vm), target_dev |-> <<"sd", "a">>, device |-> "cdrom",
        bus |-> cdrom_bus]>>
=============================================================================
