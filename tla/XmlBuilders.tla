----------------------------- MODULE XmlBuilders -----------------------------
(***************************************************************************)
(* The builders of plugins/module_utils/libvirt_xml.py: of each, what it   *)
(* accepts and what the XML it renders says, as a record.  Addresses are   *)
(* numbers; whatever is no IPv4 address is not one.  The domain's arch,    *)
(* machine, console and rng, which no role sets, are left out.             *)
(***************************************************************************)
EXTENDS RoleFilters, FiniteSets

CONSTANTS
  BadNames,   \* names that are blank or hold a slash
  Addresses,  \* IPv4 addresses
  Netmasks,   \* what an IPv4 network takes for a netmask
  Macs        \* MAC addresses

ASSUME BuildersAssumption ==
  /\ Addresses \subseteq Nat
  /\ None \notin Nat /\ Empty \notin Nat /\ None # Empty
  /\ Given("disk") /\ Given("cdrom")

GoodName(n) == Given(n) /\ n \notin BadNames

\* Python's "x or default".
Or(x, default) == IF Given(x) THEN x ELSE default

Positive(n) == n \in Nat \ {0}

-----------------------------------------------------------------------------
(* Volumes and pools *)

CAPACITY_UNITS == {"B", "bytes", "KB", "K", "KiB", "MB", "M", "MiB", "GB", "G", "GiB",
                   "TB", "T", "TiB"}
VOLUME_FORMATS == {"raw", "qcow2", "qcow", "qed", "vmdk", "vdi", "vpc", "iso"}

VolumeValid(v) ==
  /\ GoodName(v.name) /\ Positive(v.capacity)
  /\ v.unit \in CAPACITY_UNITS /\ v.format \in VOLUME_FORMATS
  /\ v.allocation \in Maybe(Nat)

VolumeXML(v) == [name |-> v.name, capacity |-> v.capacity, unit |-> v.unit,
                 allocation |-> v.allocation, format |-> v.format]

\* A mode is the sequence of its digits, an owner or group a number if it is one.
ModeValid(mode) == mode # None => Len(mode) \in {3, 4} /\ ToSet(mode) \subseteq 0..7

PoolValid(p) ==
  /\ GoodName(p.name)
  /\ p.type = "dir"
  /\ Given(p.target_path) /\ p.absolute
  /\ ModeValid(p.mode)
  /\ p.owner \in Maybe(Nat) /\ p.group \in Maybe(Nat)

PoolXML(p) ==
  [name |-> p.name, uuid |-> p.uuid, path |-> p.target_path,
   permissions |-> [mode |-> p.mode, owner |-> p.owner, group |-> p.group]]

-----------------------------------------------------------------------------
(* Networks *)

NETWORK_MODES == {"nat", "route", "bridge", "private"}
VLAN_TAG_MIN == 0
VLAN_TAG_MAX == 4095

\* Faulty variant: the order of the range is not looked at.
DhcpValidUnordered(dhcp) ==
  /\ {dhcp.gateway, dhcp.range_start, dhcp.range_end} \subseteq Addresses
  /\ dhcp.netmask \in Netmasks

DhcpValid(dhcp) ==
  /\ {dhcp.gateway, dhcp.range_start, dhcp.range_end} \subseteq Addresses
  /\ dhcp.netmask \in Netmasks
  /\ dhcp.range_start <= dhcp.range_end

\* Faulty variant: one past the end.
TagValidPast(tag) == tag \in VLAN_TAG_MIN..(VLAN_TAG_MAX + 1)

TagValid(tag) == tag \in VLAN_TAG_MIN..VLAN_TAG_MAX

VlansValid(vlans) ==
  /\ \A k \in DOMAIN vlans : Given(vlans[k].name)
  /\ \A j, k \in DOMAIN vlans : vlans[j].name = vlans[k].name => j = k
  /\ \A k \in DOMAIN vlans :
       /\ \A tag \in ToSet(vlans[k].tags) : TagValid(tag)
       /\ IF vlans[k].trunk THEN vlans[k].tags # <<>> ELSE Len(vlans[k].tags) <= 1

NetworkValid(n) ==
  /\ GoodName(n.name)
  /\ n.mode \in Maybe(NETWORK_MODES)
  /\ n.mode # None => Given(n.bridge_name)
  /\ n.mode = "route" => Given(n.route_device)
  /\ n.dhcp # None => DhcpValid(n.dhcp)
  /\ ToSet(n.forwarders) \subseteq Addresses
  /\ n.vlan_tag # None => TagValid(n.vlan_tag)
  /\ VlansValid(n.vlans)

NetworkXML(n) ==
  [name |-> n.name, uuid |-> n.uuid,
   bridge |-> IF n.mode # None THEN n.bridge_name ELSE None,
   forward |-> IF n.mode \in {None, "private"} THEN None ELSE n.mode,
   dev |-> IF n.mode = "route" THEN n.route_device ELSE None,
   virtualport |-> Or(n.virtualport_type, None), domain |-> Or(n.domain, None),
   forwarders |-> n.forwarders,
   ip |-> n.dhcp,
   portgroups |-> [k \in DOMAIN n.vlans |->
                     [name |-> n.vlans[k].name, default |-> n.vlans[k].default,
                      trunk |-> n.vlans[k].trunk, tags |-> n.vlans[k].tags]],
   vlan |-> n.vlan_tag]

-----------------------------------------------------------------------------
(* Domains *)

DOMAIN_TYPES == {"kvm", "qemu"}
SIMPLE_FEATURES == {"acpi", "apic", "pae"}
DISK_DEVICES == {"disk", "cdrom"}
DISK_BUSES == {"virtio", "sata", "ide", "scsi", "usb"}
INTERFACE_TYPES == {"network", "bridge"}
GRAPHICS_TYPES == {"vnc", "spice", "none"}

Device(disk) == Or(disk.device, "disk")
Bus(disk) == Or(disk.bus, "virtio")

DisksValid(disks) ==
  /\ \A k \in DOMAIN disks :
       /\ Given(disks[k].source) /\ Given(disks[k].target_dev)
       /\ Device(disks[k]) \in DISK_DEVICES /\ Bus(disks[k]) \in DISK_BUSES
  /\ \A j, k \in DOMAIN disks : disks[j].target_dev = disks[k].target_dev => j = k

InterfacesValid(interfaces) ==
  \A k \in DOMAIN interfaces :
    /\ Or(interfaces[k].type, "network") \in INTERFACE_TYPES
    /\ Given(interfaces[k].source)
    /\ interfaces[k].mac \in Maybe(Macs)

DomainValid(d) ==
  /\ GoodName(d.name)
  /\ d.domain_type \in DOMAIN_TYPES
  /\ Positive(d.memory_mb) /\ Positive(d.vcpus)
  /\ d.features \subseteq SIMPLE_FEATURES
  /\ DisksValid(d.disks)
  /\ InterfacesValid(d.interfaces)
  /\ d.graphics \in Maybe(GRAPHICS_TYPES)

\* Faulty variant: a cdrom is a disk like any other.
DiskXMLWritable(disk) ==
  [device |-> Device(disk), source |-> disk.source, target_dev |-> disk.target_dev,
   bus |-> Bus(disk), format |-> Or(disk.format, "qcow2"),
   readonly |-> Or(disk.readonly, FALSE)]

\* A cdrom is read-only and raw unless the spec says otherwise.
DiskXML(disk) ==
  LET cdrom == Device(disk) = "cdrom"
  IN  [device |-> Device(disk), source |-> disk.source, target_dev |-> disk.target_dev,
       bus |-> Bus(disk), format |-> Or(disk.format, IF cdrom THEN "raw" ELSE "qcow2"),
       readonly |-> Or(disk.readonly, cdrom)]

InterfaceXML(iface) ==
  [type |-> Or(iface.type, "network"), source |-> iface.source,
   mac |-> Or(iface.mac, None)]

DomainXML(d) ==
  [name |-> d.name, type |-> d.domain_type, memory |-> d.memory_mb, vcpu |-> d.vcpus,
   features |-> d.features,
   disks |-> [k \in DOMAIN d.disks |-> DiskXML(d.disks[k])],
   interfaces |-> [k \in DOMAIN d.interfaces |-> InterfaceXML(d.interfaces[k])],
   graphics |-> IF d.graphics \in {None, "none"} THEN None ELSE d.graphics]
=============================================================================
