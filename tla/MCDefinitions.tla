--------------------------- MODULE MCDefinitions ---------------------------
(* Values of Definitions' constants for TLC.  Addresses 1..4, of which 1 is the *)
(* gateway's; junk is no address and no number, slashed a name with a slash.  *)
EXTENDS Definitions

CONSTANTS br0, br1, eth0, junk, mask, slashed

MCBadNames == {slashed}
MCAddresses == 1..4
MCNetmasks == {mask}
MCMacs == {}
MCBase == [os \in {"arch"} |-> <<"arch", ".qcow2">>]
MCParts == {"web", "db", "1", "2", "data", "x", "y", "z", "a", "os", "cidata",
            ".qcow2", ".iso"}
MCLetters == <<"b", "c">>

-----------------------------------------------------------------------------
(* Networks *)

Net(name) ==
  [name |-> name, state |-> "active", mode |-> "nat", bridge_name |-> br0,
   route_device |-> None, virtualport_type |-> None, uuid |-> None,
   enable_dhcp |-> FALSE, dhcp_gateway |-> None, dhcp_netmask |-> None,
   dhcp_scope_start |-> None, dhcp_scope_end |-> None, vlan |-> None, vlans |-> <<>>]

Serving(net, gateway, start, end) ==
  [net EXCEPT !.enable_dhcp = TRUE, !.dhcp_gateway = gateway, !.dhcp_netmask = mask,
              !.dhcp_scope_start = start, !.dhcp_scope_end = end]

PortGroup(name, vlan, listed, trunk) ==
  [name |-> name, default |-> vlan = None, trunk |-> trunk, vlan |-> vlan,
   listed |-> listed]

Ids == {None, <<10>>, <<20, 10>>, <<4096>>, <<>>}

Networks(list) == [role |-> "network", list |-> list, domain |-> Empty,
                   dns |-> <<Empty, 4>>]

\* DHCP complete, in any order, and with a part missing or no address.
DhcpNets == {Serving(Net("n"), g, x, y) : g \in {1, None}, x \in {2, 3, junk}, y \in {2, 3}}

\* Port groups, alone and in pairs with the same or another name.
Groups(name) ==
  {PortGroup(name, vlan, listed, trunk) : vlan \in Ids, listed, trunk \in BOOLEAN}
    \ {PortGroup(name, vlan, FALSE, trunk) : vlan \in {<<20, 10>>, <<>>}, trunk \in BOOLEAN}

VlanNets ==
  {[Net("n") EXCEPT !.mode = "bridge", !.virtualport_type = "openvswitch",
                    !.vlans = <<g, h>>] :
     g \in Groups("lan"), h \in {PortGroup("lan", None, FALSE, FALSE),
                                 PortGroup("dmz", <<30, 40>>, TRUE, TRUE)}}

\* Every mode, with and without what it needs.
ModeNets ==
  {[Net("n") EXCEPT !.mode = mode, !.bridge_name = bridge, !.route_device = dev] :
     mode \in {None, "private", "route"}, bridge \in {br1, Empty, None}, dev \in {eth0, None}}

NetworkPlays ==
  {Networks(<<n>>) : n \in VlanNets \cup ModeNets}
  \cup {Networks(<<n, [Net("m") EXCEPT !.bridge_name = b]>>) : n \in DhcpNets, b \in {br0, br1}}
  \cup {Networks(<<Net(slashed), Net("m")>>),
        Networks(<<[Net("n") EXCEPT !.name = None]>>),
        Networks(<<Serving(Net("m"), 1, 2, 3), [Net("m") EXCEPT !.vlan = 7]>>)}

-----------------------------------------------------------------------------
(* Pools *)

Pool(name, path, mode, owner) ==
  [name |-> name, state |-> "active", type |-> "dir", target_path |-> path,
   absolute |-> TRUE, uuid |-> None, mode |-> mode, owner |-> owner, group |-> None]

PoolPlays ==
  {[role |-> "storage_pool",
    list |-> <<Pool("p", path, mode, owner), Pool("q", eth0, None, None)>>] :
     path \in {br0, None}, mode \in {None, <<0, 7, 1, 1>>, <<7, 9, 1>>, <<7>>},
     owner \in {0, junk}}

-----------------------------------------------------------------------------
(* Instances *)

Vm(name, os, gb, disks) ==
  [name |-> name, os |-> os, os_disk_gb |-> gb, memory_mb |-> 512, vcpus |-> 1,
   data_disks |-> disks]

Disk(name) == [name |-> name, size_gb |-> 1]

InstancesPlay(list) ==
  [role |-> "instances", list |-> list, root_disk_bus |-> "virtio", cdrom_bus |-> "sata",
   network |-> br0, graphics |-> "vnc"]

\* web-1 and web-2 beside web, whose disk has the name of theirs; a disk more than
\* there are letters, and fewer on the next run; the same disk twice; no capacity; an
\* unknown system.
InstancePlays ==
  { InstancesPlay(<<Vm(<<"web", "1">>, "arch", 1, <<Disk(<<"data">>)>>),
                    Vm(<<"web", "2">>, "arch", 1, <<Disk(<<"data">>)>>)>>),
    InstancesPlay(<<Vm(<<"web">>, "arch", 1, <<Disk(<<"1", "os">>)>>)>>),
    InstancesPlay(<<Vm(<<"db">>, "arch", 1, <<Disk(<<"x">>), Disk(<<"y">>), Disk(<<"z">>)>>)>>),
    InstancesPlay(<<Vm(<<"db">>, "arch", 1, <<Disk(<<"y">>)>>),
                    Vm(<<"web">>, "arch", 1, <<Disk(<<"a">>), Disk(<<"a">>)>>)>>),
    InstancesPlay(<<Vm(<<"db">>, "arch", 0, <<>>)>>),
    InstancesPlay(<<Vm(<<"db">>, "none", 1, <<>>)>>) }

\* One network or pool play and its reverse; two plays of instances.
Removal(role) == IF role = "network" THEN Networks(<<[Net("n") EXCEPT !.state = "absent"]>>)
                 ELSE [role |-> role, list |-> <<[Pool("p", br0, None, None)
                                                  EXCEPT !.state = "absent"]>>]

MCSites == {{p, Removal(p.role)} : p \in NetworkPlays \cup PoolPlays}
           \cup {{p, q} : p, q \in InstancePlays}

\* What DisksMade is proved from.
ASSUME NamesApart == DisjointBases
=============================================================================
