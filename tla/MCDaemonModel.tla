--------------------------- MODULE MCDaemonModel ---------------------------
(* Values of DaemonModel's constants for TLC: the monolithic daemon with its    *)
(* socket and its tcp socket, the QEMU driver daemon, the sockets of the log    *)
(* and storage daemons, and the proxy.  virtinterfaced is not installed.        *)
EXTENDS DaemonModel

Qemu == <<"qemu", "service">>
QemuSocket == <<"qemu", "socket">>
LogSocket == <<"log", "socket">>
StorageSocket == <<"storage", "socket">>
Proxy == <<"proxy", "service">>
ProxyTcp == <<"proxy", "tcp">>
LibvirtdSocket == <<"libvirtd", "socket">>
LibvirtdTcp == <<"libvirtd", "tcp">>

MCServices == {Libvirtd, Qemu, Proxy}
MCUnits == MCServices \cup {LibvirtdSocket, LibvirtdTcp, QemuSocket, LogSocket,
                            StorageSocket, ProxyTcp}

MCSocketsOf == [s \in MCServices |-> CASE s = Libvirtd -> {LibvirtdSocket}
                                       [] s = Qemu -> {QemuSocket}
                                       [] OTHER -> {}]
MCRemoteOf == [s \in MCServices |-> CASE s = Libvirtd -> {LibvirtdTcp}
                                      [] s = Proxy -> {ProxyTcp}
                                      [] OTHER -> {}]
MCBound == {Qemu}

\* What "systemctl disable" and "enable" show in roles/libvirt/Notes.
MCAlso ==
  [u \in MCUnits |-> CASE u = Libvirtd -> {LibvirtdSocket, LogSocket}
                       [] u = Qemu -> {QemuSocket, LogSocket}
                       [] OTHER -> {}]

Svc(d, enabled) == [daemon |-> d, enabled |-> enabled]
Lifecycle(libvirtd, interface) ==
  <<Svc("libvirtd", libvirtd), Svc("interface", interface), Svc("log", {"socket"}),
    Svc("proxy", {}), Svc("qemu", {"socket"}), Svc("storage", {"socket"})>>

\* Version 10 made monolithic, with and without a tcp socket, and left alone, with
\* remote access and a daemon enabled that is not installed.
Auto == [model |-> "auto", services |-> Lifecycle({"service"}, {"socket"}), listen |-> {"tcp"}]
Forced(parts) == [model |-> "monolithic", services |-> Lifecycle(parts, {}), listen |-> {}]

MCSettings == {Auto, Forced({"service", "tcp"}), Forced({"service"})}
MCUserPlays == {[tasks |-> <<Task("stop", <<Qemu, QemuSocket>>)>>]}

HostOf(enabled, masked, active, configured, published) ==
  [file |-> [u \in MCUnits |-> IF u \in masked THEN "masked"
                               ELSE IF u \in enabled THEN "enabled" ELSE "disabled"],
   run |-> [u \in MCUnits |-> IF u \in active THEN "active" ELSE "inactive"],
   conf |-> configured, fact |-> published]

\* A monolithic host, and one with both models that an older role has left.
MCHosts ==
  { HostOf({Libvirtd, LibvirtdSocket, LogSocket}, {},
           {Libvirtd, LibvirtdSocket, LogSocket}, {}, None),
    HostOf({Libvirtd, LibvirtdSocket, Qemu, LogSocket}, {QemuSocket},
           {LibvirtdSocket, Qemu}, {Libvirtd}, "old") }

ASSUME UnitsApart == ModelsApart
ASSUME TasksApart == PlaysApart
ASSUME RestartsReach == Restartable
=============================================================================
