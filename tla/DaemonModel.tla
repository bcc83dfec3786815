---------------------------- MODULE DaemonModel ----------------------------
(***************************************************************************)
(* The libvirt role as far as it manages daemons (roles/libvirt/tasks and  *)
(* handlers): a play renders the configuration of the daemons, applies a   *)
(* list of unit tasks that switches the host to the modular or to the      *)
(* monolithic daemon model, and runs the handlers that changed files have  *)
(* notified.  A failed task ends the play, and the notified handlers with  *)
(* it; the operator runs the play again.                                   *)
(***************************************************************************)
EXTENDS LibvirtService, RoleFilters

CONSTANTS
  Settings,    \* the role's variables an operator may set: model, services, listen
  Modern,      \* whether libvirt is at version 10 or above
  Dependents,  \* the roles that rely on the published fact: "storage", "network"
  UserPlays,   \* other plays that use the unit modules
  InitHosts    \* unit states, rendered files and facts a behaviour may start from

VARIABLES
  play, t, use,           \* the play, its task at hand, and the daemon model it resolved
  pending, conf, fact,    \* notified handlers, rendered files, ansible_local.libvirtd
  loaded,                 \* the daemons that run with the rendered configuration
  outcome, lost,          \* of the last play; the notifications failed plays dropped
  quiet, settled, kept    \* observers of disturbances

plays == <<play, t, use, pending, conf, fact, outcome, lost, quiet, settled, kept>>
vars == <<file, run, pc, task, status, k, entries, faults, meddle, calm, before,
          play, t, use, pending, conf, fact, loaded, outcome, lost, quiet, settled, kept>>
service == <<task, status, k, entries, calm, before>>

Task(op, units) == [op |-> op, units |-> units]

Libvirtd == <<"libvirtd", "service">>
Remotes == {<<"libvirtd", "tcp">>, <<"libvirtd", "tls">>}
Monolithic == <<Libvirtd, <<"libvirtd", "socket">>, <<"libvirtd", "ro">>,
                <<"libvirtd", "admin">>, <<"libvirtd", "tcp">>, <<"libvirtd", "tls">>>>
Pid == <<"libvirtd", "pid">>  \* the handler that waits for libvirtd

\* The order of the files in tasks/configure, and of the handlers in handlers/main.yml.
Daemons == <<"ch", "interface", "lock", "log", "lxc", "network", "nodedev", "nwfilter",
             "proxy", "qemu", "secret", "storage", "vbox">>
Handlers == <<<<"libvirtd", "tcp">>, <<"libvirtd", "tls">>, Libvirtd>>
            \o [n \in DOMAIN Daemons |-> <<Daemons[n], "service">>] \o <<Pid>>
Before(h, i) == \E m, n \in DOMAIN Handlers : m < n /\ Handlers[m] = h /\ Handlers[n] = i

Enabled(s, d) == UNION {svc.enabled : svc \in {x \in ToSet(s.services) : x.daemon = d}}
LibvirtdWanted(s) == "service" \in Enabled(s, "libvirtd")

UseModular(s) == s.model = "modular" \/ (s.model = "auto" /\ Modern)

\* tasks/services/modular.yml
ModularTasks(s) ==
  <<Task("disable", Monolithic), Task("enable", modular_sockets(s.services)),
    Task("enable", modular_services(s.services))>>
  \o (IF s.listen = {} THEN <<>>
      ELSE <<Task("enable", libvirt_proxy_daemons(s.listen)), Task("start", proxy_services)>>)
  \o <<Task("flush", <<>>)>>

\* tasks/services/monolithic.yml
MonolithicTasks(s) ==
  <<Task("disable", modular_daemons_off(s.services))>>
  \o (IF LibvirtdWanted(s)
      THEN <<Task("remote", <<<<"libvirtd", "tcp">>>>), Task("remote", <<<<"libvirtd", "tls">>>>),
             Task("flush", <<>>), Task("ensure", <<Libvirtd>>)>>
      ELSE <<Task("flush", <<>>)>>)

LibvirtPlays == [role: {"libvirt"}, with: Settings]
Plays == LibvirtPlays \cup [role: Dependents, with: {None}] \cup [role: {"user"}, with: UserPlays]

IsList(list) == Len(list) \in Nat /\ DOMAIN list = 1..Len(list)

\* libvirt_services is kept as a list, and an operator's play is a list of unit tasks.
ASSUME PlaysAssumption ==
  /\ {"libvirt", "libvirtd", "user"} \cap Dependents = {}
  /\ \A s \in Settings : IsList(s.services)
  /\ \A p \in UserPlays :
       /\ IsList(p.tasks)
       /\ \A n \in DOMAIN p.tasks : p.tasks[n].op \in Ops /\ IsList(p.tasks[n].units)
  /\ \A h \in InitHosts :
       /\ h.file \in [Units -> FileStates] /\ h.run \in [Units -> RunStates]
       /\ h.fact \in Maybe({"modular", "monolithic", "old"})

\* The tasks of a play, by the daemon model it has resolved; storage_pool and network
\* need the driver daemons or libvirtd.
TasksOf(p, modular) ==
  CASE p.role = "libvirt" -> IF modular THEN ModularTasks(p.with) ELSE MonolithicTasks(p.with)
    [] p.role = "user"    -> p.with.tasks
    [] OTHER -> <<Task("ensure", IF modular THEN <<<<"qemu", "socket">>, <<p.role, "socket">>>>
                                 ELSE <<Libvirtd>>)>>
Tasks == TasksOf(play, use)

\* The daemons whose configuration a play renders.
Configured(p) ==
  IF p.role # "libvirt" THEN {}
  ELSE IF UseModular(p.with)
       THEN {<<svc.daemon, "service">> : svc \in ToSet(p.with.services)} \ {Libvirtd}
       ELSE {Libvirtd}

\* Those of them whose restart handler does something.
Restarted(p) ==
  {d \in Configured(p) : d = Libvirtd \/ "socket" \in Enabled(p.with, d[1])}

MainSocket(d) == <<d[1], "socket">>

\* The sockets that start with a unit, and the services bound to it.
Woken(u) == IF u \in Services THEN SocketsOf[u] ELSE {}
Hanging(u) == {s \in Bound : u \in SocketsOf[s]}

-----------------------------------------------------------------------------
(* Plays *)

\* A daemon that starts or restarts reads its configuration file.
Loads(restarted) ==
  loaded' = {s \in Services :
               /\ run'[s] # "inactive"
               /\ IF run[s] = "inactive" \/ s \in restarted
                  THEN s \in conf' ELSE s \in loaded}

Doing(op) == pc = "next" /\ t <= Len(Tasks) /\ Tasks[t].op = op
NextTask == t' = t + 1

BeginPlay ==
  /\ pc = "idle" /\ pc' = "prepare"
  /\ play' \in Plays
  /\ t' = 1
  /\ outcome' = "none" /\ quiet' = TRUE
  /\ settled' = (settled /\ play' = play)
  /\ kept' = IF play'.role \in Dependents THEN kept ELSE None
  /\ UNCHANGED <<host, service, bounds, use, pending, conf, fact, lost>>

\* The play fails: what is notified is forgotten.
FailPlay ==
  /\ pc' = "idle" /\ outcome' = "failed"
  /\ pending' = {} /\ lost' = lost \cup (pending \cap Configured(play))
  /\ settled' = FALSE
  /\ UNCHANGED <<play, t, use, fact, quiet, kept>>

Published(modular) == IF modular THEN "modular" ELSE "monolithic"

\* Faulty variant: the dependent roles go by the version in any case.
FollowVersion == Modern

\* What a fact says: the model, or, written by an older role, the version only.
Follow == fact = "modular" \/ (fact = "old" /\ Modern)

\* install.yml resolves the daemon model and publishes it; the dependent roles'
\* prepare.yml reads it.
Resolve ==
  /\ pc = "prepare"
  /\ UNCHANGED <<host, service, conf>>
  /\ \/ /\ play.role = "libvirt"
        /\ pc' = "render" /\ use' = UseModular(play.with) /\ fact' = Published(use')
        /\ UNCHANGED <<bounds, play, t, pending, outcome, lost, quiet, settled, kept>>
     \/ play.role = "libvirt" /\ Fault /\ FailPlay
     \/ /\ play.role \in Dependents /\ fact # None
        /\ pc' = "next" /\ use' = Follow
        /\ UNCHANGED <<bounds, play, t, pending, fact, outcome, lost, quiet, settled, kept>>
     \/ play.role \in Dependents /\ fact = None /\ FailPlay /\ UNCHANGED bounds
     \/ /\ play.role = "user" /\ pc' = "next"
        /\ UNCHANGED <<bounds, plays>>

\* Faulty variant: restarts are notified whether or not a file changed.
RenderNotifyAlways ==
  /\ pc = "render" /\ pc' = "next"
  /\ conf' = conf \cup Configured(play)
  /\ pending' = pending \cup Configured(play)
  /\ UNCHANGED <<host, service, bounds, play, t, use, fact, outcome, lost, quiet, settled,
                 kept>>

\* tasks/configure: a changed file notifies its daemon's restart handler.
Render ==
  LET stale == Configured(play) \ conf
  IN  /\ pc = "render"
      /\ UNCHANGED <<host, service, play, t, use, fact, quiet, kept>>
      /\ \/ /\ pc' = "next"
            /\ conf' = conf \cup stale
            /\ pending' = pending \cup stale
            /\ UNCHANGED <<bounds, outcome, lost, settled>>
         \/ /\ Fault
            /\ \E d \in Configured(play) :
                 LET written == {s \in stale : Before(s, d)}
                 IN  /\ conf' = conf \cup written
                     /\ pc' = "idle" /\ outcome' = "failed"
                     /\ pending' = {} /\ lost' = lost \cup written
            /\ settled' = FALSE

\* A task that changes units starts; without units it does nothing.
BeginTask ==
  /\ \E op \in Ops : Doing(op)
  /\ LET new == Tasks[t]
     IN  /\ pc' = IF Len(new.units) = 0 THEN "result"
                  ELSE IF new.op = "ensure" THEN "unit" ELSE "status"
         /\ task' = new /\ k' = 1 /\ entries' = <<>> /\ status' = <<>>
         /\ calm' = TRUE /\ before' = host
  /\ UNCHANGED <<host, bounds, plays>>

EndTask ==
  /\ pc = "result"
  /\ UNCHANGED <<host, service, bounds, conf>>
  /\ \/ /\ TaskEnds
        /\ pc' = "next" /\ NextTask
        /\ UNCHANGED <<play, use, pending, fact, outcome, lost, quiet, settled, kept>>
     \/ ~TaskEnds /\ FailPlay

Enabling(u) == IF file[u] = "enabled" THEN file ELSE Marked(u, "enabled")

\* Faulty variant: enabled, but not started.
EnsureUnitEnabled ==
  /\ pc = "unit" /\ task.op = "ensure"
  /\ file' = Enabling(Unit) /\ UNCHANGED run
  /\ UNCHANGED <<bounds, plays>> /\ EndUnit(Done(TRUE))

\* ansible.builtin.service, "started" and "enabled", of one unit in a loop: a unit
\* that is missing or masked fails, one that is coming up counts as started.
EnsureUnit ==
  /\ pc = "unit" /\ task.op = "ensure"
  /\ UNCHANGED plays
  /\ \/ /\ Unit \in Units /\ file[Unit] # "masked"
        /\ \/ /\ file' = Enabling(Unit)
              /\ run' = IF run[Unit] = "inactive" THEN Starting(Unit, "active") ELSE run
              /\ UNCHANGED bounds
              /\ EndUnit(Done(file[Unit] # "enabled" \/ run[Unit] = "inactive"))
           \/ Fault /\ file' \in {file, Enabling(Unit)} /\ UNCHANGED run /\ EndUnit(Error)
     \/ /\ Unit \in Units => file[Unit] = "masked"
        /\ EndQuietly(Error)

\* "enable / disable libvirtd-tcp.socket", and tls: failures are ignored.
SetRemote ==
  LET u    == Tasks[t].units[1]
      mark == IF u[2] \in Enabled(play.with, "libvirtd") THEN "enabled" ELSE "disabled"
  IN  /\ Doing("remote") /\ NextTask
      /\ UNCHANGED <<service, conf, run, pc, play, use, fact, outcome, lost, settled, kept>>
      /\ \/ /\ u \in Units /\ file[u] \notin {"masked", mark}
            /\ \/ /\ file' = Marked(u, mark) /\ pending' = pending \cup {u, Pid}
                  /\ UNCHANGED <<bounds, quiet>>
               \/ Fault /\ quiet' = FALSE /\ UNCHANGED <<file, pending>>
         \/ /\ u \in Units => file[u] \in {"masked", mark}
            /\ UNCHANGED <<file, pending, bounds, quiet>>

\* Faulty variant: the handlers say "started" for "restarted".
RestartDaemonIfStopped(d) ==
  /\ run' = IF d = Libvirtd THEN Starting(d, "active")
            ELSE [run EXCEPT ![MainSocket(d)] = "active"]
  /\ UNCHANGED file
  /\ Loads({})

\* A socket that is restarted is up, and the services bound to it restart along with
\* it if they run.
RestartSocket(u) ==
  /\ run' = [run EXCEPT ![u] = "active"]
  /\ Loads(Hanging(u))

\* A modular daemon's socket is restarted; libvirtd itself is restarted and enabled.
RestartDaemon(d) ==
  IF d = Libvirtd
  THEN run' = Starting(d, "active") /\ file' = Marked(d, "enabled") /\ Loads({d})
  ELSE RestartSocket(MainSocket(d)) /\ UNCHANGED file

\* A remote socket is restarted when it is enabled, stopped otherwise.
RestartRemote(u) ==
  /\ UNCHANGED file
  /\ IF u[2] \in Enabled(play.with, "libvirtd") THEN RestartSocket(u)
     ELSE run' = Stopping(u) /\ Loads({})

\* A unit that is missing or masked fails its handler, and so does a libvirtd that is
\* not there when it is waited for.
Possible(h) ==
  LET u == IF h = Libvirtd THEN h ELSE MainSocket(h)
  IN  /\ h = Pid => Libvirtd \in Units /\ run[Libvirtd] = "active"
      /\ h \in Restarted(play) => u \in Units /\ file[u] # "masked"

RunHandler ==
  /\ Doing("flush")
  /\ UNCHANGED <<service, conf>>
  /\ \E h \in pending :
       /\ \A g \in pending : ~Before(g, h)
       /\ \/ /\ Possible(h)
             /\ IF h \in Remotes THEN RestartRemote(h)
                ELSE IF h \in Restarted(play) THEN RestartDaemon(h)
                ELSE UNCHANGED host /\ Loads({})
             /\ pending' = pending \ {h} /\ lost' = lost \ {h}
             /\ UNCHANGED <<pc, bounds, play, t, use, fact, outcome, quiet, settled, kept>>
          \/ /\ \/ Possible(h) /\ h # Pid /\ Fault
                \/ ~Possible(h) /\ UNCHANGED bounds
             /\ FailPlay /\ UNCHANGED host /\ Loads({})

EndFlush ==
  /\ Doing("flush") /\ pending = {}
  /\ NextTask
  /\ UNCHANGED <<host, service, bounds, pc, play, use, pending, conf, fact, outcome, lost,
                 quiet, settled, kept>>

EndPlay ==
  /\ pc = "next" /\ t > Len(Tasks)
  /\ pc' = "idle" /\ outcome' = "ok"
  /\ settled' = quiet
  /\ kept' = IF play.role = "libvirt" /\ quiet THEN play.with ELSE kept
  /\ UNCHANGED <<host, service, bounds, play, t, use, pending, conf, fact, lost, quiet>>

-----------------------------------------------------------------------------

Init ==
  /\ \E h \in InitHosts : file = h.file /\ run = h.run /\ conf = h.conf /\ fact = h.fact
  /\ loaded = {s \in conf \cap Services : run[s] # "inactive"}
  /\ pc = "idle" /\ task = Task("stop", <<>>) /\ status = <<>> /\ k = 1
  /\ entries = <<>> /\ faults = 0 /\ meddle = 0
  /\ calm = TRUE /\ before = host
  /\ play \in LibvirtPlays /\ t = 1 /\ use = FALSE /\ pending = {}
  /\ outcome = "none" /\ lost = {} /\ quiet = FALSE /\ settled = FALSE /\ kept = None

Work ==
  \/ RunHandler
  \/ /\ \/ Apply /\ UNCHANGED plays
        \/ BeginPlay \/ Resolve \/ Render \/ BeginTask \/ EndTask \/ EnsureUnit \/ SetRemote
        \/ EndFlush \/ EndPlay
     /\ Loads({})

Next ==
  \/ Work
  \/ /\ Outside
     /\ quiet' = FALSE /\ settled' = FALSE /\ kept' = None
     /\ UNCHANGED <<play, t, use, pending, conf, fact, outcome, lost>>
     /\ Loads({})

Spec == Init /\ [][Next]_vars

\* Ansible steps its tasks, and the operator keeps running plays.
Fairness == WF_vars(Work)

FairSpec == Spec /\ Fairness

-----------------------------------------------------------------------------
(* Properties *)

\* Types; a task in progress has an entry for every unit before the current one,
\* only configured daemons and remote sockets have a handler pending, and only a
\* running daemon has loaded anything.
TypeOK ==
  /\ file \in [Units -> FileStates] /\ run \in [Units -> RunStates]
  /\ pc \in {"idle", "prepare", "render", "next", "status", "unit", "half", "result"}
  /\ play \in Plays /\ use \in BOOLEAN /\ fact \in Maybe({"modular", "monolithic", "old"})
  /\ pc # "idle" => t \in 1..(Len(Tasks) + 1)
  /\ task.op \in Ops /\ k \in 1..(Len(task.units) + 1)
  /\ pc \in {"unit", "half"} => Len(entries) = k - 1
  /\ pc \in {"unit", "half"} /\ task.op # "ensure" => status \in [Units -> Status]
  /\ entries \in Seq(Entry)
  /\ faults \in 0..MaxFaults /\ meddle \in 0..MaxMeddle
  /\ pending \subseteq Configured(play) \cup Remotes \cup {Pid}
  /\ loaded \subseteq {s \in Services : run[s] # "inactive"}
  /\ outcome \in {"none", "ok", "failed"}
  /\ {calm, quiet, settled} \subseteq BOOLEAN /\ kept \in Maybe(Settings)

Off(units) == \A u \in ToSet(units) \cap Units : file[u] # "enabled" /\ run[u] # "active"
On(units) == \A u \in ToSet(units) \cap Units : file[u] = "enabled"

\* What the host looks like in the daemon model that settings ask for.  The tasks of
\* the monolithic model ask nothing of lock and log, and neither does this predicate;
\* LogsKept below does.
Switched(s) ==
  IF UseModular(s)
  THEN /\ Off(Monolithic)
       /\ On(modular_sockets(s.services)) /\ On(modular_services(s.services))
       /\ s.listen # {} => On(libvirt_proxy_daemons(s.listen))
  ELSE /\ Off(modular_daemons_off(s.services))
       /\ LibvirtdWanted(s) =>
            /\ file[Libvirtd] = "enabled" /\ run[Libvirtd] # "inactive"
            /\ \A u \in Remotes \cap Units :
                 file[u] # "masked" => (file[u] = "enabled") = (u[2] \in Enabled(s, "libvirtd"))

Finished == pc = "idle" /\ outcome = "ok"

\* Once the role has succeeded with nobody else at work, the host is in the daemon
\* model it asks for, although disabling one model's units can disable units of the
\* other along with them, and plays of the roles that depend on it, failed or not,
\* leave it there (roles/libvirt/Notes:8-16, tasks/services/modular.yml,
\* roles/storage_pool/tasks/prepare.yml:29-37).
ModelKept == kept # None => Switched(kept)

\* Their files change together.
Filed(u) == {u} \cup Also[u]

\* The two daemon models are apart: modular units take none of libvirtd's with them,
\* and those of libvirtd none but lock's and log's, nor one remote socket another
\* (roles/libvirt/Notes:12-21, 31-66).
ModelsApart ==
  \A v \in Units :
    /\ \A u \in Filed(v) \cup Woken(v) :
         IF v[1] = "libvirtd" THEN u[1] \in Kept ELSE u[1] # "libvirtd"
    /\ v \in Remotes \cup {Libvirtd} => (Also[v] \cap Remotes) \subseteq {v}

\* A play that succeeds right after it succeeded reports no change at all.
PlayIdempotent ==
  settled => /\ TaskEnds => \A j \in DOMAIN entries : ~entries[j].changed
             /\ pending = {}

\* No operator's play both enables and disables, or starts and stops, a unit.
PlaysApart ==
  \A p \in UserPlays : \A m, n \in DOMAIN p.tasks :
    LET x == p.tasks[m]
        y == p.tasks[n]
    IN  \A v \in ToSet(x.units) \cap Units, w \in ToSet(y.units) \cap Units :
          /\ x.op \in {"enable", "ensure"} /\ y.op = "disable" =>
               w \notin Filed(v) /\ v \notin Filed(w)
          /\ x.op \in {"start", "ensure"} /\ y.op \in {"disable", "stop"} =>
               w \notin {v} \cup Woken(v) /\ v \notin Hanging(w)

\* After a successful play every running daemon whose socket the role manages has
\* read the configuration the play rendered, unless an earlier play failed before
\* its restart handler ran.
ConfigLoaded ==
  Finished =>
    \A s \in (Restarted(play) \cap Services) \ lost : run[s] # "inactive" => s \in loaded

\* Wherever a daemon is configured its socket is managed if it is managed anywhere, and
\* a modular daemon stops with its socket.
Restartable ==
  /\ \A p, q \in LibvirtPlays : Configured(p) \cap Restarted(q) \subseteq Restarted(p)
  /\ \A p \in LibvirtPlays : \A d \in (Restarted(p) \cap Services) \ {Libvirtd} :
       d \in Bound /\ MainSocket(d) \in SocketsOf[d]

\* Failed calls, time-outs, handlers that wait for a libvirtd nobody has started and
\* clients notwithstanding, re-running the role ends with the host in its daemon
\* model.
SwitchCompletes ==
  <>[][FALSE]_play => <>[](play.role = "libvirt" => Switched(play.with))

-----------------------------------------------------------------------------
(* A statement of the role that its tasks do not live up to *)

\* "virtlogd / virtlockd are kept on purpose; libvirtd relies on them"
\* (roles/libvirt/tasks/services/monolithic.yml:3-6); they "stay enabled"
\* (molecule/monolithic/tests/test_default.py:269).  No host here starts without
\* its log socket enabled, and no operator disables it.
LogsKept ==
  Finished /\ quiet /\ play.role = "libvirt" /\ ~use =>
    \A u \in Units : u[1] \in Kept \ {"libvirtd"} /\ u \notin Services =>
      file[u] = "enabled"
=============================================================================
