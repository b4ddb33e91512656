------------------------------- MODULE Challd -------------------------------
(***************************************************************************)
(* The challd daemon (challd/src): main.rs with container.rs, interface.rs,*)
(* demo.rs, dummy_interface.rs and, by INSTANCE, address_manager.rs.       *)
(*                                                                         *)
(* One connection on the UNIX socket is one member of Conns.  The tasks    *)
(* that serve it run one after the other, so one label pc[c] stands for    *)
(* the await (or the synchronous call) the current one is at:              *)
(*                                                                         *)
(*   handler (tokio::spawn)          reading, take, spawn                  *)
(*   tracked task (tracker.spawn)    ip_add .. peer_add, then awaits the   *)
(*   session task (add_temp_peer /   active, peer_del .. release           *)
(*     spawn_demo)                                                         *)
(*                                                                         *)
(* and the fourth, the response task, is reply[c] = "sending".  Every      *)
(* label is an interleaving point: the runtime is multi-threaded.          *)
(*                                                                         *)
(* What the daemon leaves in the kernel and in Docker outlives it: the     *)
(* dummy device eth42 with its addresses, the DNAT rules, the peers of     *)
(* wg42 and the containers.                                                *)
(*                                                                         *)
(* A member of Faults names a step whose external call may fail in this    *)
(* model, by the label of the step; "accept" is an error of accept(),      *)
(* "wait" an error of Docker's wait stream and "crash" the death of the    *)
(* process without unwinding.                                              *)
(***************************************************************************)
EXTENDS Naturals, FiniteSets

CONSTANTS Conns,          \* connections, each used once
          MAX_INSTANCES,
          BridgeIPs,      \* addresses of Docker's bridge
          Faults,         \* the external failures considered
          MaxBoots        \* bound on the number of times the daemon is started

\* Labels of the tracked task, from tracker.spawn to the spawn of the session.
Setup == {"ip_add", "create", "start", "inspect", "nat_add", "peer_add"}
\* Labels of the session task after its select! has returned.
Teardown == {"peer_del", "stop", "nat_del", "ip_del", "release"}
\* The labels during which the TaskTracker counts the connection's task.
Tracked == Setup \cup {"active"} \cup Teardown
\* Labels of the handler, which the tracker does not count.
Handler == {"reading", "take", "spawn"}
\* "unstopped": a Container was dropped before shutdown took its id.
Ended == {"refused", "done", "panicked", "unstopped", "dead"}

ASSUME ChalldAssumption ==
    /\ MAX_INSTANCES \in Nat \ {0}
    /\ MaxBoots \in Nat
    /\ "none" \notin BridgeIPs
    /\ Faults \subseteq (Setup \cup Teardown \cup {"accept", "wait", "crash"})

VARIABLES
    main,            \* where main() is
    boots,           \* how often the daemon has been started
    pc, mode, reply, \* per connection
    used_addresses, scan, addr,  \* the AddressManager
    eth42,           \* the dummy device exists
    ips,             \* addresses on eth42
    nat,             \* DNAT rules in PREROUTING
    peers,           \* peers configured on wg42
    ctr,             \* the connection's container
    bridge           \* the address it was given on Docker's bridge

AM == INSTANCE AddressManager WITH Tasks <- Conns

amVars    == <<used_addresses, scan, addr>>
worldVars == <<eth42, ips, nat, peers, ctr, bridge>>
vars      == <<main, boots, pc, mode, reply, amVars, worldVars>>

Addrs == AM!Addrs

\* The three RESULT_* codes of a refusal, RESULT_OK, or the end of the stream.
Replies == {"none", "sending", "OK", "MALFORMED_REQUEST", "INVALID_PORT", "BUSY", "closed"}

\* maybe_addr.is_some(): a guest's session; a demo has no address.
HasAddr(c) == addr[c] # 0

\* What the session of c installs: its DNAT rule (source 10.4.1.addr, destination
\* the bridge address that inspect_container read) and its peer (allowed ip
\* 10.4.1.addr).  boot tells the rules of this process from those an earlier one
\* has left.
Entry(c) == [conn |-> c, addr |-> addr[c], to |-> bridge[c], boot |-> boots]

Goto(c, label) == pc' = [pc EXCEPT ![c] = label]

Answer(c, r) == reply' = [reply EXCEPT ![c] = r]
-----------------------------------------------------------------------------
(* Start of the process.                                                   *)

Init ==
    /\ main = "down" /\ boots = 0
    /\ pc = [c \in Conns |-> "idle"]
    /\ mode = [c \in Conns |-> "unread"]
    /\ reply = [c \in Conns |-> "none"]
    /\ AM!Init
    /\ eth42 = FALSE /\ ips = {} /\ nat = {} /\ peers = {}
    /\ ctr = [c \in Conns |-> "none"]
    /\ bridge = [c \in Conns |-> "none"]

\* DummyInterface::create: `ip link add eth42` is asserted to succeed, so a device
\* left behind by a process that died makes every later start fail here.
DummyInterfaceReuse == eth42' = TRUE             \* seeded fault: "File exists" tolerated
DummyInterfaceCreate == ~eth42 /\ eth42' = TRUE

\* Interface::new: wg42 is configured with a new key and an empty list of peers.
InterfaceNewKeepPeers == UNCHANGED peers         \* seeded fault: peers taken over
InterfaceNew == peers' = {}

\* main() up to the accept loop.  (The unit's launch script removes an old socket
\* file.)
Boot ==
    /\ main = "down"
    /\ boots < MaxBoots
    /\ main' = "serving"
    /\ boots' = boots + 1
    /\ DummyInterfaceCreate
    /\ InterfaceNew
    /\ UNCHANGED <<pc, mode, reply, amVars, ips, nat, ctr, bridge>>
-----------------------------------------------------------------------------
(* The accept loop and the connection handler.                             *)

\* A client connects: the socket is bound until drop(listener).
Connect(c) ==
    /\ pc[c] = "idle"
    /\ main \in {"serving", "stalled", "draining", "exiting"}
    /\ Goto(c, "backlog")
    /\ UNCHANGED <<main, boots, mode, reply, amVars, worldVars>>

Accept(c) ==
    /\ pc[c] = "backlog"
    /\ main = "serving"
    /\ Goto(c, "reading")
    /\ UNCHANGED <<main, boots, mode, reply, amVars, worldVars>>

\* accept() fails: the pattern Ok((stream, _addr)) does not match, so select!
\* disables the branch and goes on waiting for the two signals only.
AcceptFails ==
    /\ main = "serving"
    /\ "accept" \in Faults
    /\ main' = "stalled"
    /\ UNCHANGED <<boots, pc, mode, reply, amVars, worldVars>>

\* The request cannot be read, or its mode, name or port mappings are not valid
\* (handle_error!, PortMappings::read).
RefuseRequest(c) ==
    /\ pc[c] = "reading"
    /\ Goto(c, "refused")
    /\ \E r \in {"MALFORMED_REQUEST", "INVALID_PORT"} : Answer(c, r)
    /\ UNCHANGED <<main, boots, mode, amVars, worldVars>>

ReadGuestRequest(c) ==
    /\ pc[c] = "reading"
    /\ mode' = [mode EXCEPT ![c] = "guest"]
    /\ AM!TakeNextAddr(c)
    /\ Goto(c, "take")
    /\ UNCHANGED <<main, boots, reply, worldVars>>

ReadDemoRequest(c) ==
    /\ pc[c] = "reading"
    /\ mode' = [mode EXCEPT ![c] = "demo"]
    /\ Goto(c, "spawn")
    /\ UNCHANGED <<main, boots, reply, amVars, worldVars>>

TakeAddr(c) ==
    /\ pc[c] = "take"
    /\ \/ AM!ProbeFree(c) /\ Goto(c, "spawn")
       \/ AM!ProbeUsed(c) /\ UNCHANGED pc
    /\ UNCHANGED <<main, boots, mode, reply, worldVars>>

\* Seeded fault: wait for a free address instead of answering BUSY.
RetryTake(c) ==
    /\ pc[c] = "take"
    /\ scan[c] = MAX_INSTANCES /\ used_addresses[scan[c]]
    /\ scan' = [scan EXCEPT ![c] = 1]
    /\ UNCHANGED <<main, boots, pc, mode, reply, used_addresses, addr, worldVars>>

RefuseBusy(c) ==
    /\ pc[c] = "take"
    /\ AM!ProbeLast(c)
    /\ Goto(c, "refused")
    /\ Answer(c, "BUSY")
    /\ UNCHANGED <<main, boots, mode, worldVars>>

\* tracker.spawn: allowed after tracker.close() too.
SpawnTracked(c) ==
    /\ pc[c] = "spawn"
    /\ Goto(c, IF HasAddr(c) THEN "ip_add" ELSE "create")
    /\ UNCHANGED <<main, boots, mode, reply, amVars, worldVars>>
-----------------------------------------------------------------------------
(* Container::create and the start of the session, in the tracked task.    *)

\* `ip addr add 10.4.2.addr/32 dev eth42`.
IpAddrAdd(c) ==
    /\ pc[c] = "ip_add"
    /\ eth42 /\ addr[c] \notin ips
    /\ ips' = ips \cup {addr[c]}
    /\ Goto(c, "create")
    /\ UNCHANGED <<main, boots, mode, reply, amVars, eth42, nat, peers, ctr, bridge>>

CreateContainer(c) ==
    /\ pc[c] = "create"
    /\ ctr' = [ctr EXCEPT ![c] = "created"]
    /\ Goto(c, "start")
    /\ UNCHANGED <<main, boots, mode, reply, amVars, eth42, ips, nat, peers, bridge>>

\* The bridge addresses Docker may give to the next container that starts: an
\* address is taken while its container runs, and no longer.
FreeBridgeIPs == {ip \in BridgeIPs : \A d \in Conns : ctr[d] = "running" => bridge[d] # ip}

\* A demo needs no network set-up: spawn_demo and the response task follow
\* without another await.
StartContainer(c) ==
    /\ pc[c] = "start"
    /\ ctr' = [ctr EXCEPT ![c] = "running"]
    /\ \E ip \in FreeBridgeIPs : bridge' = [bridge EXCEPT ![c] = ip]
    /\ \/ HasAddr(c) /\ Goto(c, "inspect") /\ UNCHANGED reply
       \/ ~HasAddr(c) /\ Goto(c, "active") /\ Answer(c, "sending")
    /\ UNCHANGED <<main, boots, mode, amVars, eth42, ips, nat, peers>>

\* The bridge address is there to be read only while the container runs; the code
\* keeps it as bridge_addr and uses it later, whatever has become of the container.
InspectContainer(c) ==
    /\ pc[c] = "inspect"
    /\ ctr[c] = "running"
    /\ Goto(c, "nat_add")
    /\ UNCHANGED <<main, boots, mode, reply, amVars, worldVars>>

\* Seeded fault: the client is answered before its peer is configured.
NatAddAnswers(c) ==
    /\ pc[c] = "nat_add"
    /\ nat' = nat \cup {Entry(c)}
    /\ Goto(c, "peer_add")
    /\ Answer(c, "sending")
    /\ UNCHANGED <<main, boots, mode, amVars, eth42, ips, peers, ctr, bridge>>

\* `iptables -t nat -A PREROUTING ...`.
NatAdd(c) ==
    /\ pc[c] = "nat_add"
    /\ nat' = nat \cup {Entry(c)}
    /\ Goto(c, "peer_add")
    /\ UNCHANGED <<main, boots, mode, reply, amVars, eth42, ips, peers, ctr, bridge>>

\* add_temp_peer: configure the peer, spawn the session task and return; then
\* the response task is spawned.
AddTempPeer(c) ==
    /\ pc[c] = "peer_add"
    /\ peers' = peers \cup {Entry(c)}
    /\ Goto(c, "active")
    /\ Answer(c, "sending")
    /\ UNCHANGED <<main, boots, mode, amVars, eth42, ips, nat, ctr, bridge>>

\* An unwrap or an assert! of the tracked task fails.  Nothing done so far is
\* undone and the address is not relinquished; the stream is dropped.  From
\* peer_add on there is a Container, and dropping it fails its own assertion.
SetupPanics(c) ==
    /\ pc[c] \in Setup
    /\ \/ pc[c] \in Faults
       \/ pc[c] = "ip_add" /\ (~eth42 \/ addr[c] \in ips)
       \/ pc[c] = "start" /\ FreeBridgeIPs = {}
       \/ pc[c] = "inspect" /\ ctr[c] = "gone"
    /\ Goto(c, IF pc[c] = "peer_add" THEN "unstopped" ELSE "panicked")
    /\ Answer(c, "closed")
    /\ UNCHANGED <<main, boots, mode, amVars, worldVars>>

\* The response task: the result and, for a guest, the WireGuard configuration;
\* or the client has gone away.
SendOk(c) ==
    /\ reply[c] = "sending"
    /\ Answer(c, "OK") \/ Answer(c, "closed")
    /\ UNCHANGED <<main, boots, pc, mode, amVars, worldVars>>
-----------------------------------------------------------------------------
(* The session task of add_temp_peer and spawn_demo.                       *)

\* token.cancelled(): main has broken out of the accept loop.
NeverCancelled == FALSE                                  \* seeded fault
Cancelled == main \in {"draining", "exiting", "returned"}

\* spawn_demo: when its select! returns, a demo's cleanup begins at once.
AfterDemoSelect == "stop"

\* What follows each step of the session's end.  A guest's peer goes first, then
\* the container, the DNAT rule and the address on eth42, and only then the slot
\* of the AddressManager.
AfterSelect(c) == IF HasAddr(c) THEN "peer_del" ELSE AfterDemoSelect

AfterStopKeepRule(c) == IF HasAddr(c) THEN "ip_del" ELSE "done"  \* seeded fault
AfterStop(c) == IF HasAddr(c) THEN "nat_del" ELSE "done"

AfterNatDelKeepIp(c) == "release"                        \* seeded fault
AfterNatDel(c) == "ip_del"

AfterIpDelKeepSlot(c) == "done"                          \* seeded fault
AfterIpDel(c) == "release"

TimerElapses(c) ==
    /\ pc[c] = "active"
    /\ Goto(c, AfterSelect(c))
    /\ UNCHANGED <<main, boots, mode, reply, amVars, worldVars>>

TokenCancelled(c) ==
    /\ pc[c] = "active"
    /\ Cancelled
    /\ Goto(c, AfterSelect(c))
    /\ UNCHANGED <<main, boots, mode, reply, amVars, worldVars>>

\* shutdown_signal: Docker's wait stream ends because the container is not
\* running any more.
ShutdownSignal(c) ==
    /\ pc[c] = "active"
    /\ ctr[c] = "gone"
    /\ Goto(c, AfterSelect(c))
    /\ UNCHANGED <<main, boots, mode, reply, amVars, worldVars>>

\* shutdown_signal returns, or its stream ends, because Docker cannot be reached.
WaitFails(c) ==
    /\ pc[c] = "active"
    /\ "wait" \in Faults
    /\ Goto(c, AfterSelect(c))
    /\ UNCHANGED <<main, boots, mode, reply, amVars, worldVars>>

RemovePeer(c) ==
    /\ pc[c] = "peer_del"
    /\ peers' = {p \in peers : p.conn # c}
    /\ Goto(c, "stop")
    /\ UNCHANGED <<main, boots, mode, reply, amVars, eth42, ips, nat, ctr, bridge>>

\* Seeded fault: the container is not stopped.
StoppedNot(c) == ctr
Stopped(c) == [ctr EXCEPT ![c] = "gone"]

\* Container::shutdown, first part.  A container that is gone already answers
\* 404; any other error is only logged and the container may go on running.  (If
\* connect_with_unix fails before, its panic meets the assertion of Drop and the
\* process aborts, which is Crash.)
StopContainer(c) ==
    /\ pc[c] = "stop"
    /\ \/ ctr' = Stopped(c)
       \/ "stop" \in Faults /\ UNCHANGED ctr
    /\ Goto(c, AfterStop(c))
    /\ UNCHANGED <<main, boots, mode, reply, amVars, eth42, ips, nat, peers, bridge>>

\* `iptables -t nat -D PREROUTING ...`.
NatDelete(c) ==
    /\ pc[c] = "nat_del"
    /\ Entry(c) \in nat
    /\ nat' = nat \ {Entry(c)}
    /\ Goto(c, AfterNatDel(c))
    /\ UNCHANGED <<main, boots, mode, reply, amVars, eth42, ips, peers, ctr, bridge>>

\* Seeded fault: `ip addr flush dev eth42`.
IpAddrFlush(c) ==
    /\ pc[c] = "ip_del"
    /\ eth42 /\ addr[c] \in ips
    /\ ips' = {}
    /\ Goto(c, AfterIpDel(c))
    /\ UNCHANGED <<main, boots, mode, reply, amVars, eth42, nat, peers, ctr, bridge>>

\* `ip addr del 10.4.2.addr/32 dev eth42`.
IpAddrDel(c) ==
    /\ pc[c] = "ip_del"
    /\ eth42 /\ addr[c] \in ips
    /\ ips' = ips \ {addr[c]}
    /\ Goto(c, AfterIpDel(c))
    /\ UNCHANGED <<main, boots, mode, reply, amVars, eth42, nat, peers, ctr, bridge>>

Relinquish(c) ==
    /\ pc[c] = "release"
    /\ AM!RelinquishAddr(c)
    /\ Goto(c, "done")
    /\ UNCHANGED <<main, boots, mode, reply, worldVars>>

\* remove_peer returns an error: the session task returns early, and dropping
\* the cleanup future drops a Container that is still running.  Or one of the
\* two commands of Container::shutdown does not succeed and its assert! panics.
TeardownPanics(c) ==
    /\ pc[c] \in {"peer_del", "nat_del", "ip_del"}
    /\ \/ pc[c] \in Faults
       \/ pc[c] = "nat_del" /\ Entry(c) \notin nat
       \/ pc[c] = "ip_del" /\ (~eth42 \/ addr[c] \notin ips)
    /\ Goto(c, IF pc[c] = "peer_del" THEN "unstopped" ELSE "panicked")
    /\ UNCHANGED <<main, boots, mode, reply, amVars, worldVars>>
-----------------------------------------------------------------------------
(* End of the process, and the environment.                                *)

\* SIGINT or SIGTERM: break, token.cancel(), tracker.close().
Signal ==
    /\ main \in {"serving", "stalled"}
    /\ main' = "draining"
    /\ UNCHANGED <<boots, pc, mode, reply, amVars, worldVars>>

\* tracker.wait(): closed, and no tracked task is left at this moment.
WaitReturns ==
    /\ main = "draining"
    /\ \A c \in Conns : pc[c] \notin Tracked
    /\ main' = "exiting"
    /\ UNCHANGED <<boots, pc, mode, reply, amVars, worldVars>>

\* Connections nobody accepted are reset when the listener goes away.
CloseOpen(S) ==
    reply' = [c \in Conns |-> IF pc[c] \in S /\ reply[c] \in {"none", "sending"}
                               THEN "closed" ELSE reply[c]]

\* Drop of DummyInterface: the device goes with its addresses.
DummyInterfaceDrop == eth42' = FALSE /\ ips' = {}

\* Drop of Interface, with the last reference to it: wg42 goes with its peers.
InterfaceDrop == peers' = {}

\* drop(listener), remove_file, and the locals of main.  The other tasks still run.
MainReturns ==
    /\ main = "exiting"
    /\ main' = "returned"
    /\ DummyInterfaceDrop
    /\ CloseOpen({"backlog"})
    /\ pc' = [c \in Conns |-> IF pc[c] = "backlog" THEN "refused" ELSE pc[c]]
    /\ UNCHANGED <<boots, mode, amVars, nat, peers, ctr, bridge>>

\* The runtime is dropped and every task with it, at the await it stands at; the
\* session future owns a Container until shutdown() has taken its id, and dropping
\* it fails the assertion of its Drop.  The tasks held the last references to the
\* Interface.
RuntimeDropped ==
    /\ main = "returned"
    /\ main' = "down"
    /\ pc' = [c \in Conns |->
                  IF pc[c] \in {"active", "peer_del"} THEN "unstopped"
                  ELSE IF pc[c] \in Handler \cup Tracked THEN "dead" ELSE pc[c]]
    /\ CloseOpen(Handler \cup Tracked \cup Ended)
    /\ AM!Discard
    /\ InterfaceDrop
    /\ UNCHANGED <<boots, mode, eth42, ips, nat, ctr, bridge>>

\* The process is killed: memory is gone, the kernel and Docker keep everything.
Crash ==
    /\ main # "down"
    /\ "crash" \in Faults
    /\ main' = "down"
    /\ pc' = [c \in Conns |->
                  IF pc[c] \in {"backlog"} \cup Handler \cup Tracked THEN "dead" ELSE pc[c]]
    /\ CloseOpen({"backlog"} \cup Handler \cup Tracked \cup Ended)
    /\ AM!Discard
    /\ UNCHANGED <<boots, mode, worldVars>>

\* The program in the container ends by itself; auto_remove removes it.
ContainerExits(c) ==
    /\ ctr[c] = "running"
    /\ ctr' = [ctr EXCEPT ![c] = "gone"]
    /\ UNCHANGED <<main, boots, pc, mode, reply, amVars, eth42, ips, nat, peers, bridge>>
-----------------------------------------------------------------------------
\* A step of the tasks of c that needs neither a client nor the session timer.
TaskStep(c) ==
    \/ RefuseRequest(c) \/ ReadGuestRequest(c) \/ ReadDemoRequest(c)
    \/ TakeAddr(c) \/ RefuseBusy(c) \/ SpawnTracked(c)
    \/ IpAddrAdd(c) \/ CreateContainer(c) \/ StartContainer(c)
    \/ InspectContainer(c) \/ NatAdd(c) \/ AddTempPeer(c) \/ SetupPanics(c)
    \/ TokenCancelled(c) \/ ShutdownSignal(c)
    \/ RemovePeer(c) \/ StopContainer(c) \/ NatDelete(c) \/ IpAddrDel(c)
    \/ Relinquish(c) \/ TeardownPanics(c)

MainStep == WaitReturns \/ MainReturns \/ RuntimeDropped

Next ==
    \/ Boot \/ AcceptFails \/ Signal \/ MainStep \/ Crash
    \/ \E c \in Conns : \/ Connect(c) \/ Accept(c) \/ TaskStep(c)
                         \/ SendOk(c) \/ TimerElapses(c) \/ WaitFails(c) \/ ContainerExits(c)

Spec == Init /\ [][Next]_vars

\* tokio runs every task that can run, Docker and the commands answer, and a
\* connected client sends its whole request or goes away (start_container in
\* ctf_archive writes it at once).  Nothing is assumed of the session timer.
FairSpec ==
    /\ Spec
    /\ WF_vars(MainStep)
    /\ \A c \in Conns : WF_vars(Accept(c)) /\ WF_vars(TaskStep(c)) /\ WF_vars(SendOk(c))

\* The four (six) hours of an active session elapse.
Timers == \A c \in Conns : WF_vars(TimerElapses(c))

\* In addition, systemd starts the daemon again.
RestartSpec == FairSpec /\ Timers /\ WF_vars(Boot)
-----------------------------------------------------------------------------
Entries == [conn : Conns, addr : Addrs, to : BridgeIPs, boot : 1..MaxBoots]

\* Every variable stays in its range; in particular rules and peers carry an
\* address of the table and a destination that Docker gave.
TypeOK ==
    /\ main \in {"down", "serving", "stalled", "draining", "exiting", "returned"}
    /\ boots \in 0..MaxBoots
    /\ pc \in [Conns -> {"idle", "backlog"} \cup Handler \cup Tracked \cup Ended]
    /\ mode \in [Conns -> {"unread", "guest", "demo"}]
    /\ reply \in [Conns -> Replies]
    /\ AM!TypeOK
    /\ eth42 \in BOOLEAN
    /\ ips \subseteq Addrs
    /\ nat \subseteq Entries
    /\ peers \subseteq Entries
    /\ ctr \in [Conns -> {"none", "created", "running", "gone"}]
    /\ bridge \in [Conns -> BridgeIPs \cup {"none"}]

\* The states of a container that Docker has.
Existing == {"created", "running"}

\* How far a request has come, seen from its client.  When its tasks are gone its
\* container may have been left: by a panic, by a stop that Docker refused, by the
\* runtime or the process that ended under them.
StageOf(label, container) ==
    CASE label = "idle" -> "idle"
      [] label \in {"backlog"} \cup Handler \cup Setup -> "open"
      [] label \in {"active"} \cup Teardown -> "session"
      [] label \in Ended -> IF container \in Existing THEN "left" ELSE "over"

Service == INSTANCE ContainerService WITH
    up    <- main \in {"serving", "stalled", "draining", "exiting"},
    stage <- [c \in Conns |-> StageOf(pc[c], ctr[c])]

\* Whatever fails and however the daemon ends, its clients see what
\* ContainerService promises: OK only for a request that became a session, one
\* answer each, nothing left of a request that was refused with a result code, and
\* no session in progress behind an answer that the daemon lost (though perhaps
\* its container, which nobody will stop).
ServiceSpec == Service!Spec

\* An address goes back to the pool only after its DNAT rule, its peer and its
\* address on eth42 are gone: while this process has one of the three installed, a
\* connection holds the address.  Otherwise the next guest would share it.  (The
\* container is not included: if Docker fails to stop it, it outlives the lease.)
LeaseCoversNetwork ==
    main # "down" =>
        /\ \A e \in nat : e.boot = boots => addr[e.conn] = e.addr
        /\ \A e \in peers : addr[e.conn] = e.addr
        /\ \A a \in ips : \E c \in Conns : addr[c] = a

\* A WireGuard key is accepted only while its rule is installed, it is led by no
\* other rule of this process, and while its container runs the rule's destination
\* is the address of that container and of no other one, although Docker reuses
\* addresses.  (Once the container is gone and until the rule is deleted, its address
\* may be another's: the code does not exclude that the key then leads there.)
PeerReachesOwnContainer ==
    main # "down" =>
        \A p \in peers :
            /\ p \in nat
            /\ \A e \in nat : e.boot = boots /\ e.addr = p.addr => e = p
            /\ ctr[p.conn] = "running" =>
                  {d \in Conns : ctr[d] = "running" /\ bridge[d] = p.to} = {p.conn}

\* `ip addr add` never finds the address on eth42 already, so its assertion can
\* fail only for outside reasons.
AddressIsFresh == \A c \in Conns : pc[c] = "ip_add" => addr[c] \notin ips

\* From its installation until its own session's end removes it, nothing that other
\* sessions, failures or the shutdown do takes away a guest's slot, address on eth42,
\* rule or peer; so the assertions of Container::shutdown fail only for outside
\* reasons, and relinquish_addr is given an address within the table.  (When main has
\* returned, eth42 is gone under a session that the tracker did not wait for.)
SessionIntact ==
    \A c \in Conns : HasAddr(c) =>
        /\ addr[c] \in Addrs /\ used_addresses[addr[c]]
        /\ pc[c] \in Tracked \ {"ip_add", "release"} /\ main # "returned" => addr[c] \in ips
        /\ pc[c] \in {"peer_add", "active", "peer_del", "stop", "nat_del"} => Entry(c) \in nat
        /\ pc[c] \in {"active", "peer_del"} => Entry(c) \in peers

\* A container runs, a rule or a peer of this process exists, or an address is
\* held, only while a task will see to its removal, unless that task has
\* panicked, the process has died under it or Docker refused to stop it.
NothingForgotten ==
    \A c \in Conns :
        pc[c] \in {"idle", "backlog", "reading", "refused", "done"} =>
            /\ addr[c] = 0
            /\ ctr[c] = "running" => "stop" \in Faults
            /\ \A e \in nat \cup peers : e.conn # c

GuestContainers == {c \in Conns : mode[c] = "guest" /\ ctr[c] \in Existing}

\* No more guest containers exist than there are addresses, counting those that
\* panicked tasks have left.  (Of one process, and if Docker can stop them.)
InstanceBound == Cardinality(GuestContainers) <= MAX_INSTANCES
-----------------------------------------------------------------------------
(* The inductive invariant behind the theorems of ChalldProofs.            *)

\* Labels at which a connection's DNAT rule, or its peer, may be installed.
RuleLabels == {"peer_add", "active", "peer_del", "stop", "nat_del", "panicked", "unstopped"}
PeerLabels == {"active", "peer_del", "unstopped"}

\* The address a connection holds, and the walk it is in, follow from its label.
AddrFollowsLabel ==
    \A c \in Conns :
        /\ scan[c] # 0 <=> pc[c] = "take"
        /\ HasAddr(c) => pc[c] \in {"spawn", "panicked", "unstopped"} \cup Tracked
        /\ pc[c] \in (Setup \ {"create", "start"}) \cup (Teardown \ {"stop"}) => HasAddr(c)

\* A process that is gone has no tasks, and one that runs was started.
DownIsQuiet ==
    IF main = "down"
      THEN \A c \in Conns : pc[c] \notin Handler \cup Tracked /\ ~HasAddr(c)
      ELSE boots # 0

\* An address on eth42 belongs to a connection that has put it there and has not
\* removed it yet; without the device there are none.
IpsCovered ==
    /\ ~eth42 => ips = {}
    /\ main # "down" => \A a \in ips : \E c \in Conns :
          addr[c] = a /\ pc[c] \notin {"spawn", "ip_add", "release"}

\* A rule of this process belongs to a session that holds its address; a rule of
\* an earlier process belongs to a connection that process took with it.
RulesCovered ==
    \A e \in nat :
        /\ e.boot <= boots
        /\ pc[e.conn] \in RuleLabels \cup {"dead"}
        /\ main # "down" /\ e.boot = boots => addr[e.conn] = e.addr /\ pc[e.conn] # "dead"
        /\ pc[e.conn] \in Tracked => e = Entry(e.conn)

\* From the end of Container::create until NatDelete, a guest's rule is there.
RuleInstalled ==
    \A c \in Conns : HasAddr(c) /\ pc[c] \in RuleLabels \cap Tracked => Entry(c) \in nat

\* A peer of a running daemon has its rule.
PeersCovered ==
    /\ \A p \in peers : pc[p.conn] \in PeerLabels \cup {"dead"}
    /\ main # "down" => \A p \in peers :
          p.boot = boots /\ p \in nat /\ pc[p.conn] \in PeerLabels

\* How far the container of a connection is.
ContainerFollowsLabel ==
    \A c \in Conns :
        /\ pc[c] \in {"idle", "backlog", "refused", "ip_add", "create"} \cup Handler
              => ctr[c] = "none"
        /\ pc[c] \in {"nat_del", "ip_del", "release", "done"} /\ "stop" \notin Faults
              => ctr[c] = "gone"

\* The parts above, about what a connection has in the kernel and in Docker.
SessionInv ==
    /\ AddrFollowsLabel
    /\ DownIsQuiet
    /\ IpsCovered
    /\ RulesCovered
    /\ RuleInstalled
    /\ PeersCovered
    /\ ContainerFollowsLabel

\* An address on eth42 and a peer stay where the connection has put them.  (The rule
\* is in RuleInstalled.)
NetworkInstalled ==
    \A c \in Conns : HasAddr(c) =>
        /\ pc[c] \in Tracked \ {"ip_add", "release"} /\ main # "returned" => addr[c] \in ips
        /\ pc[c] \in PeerLabels \cap Tracked => Entry(c) \in peers

\* Running containers have addresses of their own, and a rule keeps the one that its
\* connection's container was given.
BridgeCovered ==
    /\ \A c \in Conns :
          /\ ctr[c] = "running" => bridge[c] \in BridgeIPs
          /\ pc[c] \in Tracked \ {"ip_add", "create", "start"} => bridge[c] \in BridgeIPs
    /\ \A c, d \in Conns :
          ctr[c] = "running" /\ ctr[d] = "running" /\ bridge[c] = bridge[d] => c = d
    /\ \A e \in nat : e.to = bridge[e.conn]

\* A client has been answered, or is being answered, exactly if its request has
\* been decided.
ReplyFollowsLabel ==
    \A c \in Conns :
        reply[c] = "none" <=> pc[c] \in {"idle", "backlog"} \cup Handler \cup Setup

\* Only guests have addresses, and a guest keeps its address as long as anything
\* is left of it, also if its task has panicked, while the first process runs.
ModeFollowsLabel ==
    \A c \in Conns :
        /\ HasAddr(c) => mode[c] = "guest"
        /\ pc[c] = "take" => mode[c] = "guest"
        /\ mode[c] = "guest" /\ pc[c] \in {"spawn"} \cup Tracked => HasAddr(c)
        /\ boots = 0 => pc[c] = "idle"
        /\ main # "down" /\ boots = 1 =>
              /\ pc[c] # "dead"
              /\ mode[c] = "guest" /\ pc[c] \in {"panicked", "unstopped"} => HasAddr(c)

\* The table's own invariant and, label by label, how each connection's address,
\* rule, peer, container and answer relate: what makes the safety properties
\* inductive.
IInv ==
    /\ TypeOK /\ AM!IInv /\ SessionInv /\ NetworkInstalled /\ BridgeCovered
    /\ ReplyFollowsLabel /\ ModeFollowsLabel
-----------------------------------------------------------------------------
\* After a signal the daemon exits without waiting for the sessions' timers,
\* whatever fails meanwhile and whoever connects meanwhile.
ShutdownCompletes == main = "draining" ~> main = "down"

\* Every client that connects is answered or sees its stream closed: the promise
\* on which ApiServer relies, which has no timeout of its own.
ClientAnswered == Service!Answered

\* If sessions' timers elapse, an address that was taken comes back, unless the
\* task that held it panicked.
AddressReturned ==
    Timers => \A c \in Conns : HasAddr(c) ~> ~HasAddr(c) \/ pc[c] \in {"panicked", "unstopped"}

\* If sessions' timers elapse, a running container is gone in the end, unless the
\* task in charge of it panicked or was dropped with the runtime.  (If Docker can
\* stop it.)
ContainerDestroyed ==
    Timers => \A c \in Conns : ctr[c] = "running" ~>
        ctr[c] = "gone" \/ pc[c] \in {"panicked", "unstopped", "dead"}
-----------------------------------------------------------------------------
(* What the repository says of the daemon and the code does not keep.      *)

\* README.md: "Handles logic for graceful shutdown of containers and WireGuard
\* peers when it receives a SIGINT or SIGTERM."
GracefulShutdown ==
    main = "down" => nat = {} /\ peers = {} /\ \A c \in Conns : ctr[c] # "running"

\* ec2.nix: Restart = "on-failure" for the challd unit.
RestartServes == main = "down" /\ 0 < boots /\ boots < MaxBoots ~> main = "serving"
=============================================================================
