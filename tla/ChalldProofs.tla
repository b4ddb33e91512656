---------------------------- MODULE ChalldProofs ----------------------------
(***************************************************************************)
(* Safety of the daemon for every set of connections, every number of      *)
(* addresses, every set of external faults and every number of restarts.   *)
(*                                                                         *)
(* The daemon takes only steps of the address table (UsesTable), so the    *)
(* table's theorems carry over.  The rest of IInv says, label by label,    *)
(* what a connection has installed; LeaseCoversNetwork is not inductive    *)
(* without it, because the release of an address must know that the steps  *)
(* before it in the session's end have removed everything.                 *)
(***************************************************************************)
EXTENDS Challd, TLAPS

AMP == INSTANCE AddressManagerProofs WITH Tasks <- Conns

\* Whatever the daemon does, the address table makes one of its own steps or none.
LEMMA UsesTable == [Next]_vars => [AM!Next]_(AM!vars)
<1> SUFFICES ASSUME [Next]_vars PROVE [AM!Next]_(AM!vars)
  OBVIOUS
<1> USE DEF AM!vars, amVars, worldVars
<1>1. ASSUME NEW c \in Conns, TaskStep(c) PROVE [AM!Next]_(AM!vars)
  <2> USE <1>1
  <2>1. CASE ReadGuestRequest(c)
    BY <2>1 DEF ReadGuestRequest, AM!Next
  <2>2. CASE TakeAddr(c)
    BY <2>2 DEF TakeAddr, AM!Next, AM!Probe
  <2>3. CASE RefuseBusy(c)
    BY <2>3 DEF RefuseBusy, AM!Next, AM!Probe
  <2>4. CASE Relinquish(c)
    BY <2>4 DEF Relinquish, AM!Next
  <2>5. CASE ~(\/ ReadGuestRequest(c) \/ TakeAddr(c) \/ RefuseBusy(c) \/ Relinquish(c))
    BY <2>5 DEF TaskStep, RefuseRequest, ReadDemoRequest, SpawnTracked, IpAddrAdd,
         CreateContainer, StartContainer, InspectContainer, NatAdd, AddTempPeer,
         SetupPanics, TokenCancelled, ShutdownSignal, RemovePeer, StopContainer,
         NatDelete, IpAddrDel, TeardownPanics
  <2> QED BY <2>1, <2>2, <2>3, <2>4, <2>5
<1>2. ASSUME NEW c \in Conns,
             \/ Connect(c) \/ Accept(c) \/ SendOk(c)
             \/ TimerElapses(c) \/ WaitFails(c) \/ ContainerExits(c)
      PROVE  UNCHANGED AM!vars
  BY <1>2 DEF Connect, Accept, SendOk, TimerElapses, WaitFails, ContainerExits
<1>3. CASE RuntimeDropped \/ Crash
  BY <1>3 DEF RuntimeDropped, Crash, AM!Next
<1>4. CASE Boot \/ AcceptFails \/ Signal \/ WaitReturns \/ MainReturns
  BY <1>4 DEF Boot, AcceptFails, Signal, WaitReturns, MainReturns
<1>5. CASE UNCHANGED vars
  BY <1>5 DEF vars
<1> QED
  BY <1>1, <1>2, <1>3, <1>4, <1>5 DEF Next, MainStep

\* So the table's inductive invariant, proved for the table alone, is kept.
LEMMA StepTable == AM!IInv /\ [AM!Next]_(AM!vars) => AM!IInv'
<1>1. MAX_INSTANCES \in Nat \ {0}
  BY ChalldAssumption
<1>2. AMP!IInv /\ [AMP!Next]_(AMP!vars) => AMP!IInv'
  BY <1>1, AMP!NextIInv DEF AMP!MaxInstancesAssumption
<1>3. AM!IInv <=> AMP!IInv
  BY DEF AM!IInv, AM!TypeOK, AM!AddressExclusive, AM!MarkedIffHeld,
         AM!HoldsOutsideCall, AM!Addrs, AMP!IInv, AMP!TypeOK, AMP!AddressExclusive,
         AMP!MarkedIffHeld, AMP!HoldsOutsideCall, AMP!Addrs
<1>4. (AM!IInv <=> AMP!IInv)'
  BY DEF AM!IInv, AM!TypeOK, AM!AddressExclusive, AM!MarkedIffHeld,
         AM!HoldsOutsideCall, AM!Addrs, AMP!IInv, AMP!TypeOK, AMP!AddressExclusive,
         AMP!MarkedIffHeld, AMP!HoldsOutsideCall, AMP!Addrs
<1>5. AM!Next <=> AMP!Next
  BY DEF AM!Next, AM!TakeNextAddr, AM!Probe, AM!ProbeFree, AM!ProbeUsed, AM!ProbeLast,
         AM!RelinquishAddr, AM!Discard, AM!Marked, AM!Unmarked, AM!AddressOf, AM!Addrs,
         AMP!Next, AMP!TakeNextAddr, AMP!Probe, AMP!ProbeFree, AMP!ProbeUsed, AMP!ProbeLast,
         AMP!RelinquishAddr, AMP!Discard, AMP!Marked, AMP!Unmarked, AMP!AddressOf, AMP!Addrs
<1>6. UNCHANGED AM!vars <=> UNCHANGED AMP!vars
  BY DEF AM!vars, AMP!vars
<1> QED BY <1>2, <1>3, <1>4, <1>5, <1>6

\* A step that neither changes eth42 nor moves the holder of an address on it
\* past the labels at which the address may be there.
LEMMA IpsStay ==
  ASSUME TypeOK, IpsCovered, UNCHANGED <<main, eth42, ips>>,
         \A d \in Conns : addr[d] \in ips /\ pc[d] \notin {"spawn", "ip_add", "release"}
             => addr'[d] = addr[d] /\ pc'[d] \notin {"spawn", "ip_add", "release"}
  PROVE  IpsCovered'
  BY DEF IpsCovered

\* A step that moves no connection that has a peer.
LEMMA PeersStay ==
  ASSUME TypeOK, PeersCovered, UNCHANGED <<main, boots, nat, peers>>,
         NEW c \in Conns, pc[c] \notin PeerLabels \cup {"dead"},
         \A d \in Conns \ {c} : pc'[d] = pc[d]
  PROVE  PeersCovered'
<1>1. \A p \in peers : pc'[p.conn] = pc[p.conn]
  BY DEF PeersCovered, TypeOK, Entries
<1> QED BY <1>1 DEF PeersCovered

\* What a session installs once it knows its container's address has the right type.
LEMMA EntryTyped ==
  ASSUME IInv, NEW c \in Conns, pc[c] \in {"nat_add", "peer_add"}
  PROVE  Entry(c) \in Entries
<1>1. addr[c] \in Addrs
  <2>1. addr[c] # 0
    BY DEF IInv, SessionInv, AddrFollowsLabel, HasAddr, Setup
  <2>2. addr[c] \in 0..MAX_INSTANCES
    BY DEF IInv, TypeOK, AM!TypeOK
  <2> QED BY <2>1, <2>2, ChalldAssumption DEF Addrs, AM!Addrs
<1>2. boots \in 1..MaxBoots
  BY ChalldAssumption DEF IInv, TypeOK, SessionInv, DownIsQuiet, Tracked, Setup
<1>3. bridge[c] \in BridgeIPs
  BY DEF IInv, BridgeCovered, Tracked, Setup
<1> QED BY <1>1, <1>2, <1>3 DEF Entry, Entries

\* Every step keeps the types; rules and peers need to know that the connection
\* holds an address and that the daemon has been started.
LEMMA StepTypes == IInv /\ AM!TypeOK' /\ [Next]_vars => TypeOK'
<1> SUFFICES ASSUME IInv, AM!TypeOK', [Next]_vars PROVE TypeOK'
  OBVIOUS
<1> USE ChalldAssumption
    DEF IInv, TypeOK, AM!TypeOK, AM!Addrs, Addrs, SessionInv, AddrFollowsLabel,
        DownIsQuiet, Entries, Entry, HasAddr,
        Goto, Answer, amVars, worldVars, Setup, Teardown, Tracked, Handler, Ended, Replies
<1>1. ASSUME NEW c \in Conns, RefuseRequest(c) PROVE TypeOK'
  BY <1>1 DEF RefuseRequest
<1>2. ASSUME NEW c \in Conns, ReadGuestRequest(c) PROVE TypeOK'
  BY <1>2 DEF ReadGuestRequest, AM!TakeNextAddr
<1>3. ASSUME NEW c \in Conns, ReadDemoRequest(c) PROVE TypeOK'
  BY <1>3 DEF ReadDemoRequest
<1>4. ASSUME NEW c \in Conns, TakeAddr(c) PROVE TypeOK'
  <2>1. pc' \in [Conns -> {"idle", "backlog"} \cup Handler \cup Tracked \cup Ended]
    BY <1>4 DEF TakeAddr
  <2>2. UNCHANGED <<main, boots, mode, reply, eth42, ips, nat, peers, ctr, bridge>>
    BY <1>4 DEF TakeAddr
  <2> QED BY <2>1, <2>2
<1>5. ASSUME NEW c \in Conns, RefuseBusy(c) PROVE TypeOK'
  BY <1>5 DEF RefuseBusy, AM!ProbeLast
<1>6. ASSUME NEW c \in Conns, SpawnTracked(c) PROVE TypeOK'
  BY <1>6 DEF SpawnTracked
<1>7. ASSUME NEW c \in Conns, IpAddrAdd(c) PROVE TypeOK'
  <2>1. addr[c] \in Addrs
    BY <1>7 DEF IpAddrAdd
  <2> QED BY <1>7, <2>1 DEF IpAddrAdd
<1>8. ASSUME NEW c \in Conns, CreateContainer(c) PROVE TypeOK'
  BY <1>8 DEF CreateContainer
<1>9. ASSUME NEW c \in Conns, StartContainer(c) PROVE TypeOK'
  <2>1. PICK ip \in BridgeIPs : bridge' = [bridge EXCEPT ![c] = ip]
    BY <1>9 DEF StartContainer, FreeBridgeIPs
  <2>2. bridge' \in [Conns -> BridgeIPs \cup {"none"}]
    BY <2>1
  <2>3. pc' \in [Conns -> {"idle", "backlog"} \cup Handler \cup Tracked \cup Ended]
    BY <1>9 DEF StartContainer
  <2>4. reply' \in [Conns -> Replies]
    <3>1. UNCHANGED reply \/ Answer(c, "sending")
      BY <1>9 DEF StartContainer
    <3>2. CASE UNCHANGED reply
      BY <3>2
    <3>3. CASE reply' = [reply EXCEPT ![c] = "sending"]
      BY <3>3
    <3> QED BY <3>1, <3>2, <3>3
  <2>5. ctr' \in [Conns -> {"none", "created", "running", "gone"}]
    BY <1>9 DEF StartContainer
  <2>6. UNCHANGED <<main, boots, mode, amVars, eth42, ips, nat, peers>>
    BY <1>9 DEF StartContainer
  <2> QED BY <2>2, <2>3, <2>4, <2>5, <2>6
<1>10. ASSUME NEW c \in Conns, InspectContainer(c) PROVE TypeOK'
  BY <1>10 DEF InspectContainer
<1>11. ASSUME NEW c \in Conns, NatAdd(c) PROVE TypeOK'
  <2>1. pc[c] = "nat_add"
    BY <1>11 DEF NatAdd
  <2>2. Entry(c) \in Entries
    BY <2>1, EntryTyped
  <2> QED BY <1>11, <2>2 DEF NatAdd
<1>12. ASSUME NEW c \in Conns, AddTempPeer(c) PROVE TypeOK'
  <2>0. pc[c] = "peer_add"
    BY <1>12 DEF AddTempPeer
  <2>4. Entry(c) \in Entries
    BY <2>0, EntryTyped
  <2> QED BY <1>12, <2>4 DEF AddTempPeer
<1>13. ASSUME NEW c \in Conns, SetupPanics(c) PROVE TypeOK'
  BY <1>13 DEF SetupPanics
<1>14. ASSUME NEW c \in Conns, TokenCancelled(c) PROVE TypeOK'
  BY <1>14 DEF TokenCancelled, AfterSelect, AfterDemoSelect, Cancelled
<1>15. ASSUME NEW c \in Conns, ShutdownSignal(c) PROVE TypeOK'
  BY <1>15 DEF ShutdownSignal, AfterSelect, AfterDemoSelect
<1>16. ASSUME NEW c \in Conns, RemovePeer(c) PROVE TypeOK'
  BY <1>16 DEF RemovePeer
<1>17. ASSUME NEW c \in Conns, StopContainer(c) PROVE TypeOK'
  BY <1>17 DEF StopContainer, Stopped, AfterStop
<1>18. ASSUME NEW c \in Conns, NatDelete(c) PROVE TypeOK'
  BY <1>18 DEF NatDelete, AfterNatDel
<1>19. ASSUME NEW c \in Conns, IpAddrDel(c) PROVE TypeOK'
  BY <1>19 DEF IpAddrDel, AfterIpDel
<1>20. ASSUME NEW c \in Conns, Relinquish(c) PROVE TypeOK'
  BY <1>20 DEF Relinquish, AM!RelinquishAddr
<1>21. ASSUME NEW c \in Conns, TeardownPanics(c) PROVE TypeOK'
  BY <1>21 DEF TeardownPanics
<1>22. ASSUME NEW c \in Conns, Connect(c) PROVE TypeOK'
  BY <1>22 DEF Connect
<1>23. ASSUME NEW c \in Conns, Accept(c) PROVE TypeOK'
  BY <1>23 DEF Accept
<1>24. ASSUME NEW c \in Conns, SendOk(c) PROVE TypeOK'
  BY <1>24 DEF SendOk
<1>25. ASSUME NEW c \in Conns, TimerElapses(c) PROVE TypeOK'
  BY <1>25 DEF TimerElapses, AfterSelect, AfterDemoSelect
<1>26. ASSUME NEW c \in Conns, ContainerExits(c) PROVE TypeOK'
  BY <1>26 DEF ContainerExits
<1>27. ASSUME Boot PROVE TypeOK'
  BY <1>27 DEF Boot, DummyInterfaceCreate, InterfaceNew
<1>28. ASSUME AcceptFails PROVE TypeOK'
  BY <1>28 DEF AcceptFails
<1>29. ASSUME Signal PROVE TypeOK'
  BY <1>29 DEF Signal
<1>30. ASSUME WaitReturns PROVE TypeOK'
  BY <1>30 DEF WaitReturns
<1>31. ASSUME MainReturns PROVE TypeOK'
  BY <1>31 DEF MainReturns, CloseOpen, DummyInterfaceDrop
<1>32. ASSUME RuntimeDropped PROVE TypeOK'
  BY <1>32 DEF RuntimeDropped, CloseOpen, InterfaceDrop, AM!Discard
<1>33. ASSUME Crash PROVE TypeOK'
  BY <1>33 DEF Crash, CloseOpen, AM!Discard
<1>34. ASSUME UNCHANGED vars PROVE TypeOK'
  BY <1>34 DEF vars
<1>35. ASSUME NEW c \in Conns, WaitFails(c) PROVE TypeOK'
  BY <1>35 DEF WaitFails, AfterSelect, AfterDemoSelect
<1> QED
  BY <1>1, <1>2, <1>3, <1>4, <1>5, <1>6, <1>7, <1>8, <1>9, <1>10, <1>11, <1>12, <1>13,
     <1>14, <1>15, <1>16, <1>17, <1>18, <1>19, <1>20, <1>21, <1>22, <1>23, <1>24,
     <1>25, <1>26, <1>27, <1>28, <1>29, <1>30, <1>31, <1>32, <1>33, <1>34, <1>35
     DEF Next, TaskStep, MainStep

\* Every step keeps what the labels say of addresses, rules, peers and containers.
LEMMA StepSession == IInv /\ AM!IInv' /\ TypeOK' /\ [Next]_vars => SessionInv'
<1> SUFFICES ASSUME IInv, AM!IInv', TypeOK', [Next]_vars PROVE SessionInv'
  OBVIOUS
<1> USE ChalldAssumption
    DEF IInv, SessionInv, TypeOK, AddrFollowsLabel, DownIsQuiet, IpsCovered, RulesCovered,
        RuleInstalled, PeersCovered, ContainerFollowsLabel, AM!IInv, AM!TypeOK,
        AM!AddressExclusive, AM!Addrs, Addrs, Entries, Entry, HasAddr,
        Goto, amVars, worldVars, Setup, Teardown, Tracked, Handler,
        RuleLabels, PeerLabels
<1>1. ASSUME NEW c \in Conns, RefuseRequest(c) PROVE SessionInv'
  BY <1>1 DEF RefuseRequest
<1>2. ASSUME NEW c \in Conns, ReadGuestRequest(c) PROVE SessionInv'
  BY <1>2 DEF ReadGuestRequest, AM!TakeNextAddr
<1>3. ASSUME NEW c \in Conns, ReadDemoRequest(c) PROVE SessionInv'
  <2> HIDE
     DEF AddrFollowsLabel, DownIsQuiet, IpsCovered, RulesCovered, RuleInstalled,
         PeersCovered, ContainerFollowsLabel
  <2>1. AddrFollowsLabel'
    BY <1>3 DEF ReadDemoRequest, AddrFollowsLabel
  <2>2. DownIsQuiet'
    BY <1>3 DEF ReadDemoRequest, DownIsQuiet
  <2>3. IpsCovered'
    <3>0. addr[c] = 0
      BY <1>3 DEF ReadDemoRequest, AddrFollowsLabel
    <3>1. addr[c] \notin ips
      BY <3>0
    <3>2. /\ UNCHANGED <<main, eth42, ips>>
          /\ \A d \in Conns \ {c} : addr'[d] = addr[d] /\ pc'[d] = pc[d]
      BY <1>3 DEF ReadDemoRequest
    <3> HIDE DEF TypeOK
    <3> QED BY <3>1, <3>2, IpsStay
  <2>4. RulesCovered'
    BY <1>3 DEF ReadDemoRequest, RulesCovered, AddrFollowsLabel, DownIsQuiet
  <2>5. RuleInstalled'
    BY <1>3 DEF ReadDemoRequest, RuleInstalled, RulesCovered
  <2>6. PeersCovered'
    <3>1. /\ pc[c] \notin PeerLabels \cup {"dead"}
          /\ \A d \in Conns \ {c} : pc'[d] = pc[d]
          /\ UNCHANGED <<main, boots, nat, peers>>
      BY <1>3 DEF ReadDemoRequest
    <3> HIDE DEF TypeOK
    <3> QED BY <3>1, PeersStay
  <2>7. ContainerFollowsLabel'
    BY <1>3 DEF ReadDemoRequest, ContainerFollowsLabel
  <2> QED BY <2>1, <2>2, <2>3, <2>4, <2>5, <2>6, <2>7 DEF SessionInv
<1>4. ASSUME NEW c \in Conns, TakeAddr(c) PROVE SessionInv'
  <2> HIDE
     DEF AddrFollowsLabel, DownIsQuiet, IpsCovered, RulesCovered, RuleInstalled,
         PeersCovered, ContainerFollowsLabel
  <2>1. AddrFollowsLabel'
    <3>1. CASE AM!ProbeFree(c) /\ Goto(c, "spawn")
      BY <3>1 DEF AM!ProbeFree, AM!AddressOf, AddrFollowsLabel
    <3>2. CASE AM!ProbeUsed(c) /\ UNCHANGED pc
      BY <3>2 DEF AM!ProbeUsed, AddrFollowsLabel
    <3> QED BY <1>4, <3>1, <3>2 DEF TakeAddr
  <2>2. DownIsQuiet'
    BY <1>4 DEF TakeAddr, AM!ProbeFree, AM!ProbeUsed, AM!AddressOf, DownIsQuiet
  <2>3. IpsCovered'
    <3>0. addr[c] = 0
      BY <1>4 DEF TakeAddr, AM!ProbeFree, AM!ProbeUsed, AM!AddressOf, AddrFollowsLabel
    <3>1. addr[c] \notin ips
      BY <3>0
    <3>2. /\ UNCHANGED <<main, eth42, ips>>
          /\ \A d \in Conns \ {c} : addr'[d] = addr[d] /\ pc'[d] = pc[d]
      BY <1>4 DEF TakeAddr, AM!ProbeFree, AM!ProbeUsed, AM!AddressOf
    <3> HIDE DEF TypeOK
    <3> QED BY <3>1, <3>2, IpsStay
  <2>4. RulesCovered'
    BY <1>4
       DEF TakeAddr, AM!ProbeFree, AM!ProbeUsed, AM!AddressOf, RulesCovered,
           AddrFollowsLabel, DownIsQuiet
  <2>5. RuleInstalled'
    BY <1>4
       DEF TakeAddr, AM!ProbeFree, AM!ProbeUsed, AM!AddressOf, RuleInstalled,
           RulesCovered
  <2>6. PeersCovered'
    <3>1. /\ pc[c] \notin PeerLabels \cup {"dead"}
          /\ \A d \in Conns \ {c} : pc'[d] = pc[d]
          /\ UNCHANGED <<main, boots, nat, peers>>
      BY <1>4 DEF TakeAddr, AM!ProbeFree, AM!ProbeUsed, AM!AddressOf
    <3> HIDE DEF TypeOK
    <3> QED BY <3>1, PeersStay
  <2>7. ContainerFollowsLabel'
    BY <1>4 DEF TakeAddr, AM!ProbeFree, AM!ProbeUsed, AM!AddressOf, ContainerFollowsLabel
  <2> QED BY <2>1, <2>2, <2>3, <2>4, <2>5, <2>6, <2>7 DEF SessionInv
<1>5. ASSUME NEW c \in Conns, RefuseBusy(c) PROVE SessionInv'
  <2> HIDE
     DEF AddrFollowsLabel, DownIsQuiet, IpsCovered, RulesCovered, RuleInstalled,
         PeersCovered, ContainerFollowsLabel
  <2>1. AddrFollowsLabel'
    BY <1>5 DEF RefuseBusy, AM!ProbeLast, AddrFollowsLabel
  <2>2. DownIsQuiet'
    BY <1>5 DEF RefuseBusy, AM!ProbeLast, DownIsQuiet
  <2>3. IpsCovered'
    BY <1>5 DEF RefuseBusy, AM!ProbeLast, IpsCovered, AddrFollowsLabel
  <2>4. RulesCovered'
    BY <1>5 DEF RefuseBusy, AM!ProbeLast, RulesCovered, AddrFollowsLabel, DownIsQuiet
  <2>5. RuleInstalled'
    BY <1>5 DEF RefuseBusy, AM!ProbeLast, RuleInstalled, RulesCovered
  <2>6. PeersCovered'
    BY <1>5 DEF RefuseBusy, AM!ProbeLast, PeersCovered, RulesCovered
  <2>7. ContainerFollowsLabel'
    BY <1>5 DEF RefuseBusy, AM!ProbeLast, ContainerFollowsLabel
  <2> QED BY <2>1, <2>2, <2>3, <2>4, <2>5, <2>6, <2>7 DEF SessionInv
<1>6. ASSUME NEW c \in Conns, SpawnTracked(c) PROVE SessionInv'
  BY <1>6 DEF SpawnTracked
<1>7. ASSUME NEW c \in Conns, IpAddrAdd(c) PROVE SessionInv'
  <2> HIDE
     DEF AddrFollowsLabel, DownIsQuiet, IpsCovered, RulesCovered, RuleInstalled,
         PeersCovered, ContainerFollowsLabel
  <2>1. AddrFollowsLabel'
    BY <1>7 DEF IpAddrAdd, AddrFollowsLabel
  <2>2. DownIsQuiet'
    BY <1>7 DEF IpAddrAdd, DownIsQuiet
  <2>3. IpsCovered'
    BY <1>7 DEF IpAddrAdd, IpsCovered, AddrFollowsLabel
  <2>4. RulesCovered'
    BY <1>7 DEF IpAddrAdd, RulesCovered, AddrFollowsLabel, DownIsQuiet
  <2>5. RuleInstalled'
    BY <1>7 DEF IpAddrAdd, RuleInstalled, RulesCovered
  <2>6. PeersCovered'
    BY <1>7 DEF IpAddrAdd, PeersCovered, RulesCovered
  <2>7. ContainerFollowsLabel'
    BY <1>7 DEF IpAddrAdd, ContainerFollowsLabel
  <2> QED BY <2>1, <2>2, <2>3, <2>4, <2>5, <2>6, <2>7 DEF SessionInv
<1>8. ASSUME NEW c \in Conns, CreateContainer(c) PROVE SessionInv'
  BY <1>8 DEF CreateContainer
<1>9. ASSUME NEW c \in Conns, StartContainer(c) PROVE SessionInv'
  <2> HIDE
     DEF AddrFollowsLabel, DownIsQuiet, IpsCovered, RulesCovered, RuleInstalled,
         PeersCovered, ContainerFollowsLabel
  <2>1. AddrFollowsLabel'
    <3>1. pc[c] = "start" /\ UNCHANGED amVars
      BY <1>9 DEF StartContainer
    <3>2. PICK l \in {"inspect", "active"} : Goto(c, l) /\ (l = "inspect" => HasAddr(c))
      BY <1>9 DEF StartContainer
    <3> QED BY <3>1, <3>2 DEF AddrFollowsLabel
  <2>2. DownIsQuiet'
    BY <1>9 DEF StartContainer, DownIsQuiet
  <2>3. IpsCovered'
    <3>1. \A d \in Conns : addr[d] \in ips /\ pc[d] \notin {"spawn", "ip_add", "release"}
             => addr'[d] = addr[d] /\ pc'[d] \notin {"spawn", "ip_add", "release"}
      BY <1>9 DEF StartContainer, AddrFollowsLabel
    <3>2. UNCHANGED <<main, eth42, ips>>
      BY <1>9 DEF StartContainer
    <3> HIDE DEF TypeOK
    <3> QED BY <3>1, <3>2, IpsStay
  <2>4. RulesCovered'
    <3>0. pc[c] \notin RuleLabels \cup {"dead"}
      BY <1>9 DEF StartContainer
    <3>1. \A e \in nat : e.conn \in Conns \ {c}
      BY <3>0 DEF RulesCovered
    <3>2. \A d \in Conns \ {c} : pc'[d] = pc[d] /\ bridge'[d] = bridge[d]
      BY <1>9 DEF StartContainer
    <3>3. UNCHANGED <<main, boots, addr, nat>>
      BY <1>9 DEF StartContainer
    <3> QED BY <3>1, <3>2, <3>3 DEF RulesCovered
  <2>5. RuleInstalled'
    BY <1>9 DEF StartContainer, RuleInstalled, RulesCovered
  <2>6. PeersCovered'
    <3>1. /\ pc[c] \notin PeerLabels \cup {"dead"}
          /\ \A d \in Conns \ {c} : pc'[d] = pc[d]
          /\ UNCHANGED <<main, boots, nat, peers>>
      BY <1>9 DEF StartContainer
    <3> HIDE DEF TypeOK
    <3> QED BY <3>1, PeersStay
  <2>7. ContainerFollowsLabel'
    BY <1>9 DEF StartContainer, ContainerFollowsLabel
  <2> QED BY <2>1, <2>2, <2>3, <2>4, <2>5, <2>6, <2>7 DEF SessionInv
<1>10. ASSUME NEW c \in Conns, InspectContainer(c) PROVE SessionInv'
  <2> HIDE
     DEF AddrFollowsLabel, DownIsQuiet, IpsCovered, RulesCovered, RuleInstalled,
         PeersCovered, ContainerFollowsLabel
  <2>1. AddrFollowsLabel'
    BY <1>10 DEF InspectContainer, AddrFollowsLabel
  <2>2. DownIsQuiet'
    BY <1>10 DEF InspectContainer, DownIsQuiet
  <2>3. IpsCovered'
    BY <1>10 DEF InspectContainer, IpsCovered, AddrFollowsLabel
  <2>4. RulesCovered'
    BY <1>10 DEF InspectContainer, RulesCovered, AddrFollowsLabel, DownIsQuiet
  <2>5. RuleInstalled'
    BY <1>10 DEF InspectContainer, RuleInstalled, RulesCovered
  <2>6. PeersCovered'
    BY <1>10 DEF InspectContainer, PeersCovered, RulesCovered
  <2>7. ContainerFollowsLabel'
    BY <1>10 DEF InspectContainer, ContainerFollowsLabel
  <2> QED BY <2>1, <2>2, <2>3, <2>4, <2>5, <2>6, <2>7 DEF SessionInv
<1>11. ASSUME NEW c \in Conns, NatAdd(c) PROVE SessionInv'
  <2> HIDE
     DEF AddrFollowsLabel, DownIsQuiet, IpsCovered, RulesCovered, RuleInstalled,
         PeersCovered, ContainerFollowsLabel
  <2>1. AddrFollowsLabel'
    BY <1>11 DEF NatAdd, AddrFollowsLabel
  <2>2. DownIsQuiet'
    BY <1>11 DEF NatAdd, DownIsQuiet
  <2>3. IpsCovered'
    BY <1>11 DEF NatAdd, IpsCovered, AddrFollowsLabel
  <2>4. RulesCovered'
    BY <1>11 DEF NatAdd, RulesCovered, AddrFollowsLabel, DownIsQuiet
  <2>5. RuleInstalled'
    BY <1>11 DEF NatAdd, RuleInstalled, RulesCovered
  <2>6. PeersCovered'
    BY <1>11 DEF NatAdd, PeersCovered, RulesCovered
  <2>7. ContainerFollowsLabel'
    BY <1>11 DEF NatAdd, ContainerFollowsLabel
  <2> QED BY <2>1, <2>2, <2>3, <2>4, <2>5, <2>6, <2>7 DEF SessionInv
<1>12. ASSUME NEW c \in Conns, AddTempPeer(c) PROVE SessionInv'
  <2> HIDE
     DEF AddrFollowsLabel, DownIsQuiet, IpsCovered, RulesCovered, RuleInstalled,
         PeersCovered, ContainerFollowsLabel
  <2>1. AddrFollowsLabel'
    BY <1>12 DEF AddTempPeer, AddrFollowsLabel
  <2>2. DownIsQuiet'
    BY <1>12 DEF AddTempPeer, DownIsQuiet
  <2>3. IpsCovered'
    BY <1>12 DEF AddTempPeer, IpsCovered, AddrFollowsLabel
  <2>4. RulesCovered'
    BY <1>12 DEF AddTempPeer, RulesCovered, AddrFollowsLabel, DownIsQuiet
  <2>5. RuleInstalled'
    BY <1>12 DEF AddTempPeer, RuleInstalled, RulesCovered
  <2>6. PeersCovered'
    BY <1>12 DEF AddTempPeer, PeersCovered, RulesCovered, RuleInstalled, AddrFollowsLabel
  <2>7. ContainerFollowsLabel'
    BY <1>12 DEF AddTempPeer, ContainerFollowsLabel
  <2> QED BY <2>1, <2>2, <2>3, <2>4, <2>5, <2>6, <2>7 DEF SessionInv
<1>13. ASSUME NEW c \in Conns, SetupPanics(c) PROVE SessionInv'
  <2> HIDE
     DEF AddrFollowsLabel, DownIsQuiet, IpsCovered, RulesCovered, RuleInstalled,
         PeersCovered, ContainerFollowsLabel
  <2>1. AddrFollowsLabel'
    BY <1>13 DEF SetupPanics, AddrFollowsLabel
  <2>2. DownIsQuiet'
    BY <1>13 DEF SetupPanics, DownIsQuiet
  <2>3. IpsCovered'
    BY <1>13 DEF SetupPanics, IpsCovered
  <2>4. RulesCovered'
    BY <1>13 DEF SetupPanics, RulesCovered, AddrFollowsLabel, DownIsQuiet
  <2>5. RuleInstalled'
    BY <1>13 DEF SetupPanics, RuleInstalled
  <2>6. PeersCovered'
    BY <1>13 DEF SetupPanics, PeersCovered
  <2>7. ContainerFollowsLabel'
    BY <1>13 DEF SetupPanics, ContainerFollowsLabel
  <2> QED BY <2>1, <2>2, <2>3, <2>4, <2>5, <2>6, <2>7 DEF SessionInv
<1>14. ASSUME NEW c \in Conns, TokenCancelled(c) PROVE SessionInv'
  BY <1>14 DEF TokenCancelled, AfterSelect, AfterDemoSelect, Cancelled
<1>15. ASSUME NEW c \in Conns, ShutdownSignal(c) PROVE SessionInv'
  BY <1>15 DEF ShutdownSignal, AfterSelect, AfterDemoSelect
<1>16. ASSUME NEW c \in Conns, RemovePeer(c) PROVE SessionInv'
  BY <1>16 DEF RemovePeer
<1>17. ASSUME NEW c \in Conns, StopContainer(c) PROVE SessionInv'
  BY <1>17 DEF StopContainer, Stopped, AfterStop
<1>18. ASSUME NEW c \in Conns, NatDelete(c) PROVE SessionInv'
  BY <1>18 DEF NatDelete, AfterNatDel
<1>19. ASSUME NEW c \in Conns, IpAddrDel(c) PROVE SessionInv'
  <2> HIDE
     DEF AddrFollowsLabel, DownIsQuiet, IpsCovered, RulesCovered, RuleInstalled,
         PeersCovered, ContainerFollowsLabel
  <2>1. AddrFollowsLabel'
    BY <1>19 DEF IpAddrDel, AfterIpDel, AddrFollowsLabel
  <2>2. DownIsQuiet'
    BY <1>19 DEF IpAddrDel, AfterIpDel, DownIsQuiet
  <2>3. IpsCovered'
    BY <1>19 DEF IpAddrDel, AfterIpDel, IpsCovered, AddrFollowsLabel
  <2>4. RulesCovered'
    BY <1>19 DEF IpAddrDel, AfterIpDel, RulesCovered, AddrFollowsLabel, DownIsQuiet
  <2>5. RuleInstalled'
    BY <1>19 DEF IpAddrDel, AfterIpDel, RuleInstalled, RulesCovered
  <2>6. PeersCovered'
    BY <1>19 DEF IpAddrDel, AfterIpDel, PeersCovered, RulesCovered
  <2>7. ContainerFollowsLabel'
    BY <1>19 DEF IpAddrDel, AfterIpDel, ContainerFollowsLabel
  <2> QED BY <2>1, <2>2, <2>3, <2>4, <2>5, <2>6, <2>7 DEF SessionInv
<1>20. ASSUME NEW c \in Conns, Relinquish(c) PROVE SessionInv'
  BY <1>20 DEF Relinquish, AM!RelinquishAddr
<1>21. ASSUME NEW c \in Conns, TeardownPanics(c) PROVE SessionInv'
  BY <1>21 DEF TeardownPanics
<1>22. ASSUME NEW c \in Conns, Connect(c) PROVE SessionInv'
  BY <1>22 DEF Connect
<1>23. ASSUME NEW c \in Conns, Accept(c) PROVE SessionInv'
  BY <1>23 DEF Accept
<1>24. ASSUME NEW c \in Conns, SendOk(c) PROVE SessionInv'
  BY <1>24 DEF SendOk
<1>25. ASSUME NEW c \in Conns, TimerElapses(c) PROVE SessionInv'
  BY <1>25 DEF TimerElapses, AfterSelect, AfterDemoSelect
<1>26. ASSUME NEW c \in Conns, ContainerExits(c) PROVE SessionInv'
  BY <1>26 DEF ContainerExits
<1>27. ASSUME Boot PROVE SessionInv'
  BY <1>27 DEF Boot, DummyInterfaceCreate, InterfaceNew
<1>28. ASSUME AcceptFails PROVE SessionInv'
  BY <1>28 DEF AcceptFails
<1>29. ASSUME Signal PROVE SessionInv'
  BY <1>29 DEF Signal
<1>30. ASSUME WaitReturns PROVE SessionInv'
  BY <1>30 DEF WaitReturns
<1>31. ASSUME MainReturns PROVE SessionInv'
  <2> HIDE
     DEF AddrFollowsLabel, DownIsQuiet, IpsCovered, RulesCovered, RuleInstalled,
         PeersCovered, ContainerFollowsLabel
  <2>1. AddrFollowsLabel'
    BY <1>31 DEF MainReturns, CloseOpen, DummyInterfaceDrop, AddrFollowsLabel
  <2>2. DownIsQuiet'
    BY <1>31 DEF MainReturns, CloseOpen, DummyInterfaceDrop, DownIsQuiet
  <2>3. IpsCovered'
    BY <1>31 DEF MainReturns, CloseOpen, DummyInterfaceDrop, IpsCovered, AddrFollowsLabel
  <2>4. RulesCovered'
    BY <1>31
       DEF MainReturns, CloseOpen, DummyInterfaceDrop, RulesCovered, AddrFollowsLabel,
           DownIsQuiet
  <2>5. RuleInstalled'
    BY <1>31 DEF MainReturns, CloseOpen, DummyInterfaceDrop, RuleInstalled, RulesCovered
  <2>6. PeersCovered'
    BY <1>31 DEF MainReturns, CloseOpen, DummyInterfaceDrop, PeersCovered, RulesCovered
  <2>7. ContainerFollowsLabel'
    BY <1>31 DEF MainReturns, CloseOpen, DummyInterfaceDrop, ContainerFollowsLabel
  <2> QED BY <2>1, <2>2, <2>3, <2>4, <2>5, <2>6, <2>7 DEF SessionInv
<1>32. ASSUME RuntimeDropped PROVE SessionInv'
  BY <1>32 DEF RuntimeDropped, CloseOpen, InterfaceDrop, AM!Discard
<1>33. ASSUME Crash PROVE SessionInv'
  BY <1>33 DEF Crash, CloseOpen, AM!Discard
<1>34. ASSUME UNCHANGED vars PROVE SessionInv'
  BY <1>34 DEF vars
<1>35. ASSUME NEW c \in Conns, WaitFails(c) PROVE SessionInv'
  BY <1>35 DEF WaitFails, AfterSelect, AfterDemoSelect
<1> QED
  BY <1>1, <1>2, <1>3, <1>4, <1>5, <1>6, <1>7, <1>8, <1>9, <1>10, <1>11, <1>12, <1>13,
     <1>14, <1>15, <1>16, <1>17, <1>18, <1>19, <1>20, <1>21, <1>22, <1>23, <1>24,
     <1>25, <1>26, <1>27, <1>28, <1>29, <1>30, <1>31, <1>32, <1>33, <1>34, <1>35
     DEF Next, TaskStep, MainStep

\* A request is answered in the step that decides it, and its answer is not taken
\* back.
LEMMA StepReply == IInv /\ AM!IInv' /\ TypeOK' /\ [Next]_vars => ReplyFollowsLabel'
<1> SUFFICES ASSUME IInv, AM!IInv', TypeOK', [Next]_vars PROVE ReplyFollowsLabel'
  OBVIOUS
<1> USE DEF IInv, TypeOK, ReplyFollowsLabel, Goto, Answer, Handler, Tracked, Setup, Teardown, Ended, Replies,
           amVars, worldVars
<1>1. ASSUME NEW c \in Conns, RefuseRequest(c) PROVE ReplyFollowsLabel'
  BY <1>1 DEF RefuseRequest
<1>2. ASSUME NEW c \in Conns, ReadGuestRequest(c) PROVE ReplyFollowsLabel'
  BY <1>2 DEF ReadGuestRequest
<1>3. ASSUME NEW c \in Conns, ReadDemoRequest(c) PROVE ReplyFollowsLabel'
  BY <1>3 DEF ReadDemoRequest
<1>4. ASSUME NEW c \in Conns, TakeAddr(c) PROVE ReplyFollowsLabel'
  BY <1>4 DEF TakeAddr
<1>5. ASSUME NEW c \in Conns, RefuseBusy(c) PROVE ReplyFollowsLabel'
  BY <1>5 DEF RefuseBusy
<1>6. ASSUME NEW c \in Conns, SpawnTracked(c) PROVE ReplyFollowsLabel'
  BY <1>6 DEF SpawnTracked
<1>7. ASSUME NEW c \in Conns, IpAddrAdd(c) PROVE ReplyFollowsLabel'
  BY <1>7 DEF IpAddrAdd
<1>8. ASSUME NEW c \in Conns, CreateContainer(c) PROVE ReplyFollowsLabel'
  BY <1>8 DEF CreateContainer
<1>9. ASSUME NEW c \in Conns, StartContainer(c) PROVE ReplyFollowsLabel'
  BY <1>9 DEF StartContainer
<1>10. ASSUME NEW c \in Conns, InspectContainer(c) PROVE ReplyFollowsLabel'
  BY <1>10 DEF InspectContainer
<1>11. ASSUME NEW c \in Conns, NatAdd(c) PROVE ReplyFollowsLabel'
  BY <1>11 DEF NatAdd
<1>12. ASSUME NEW c \in Conns, AddTempPeer(c) PROVE ReplyFollowsLabel'
  BY <1>12 DEF AddTempPeer
<1>13. ASSUME NEW c \in Conns, SetupPanics(c) PROVE ReplyFollowsLabel'
  BY <1>13 DEF SetupPanics
<1>14. ASSUME NEW c \in Conns, TokenCancelled(c) PROVE ReplyFollowsLabel'
  BY <1>14 DEF TokenCancelled, AfterSelect, AfterDemoSelect
<1>15. ASSUME NEW c \in Conns, ShutdownSignal(c) PROVE ReplyFollowsLabel'
  BY <1>15 DEF ShutdownSignal, AfterSelect, AfterDemoSelect
<1>16. ASSUME NEW c \in Conns, RemovePeer(c) PROVE ReplyFollowsLabel'
  BY <1>16 DEF RemovePeer
<1>17. ASSUME NEW c \in Conns, StopContainer(c) PROVE ReplyFollowsLabel'
  BY <1>17 DEF StopContainer, AfterStop
<1>18. ASSUME NEW c \in Conns, NatDelete(c) PROVE ReplyFollowsLabel'
  BY <1>18 DEF NatDelete, AfterNatDel
<1>19. ASSUME NEW c \in Conns, IpAddrDel(c) PROVE ReplyFollowsLabel'
  BY <1>19 DEF IpAddrDel, AfterIpDel
<1>20. ASSUME NEW c \in Conns, Relinquish(c) PROVE ReplyFollowsLabel'
  BY <1>20 DEF Relinquish
<1>21. ASSUME NEW c \in Conns, TeardownPanics(c) PROVE ReplyFollowsLabel'
  BY <1>21 DEF TeardownPanics
<1>22. ASSUME NEW c \in Conns, Connect(c) PROVE ReplyFollowsLabel'
  BY <1>22 DEF Connect
<1>23. ASSUME NEW c \in Conns, Accept(c) PROVE ReplyFollowsLabel'
  BY <1>23 DEF Accept
<1>24. ASSUME NEW c \in Conns, SendOk(c) PROVE ReplyFollowsLabel'
  BY <1>24 DEF SendOk
<1>25. ASSUME NEW c \in Conns, TimerElapses(c) PROVE ReplyFollowsLabel'
  BY <1>25 DEF TimerElapses, AfterSelect, AfterDemoSelect
<1>26. ASSUME NEW c \in Conns, WaitFails(c) PROVE ReplyFollowsLabel'
  BY <1>26 DEF WaitFails, AfterSelect, AfterDemoSelect
<1>27. ASSUME NEW c \in Conns, ContainerExits(c) PROVE ReplyFollowsLabel'
  BY <1>27 DEF ContainerExits
<1>28. ASSUME Boot PROVE ReplyFollowsLabel'
  BY <1>28 DEF Boot
<1>29. ASSUME AcceptFails PROVE ReplyFollowsLabel'
  BY <1>29 DEF AcceptFails
<1>30. ASSUME Signal PROVE ReplyFollowsLabel'
  BY <1>30 DEF Signal
<1>31. ASSUME WaitReturns PROVE ReplyFollowsLabel'
  BY <1>31 DEF WaitReturns
<1>32. ASSUME MainReturns PROVE ReplyFollowsLabel'
  BY <1>32 DEF MainReturns, CloseOpen
<1>33. ASSUME RuntimeDropped PROVE ReplyFollowsLabel'
  BY <1>33 DEF RuntimeDropped, CloseOpen
<1>34. ASSUME Crash PROVE ReplyFollowsLabel'
  BY <1>34 DEF Crash, CloseOpen
<1>35. ASSUME UNCHANGED vars PROVE ReplyFollowsLabel'
  BY <1>35 DEF vars
<1> QED
  BY <1>1, <1>2, <1>3, <1>4, <1>5, <1>6, <1>7, <1>8, <1>9, <1>10, <1>11, <1>12, <1>13,
     <1>14, <1>15, <1>16, <1>17, <1>18, <1>19, <1>20, <1>21, <1>22, <1>23, <1>24, <1>25,
     <1>26, <1>27, <1>28, <1>29, <1>30, <1>31, <1>32, <1>33, <1>34, <1>35 DEF Next,
     TaskStep, MainStep

\* A guest has its address from the end of take_next_addr until the last step of
\* its cleanup, and a demo never has one.
LEMMA StepMode == IInv /\ AM!IInv' /\ TypeOK' /\ [Next]_vars => ModeFollowsLabel'
<1> SUFFICES ASSUME IInv, AM!IInv', TypeOK', [Next]_vars PROVE ModeFollowsLabel'
  OBVIOUS
<1> USE ChalldAssumption
    DEF IInv, TypeOK, ModeFollowsLabel, SessionInv, AddrFollowsLabel, DownIsQuiet, HasAddr, Goto,
        AM!TypeOK, AM!IInv, Handler, Tracked, Setup, Teardown, Ended, amVars, worldVars
<1>1. ASSUME NEW c \in Conns, RefuseRequest(c) PROVE ModeFollowsLabel'
  BY <1>1 DEF RefuseRequest
<1>2. ASSUME NEW c \in Conns, ReadGuestRequest(c) PROVE ModeFollowsLabel'
  BY <1>2 DEF ReadGuestRequest, AM!TakeNextAddr
<1>3. ASSUME NEW c \in Conns, ReadDemoRequest(c) PROVE ModeFollowsLabel'
  BY <1>3 DEF ReadDemoRequest
<1>4. ASSUME NEW c \in Conns, TakeAddr(c) PROVE ModeFollowsLabel'
  <2>1. CASE AM!ProbeFree(c) /\ Goto(c, "spawn")
    <3>1. pc[c] = "take" /\ UNCHANGED <<main, boots, mode>>
      BY <1>4 DEF TakeAddr
    <3>2. mode[c] = "guest"
      BY <3>1
    <3> QED BY <2>1, <3>1, <3>2 DEF AM!ProbeFree, AM!AddressOf
  <2>2. CASE AM!ProbeUsed(c) /\ UNCHANGED pc
    BY <1>4, <2>2 DEF TakeAddr, AM!ProbeUsed
  <2> QED BY <1>4, <2>1, <2>2 DEF TakeAddr
<1>5. ASSUME NEW c \in Conns, RefuseBusy(c) PROVE ModeFollowsLabel'
  BY <1>5 DEF RefuseBusy, AM!ProbeLast
<1>6. ASSUME NEW c \in Conns, SpawnTracked(c) PROVE ModeFollowsLabel'
  BY <1>6 DEF SpawnTracked
<1>7. ASSUME NEW c \in Conns, IpAddrAdd(c) PROVE ModeFollowsLabel'
  BY <1>7 DEF IpAddrAdd
<1>8. ASSUME NEW c \in Conns, CreateContainer(c) PROVE ModeFollowsLabel'
  BY <1>8 DEF CreateContainer
<1>9. ASSUME NEW c \in Conns, StartContainer(c) PROVE ModeFollowsLabel'
  BY <1>9 DEF StartContainer
<1>10. ASSUME NEW c \in Conns, InspectContainer(c) PROVE ModeFollowsLabel'
  BY <1>10 DEF InspectContainer
<1>11. ASSUME NEW c \in Conns, NatAdd(c) PROVE ModeFollowsLabel'
  BY <1>11 DEF NatAdd
<1>12. ASSUME NEW c \in Conns, AddTempPeer(c) PROVE ModeFollowsLabel'
  BY <1>12 DEF AddTempPeer
<1>13. ASSUME NEW c \in Conns, SetupPanics(c) PROVE ModeFollowsLabel'
  BY <1>13 DEF SetupPanics
<1>14. ASSUME NEW c \in Conns, TokenCancelled(c) PROVE ModeFollowsLabel'
  BY <1>14 DEF TokenCancelled, AfterSelect, AfterDemoSelect
<1>15. ASSUME NEW c \in Conns, ShutdownSignal(c) PROVE ModeFollowsLabel'
  BY <1>15 DEF ShutdownSignal, AfterSelect, AfterDemoSelect
<1>16. ASSUME NEW c \in Conns, RemovePeer(c) PROVE ModeFollowsLabel'
  BY <1>16 DEF RemovePeer
<1>17. ASSUME NEW c \in Conns, StopContainer(c) PROVE ModeFollowsLabel'
  BY <1>17 DEF StopContainer, AfterStop
<1>18. ASSUME NEW c \in Conns, NatDelete(c) PROVE ModeFollowsLabel'
  BY <1>18 DEF NatDelete, AfterNatDel
<1>19. ASSUME NEW c \in Conns, IpAddrDel(c) PROVE ModeFollowsLabel'
  BY <1>19 DEF IpAddrDel, AfterIpDel
<1>20. ASSUME NEW c \in Conns, Relinquish(c) PROVE ModeFollowsLabel'
  BY <1>20 DEF Relinquish, AM!RelinquishAddr
<1>21. ASSUME NEW c \in Conns, TeardownPanics(c) PROVE ModeFollowsLabel'
  BY <1>21 DEF TeardownPanics
<1>22. ASSUME NEW c \in Conns, Connect(c) PROVE ModeFollowsLabel'
  BY <1>22 DEF Connect
<1>23. ASSUME NEW c \in Conns, Accept(c) PROVE ModeFollowsLabel'
  BY <1>23 DEF Accept
<1>24. ASSUME NEW c \in Conns, SendOk(c) PROVE ModeFollowsLabel'
  BY <1>24 DEF SendOk
<1>25. ASSUME NEW c \in Conns, TimerElapses(c) PROVE ModeFollowsLabel'
  BY <1>25 DEF TimerElapses, AfterSelect, AfterDemoSelect
<1>26. ASSUME NEW c \in Conns, WaitFails(c) PROVE ModeFollowsLabel'
  BY <1>26 DEF WaitFails, AfterSelect, AfterDemoSelect
<1>27. ASSUME NEW c \in Conns, ContainerExits(c) PROVE ModeFollowsLabel'
  BY <1>27 DEF ContainerExits
<1>28. ASSUME Boot PROVE ModeFollowsLabel'
  BY <1>28 DEF Boot
<1>29. ASSUME AcceptFails PROVE ModeFollowsLabel'
  BY <1>29 DEF AcceptFails
<1>30. ASSUME Signal PROVE ModeFollowsLabel'
  BY <1>30 DEF Signal
<1>31. ASSUME WaitReturns PROVE ModeFollowsLabel'
  BY <1>31 DEF WaitReturns
<1>32. ASSUME MainReturns PROVE ModeFollowsLabel'
  BY <1>32 DEF MainReturns
<1>33. ASSUME RuntimeDropped PROVE ModeFollowsLabel'
  BY <1>33 DEF RuntimeDropped, CloseOpen, AM!Discard
<1>34. ASSUME Crash PROVE ModeFollowsLabel'
  BY <1>34 DEF Crash, CloseOpen, AM!Discard
<1>35. ASSUME UNCHANGED vars PROVE ModeFollowsLabel'
  BY <1>35 DEF vars
<1> QED
  BY <1>1, <1>2, <1>3, <1>4, <1>5, <1>6, <1>7, <1>8, <1>9, <1>10, <1>11, <1>12, <1>13,
     <1>14, <1>15, <1>16, <1>17, <1>18, <1>19, <1>20, <1>21, <1>22, <1>23, <1>24, <1>25,
     <1>26, <1>27, <1>28, <1>29, <1>30, <1>31, <1>32, <1>33, <1>34, <1>35 DEF Next,
     TaskStep, MainStep

\* An address on eth42 and a peer are removed only by the session that put them there,
\* because no two connections hold the same address.
LEMMA StepNetwork == IInv /\ AM!IInv' /\ TypeOK' /\ [Next]_vars => NetworkInstalled'
<1> SUFFICES ASSUME IInv, AM!IInv', TypeOK', [Next]_vars PROVE NetworkInstalled'
  OBVIOUS
<1> USE DEF IInv, TypeOK, NetworkInstalled, SessionInv, AddrFollowsLabel, DownIsQuiet, AM!IInv, AM!TypeOK,
            AM!AddressExclusive, HasAddr, Entry, Goto, Handler, Tracked, Setup, Teardown,
            PeerLabels, amVars, worldVars
<1>1. ASSUME NEW c \in Conns, RefuseRequest(c) PROVE NetworkInstalled'
  BY <1>1 DEF RefuseRequest
<1>2. ASSUME NEW c \in Conns, ReadGuestRequest(c) PROVE NetworkInstalled'
  BY <1>2 DEF ReadGuestRequest, AM!TakeNextAddr
<1>3. ASSUME NEW c \in Conns, ReadDemoRequest(c) PROVE NetworkInstalled'
  BY <1>3 DEF ReadDemoRequest
<1>4. ASSUME NEW c \in Conns, TakeAddr(c) PROVE NetworkInstalled'
  BY <1>4 DEF TakeAddr, AM!ProbeFree, AM!ProbeUsed, AM!AddressOf
<1>5. ASSUME NEW c \in Conns, RefuseBusy(c) PROVE NetworkInstalled'
  BY <1>5 DEF RefuseBusy, AM!ProbeLast
<1>6. ASSUME NEW c \in Conns, SpawnTracked(c) PROVE NetworkInstalled'
  BY <1>6 DEF SpawnTracked
<1>7. ASSUME NEW c \in Conns, IpAddrAdd(c) PROVE NetworkInstalled'
  BY <1>7 DEF IpAddrAdd
<1>8. ASSUME NEW c \in Conns, CreateContainer(c) PROVE NetworkInstalled'
  BY <1>8 DEF CreateContainer
<1>9. ASSUME NEW c \in Conns, StartContainer(c) PROVE NetworkInstalled'
  <2>1. pc[c] = "start" /\ UNCHANGED <<main, boots, addr, ips, peers>>
    BY <1>9 DEF StartContainer
  <2>2. \A d \in Conns \ {c} : pc'[d] = pc[d] /\ bridge'[d] = bridge[d]
    BY <1>9 DEF StartContainer
  <2>3. HasAddr(c) => pc'[c] = "inspect"
    BY <1>9 DEF StartContainer
  <2> QED BY <2>1, <2>2, <2>3
<1>10. ASSUME NEW c \in Conns, InspectContainer(c) PROVE NetworkInstalled'
  BY <1>10 DEF InspectContainer
<1>11. ASSUME NEW c \in Conns, NatAdd(c) PROVE NetworkInstalled'
  BY <1>11 DEF NatAdd
<1>12. ASSUME NEW c \in Conns, AddTempPeer(c) PROVE NetworkInstalled'
  BY <1>12 DEF AddTempPeer
<1>13. ASSUME NEW c \in Conns, SetupPanics(c) PROVE NetworkInstalled'
  BY <1>13 DEF SetupPanics
<1>14. ASSUME NEW c \in Conns, TokenCancelled(c) PROVE NetworkInstalled'
  BY <1>14 DEF TokenCancelled, AfterSelect, AfterDemoSelect
<1>15. ASSUME NEW c \in Conns, ShutdownSignal(c) PROVE NetworkInstalled'
  BY <1>15 DEF ShutdownSignal, AfterSelect, AfterDemoSelect
<1>16. ASSUME NEW c \in Conns, RemovePeer(c) PROVE NetworkInstalled'
  BY <1>16 DEF RemovePeer
<1>17. ASSUME NEW c \in Conns, StopContainer(c) PROVE NetworkInstalled'
  BY <1>17 DEF StopContainer, AfterStop
<1>18. ASSUME NEW c \in Conns, NatDelete(c) PROVE NetworkInstalled'
  BY <1>18 DEF NatDelete, AfterNatDel
<1>19. ASSUME NEW c \in Conns, IpAddrDel(c) PROVE NetworkInstalled'
  BY <1>19 DEF IpAddrDel, AfterIpDel
<1>20. ASSUME NEW c \in Conns, Relinquish(c) PROVE NetworkInstalled'
  BY <1>20 DEF Relinquish, AM!RelinquishAddr
<1>21. ASSUME NEW c \in Conns, TeardownPanics(c) PROVE NetworkInstalled'
  BY <1>21 DEF TeardownPanics
<1>22. ASSUME NEW c \in Conns, Connect(c) PROVE NetworkInstalled'
  BY <1>22 DEF Connect
<1>23. ASSUME NEW c \in Conns, Accept(c) PROVE NetworkInstalled'
  BY <1>23 DEF Accept
<1>24. ASSUME NEW c \in Conns, SendOk(c) PROVE NetworkInstalled'
  BY <1>24 DEF SendOk
<1>25. ASSUME NEW c \in Conns, TimerElapses(c) PROVE NetworkInstalled'
  BY <1>25 DEF TimerElapses, AfterSelect, AfterDemoSelect
<1>26. ASSUME NEW c \in Conns, WaitFails(c) PROVE NetworkInstalled'
  BY <1>26 DEF WaitFails, AfterSelect, AfterDemoSelect
<1>27. ASSUME NEW c \in Conns, ContainerExits(c) PROVE NetworkInstalled'
  BY <1>27 DEF ContainerExits
<1>28. ASSUME Boot PROVE NetworkInstalled'
  BY <1>28 DEF Boot, InterfaceNew
<1>29. ASSUME AcceptFails PROVE NetworkInstalled'
  BY <1>29 DEF AcceptFails
<1>30. ASSUME Signal PROVE NetworkInstalled'
  BY <1>30 DEF Signal
<1>31. ASSUME WaitReturns PROVE NetworkInstalled'
  BY <1>31 DEF WaitReturns
<1>32. ASSUME MainReturns PROVE NetworkInstalled'
  BY <1>32 DEF MainReturns
<1>33. ASSUME RuntimeDropped PROVE NetworkInstalled'
  BY <1>33 DEF RuntimeDropped, AM!Discard
<1>34. ASSUME Crash PROVE NetworkInstalled'
  BY <1>34 DEF Crash, AM!Discard
<1>35. ASSUME UNCHANGED vars PROVE NetworkInstalled'
  BY <1>35 DEF vars
<1> QED
  BY <1>1, <1>2, <1>3, <1>4, <1>5, <1>6, <1>7, <1>8, <1>9, <1>10, <1>11, <1>12, <1>13,
     <1>14, <1>15, <1>16, <1>17, <1>18, <1>19, <1>20, <1>21, <1>22, <1>23, <1>24, <1>25,
     <1>26, <1>27, <1>28, <1>29, <1>30, <1>31, <1>32, <1>33, <1>34, <1>35
     DEF Next, TaskStep, MainStep

\* Docker gives a container an address that no running one has, and a connection has
\* no rule when its container is started.
LEMMA StepBridge == IInv /\ TypeOK' /\ [Next]_vars => BridgeCovered'
<1> SUFFICES ASSUME IInv, TypeOK', [Next]_vars PROVE BridgeCovered'
  OBVIOUS
<1> USE DEF IInv, TypeOK, BridgeCovered, SessionInv, RulesCovered, Entries, Entry, Goto, Handler, Tracked,
            Setup, Teardown, RuleLabels, amVars, worldVars
<1>1. ASSUME NEW c \in Conns, RefuseRequest(c) PROVE BridgeCovered'
  BY <1>1 DEF RefuseRequest
<1>2. ASSUME NEW c \in Conns, ReadGuestRequest(c) PROVE BridgeCovered'
  BY <1>2 DEF ReadGuestRequest
<1>3. ASSUME NEW c \in Conns, ReadDemoRequest(c) PROVE BridgeCovered'
  BY <1>3 DEF ReadDemoRequest
<1>4. ASSUME NEW c \in Conns, TakeAddr(c) PROVE BridgeCovered'
  BY <1>4 DEF TakeAddr
<1>5. ASSUME NEW c \in Conns, RefuseBusy(c) PROVE BridgeCovered'
  BY <1>5 DEF RefuseBusy
<1>6. ASSUME NEW c \in Conns, SpawnTracked(c) PROVE BridgeCovered'
  BY <1>6 DEF SpawnTracked
<1>7. ASSUME NEW c \in Conns, IpAddrAdd(c) PROVE BridgeCovered'
  BY <1>7 DEF IpAddrAdd
<1>8. ASSUME NEW c \in Conns, CreateContainer(c) PROVE BridgeCovered'
  BY <1>8 DEF CreateContainer
<1>9. ASSUME NEW c \in Conns, StartContainer(c) PROVE BridgeCovered'
  BY <1>9 DEF StartContainer, FreeBridgeIPs
<1>10. ASSUME NEW c \in Conns, InspectContainer(c) PROVE BridgeCovered'
  BY <1>10 DEF InspectContainer
<1>11. ASSUME NEW c \in Conns, NatAdd(c) PROVE BridgeCovered'
  BY <1>11 DEF NatAdd
<1>12. ASSUME NEW c \in Conns, AddTempPeer(c) PROVE BridgeCovered'
  BY <1>12 DEF AddTempPeer
<1>13. ASSUME NEW c \in Conns, SetupPanics(c) PROVE BridgeCovered'
  BY <1>13 DEF SetupPanics
<1>14. ASSUME NEW c \in Conns, TokenCancelled(c) PROVE BridgeCovered'
  BY <1>14 DEF TokenCancelled, AfterSelect, AfterDemoSelect
<1>15. ASSUME NEW c \in Conns, ShutdownSignal(c) PROVE BridgeCovered'
  BY <1>15 DEF ShutdownSignal, AfterSelect, AfterDemoSelect
<1>16. ASSUME NEW c \in Conns, RemovePeer(c) PROVE BridgeCovered'
  BY <1>16 DEF RemovePeer
<1>17. ASSUME NEW c \in Conns, StopContainer(c) PROVE BridgeCovered'
  BY <1>17 DEF StopContainer, AfterStop, Stopped
<1>18. ASSUME NEW c \in Conns, NatDelete(c) PROVE BridgeCovered'
  BY <1>18 DEF NatDelete, AfterNatDel
<1>19. ASSUME NEW c \in Conns, IpAddrDel(c) PROVE BridgeCovered'
  BY <1>19 DEF IpAddrDel, AfterIpDel
<1>20. ASSUME NEW c \in Conns, Relinquish(c) PROVE BridgeCovered'
  BY <1>20 DEF Relinquish
<1>21. ASSUME NEW c \in Conns, TeardownPanics(c) PROVE BridgeCovered'
  BY <1>21 DEF TeardownPanics
<1>22. ASSUME NEW c \in Conns, Connect(c) PROVE BridgeCovered'
  BY <1>22 DEF Connect
<1>23. ASSUME NEW c \in Conns, Accept(c) PROVE BridgeCovered'
  BY <1>23 DEF Accept
<1>24. ASSUME NEW c \in Conns, SendOk(c) PROVE BridgeCovered'
  BY <1>24 DEF SendOk
<1>25. ASSUME NEW c \in Conns, TimerElapses(c) PROVE BridgeCovered'
  BY <1>25 DEF TimerElapses, AfterSelect, AfterDemoSelect
<1>26. ASSUME NEW c \in Conns, WaitFails(c) PROVE BridgeCovered'
  BY <1>26 DEF WaitFails, AfterSelect, AfterDemoSelect
<1>27. ASSUME NEW c \in Conns, ContainerExits(c) PROVE BridgeCovered'
  BY <1>27 DEF ContainerExits
<1>28. ASSUME Boot PROVE BridgeCovered'
  BY <1>28 DEF Boot
<1>29. ASSUME AcceptFails PROVE BridgeCovered'
  BY <1>29 DEF AcceptFails
<1>30. ASSUME Signal PROVE BridgeCovered'
  BY <1>30 DEF Signal
<1>31. ASSUME WaitReturns PROVE BridgeCovered'
  BY <1>31 DEF WaitReturns
<1>32. ASSUME MainReturns PROVE BridgeCovered'
  BY <1>32 DEF MainReturns
<1>33. ASSUME RuntimeDropped PROVE BridgeCovered'
  BY <1>33 DEF RuntimeDropped
<1>34. ASSUME Crash PROVE BridgeCovered'
  BY <1>34 DEF Crash
<1>35. ASSUME UNCHANGED vars PROVE BridgeCovered'
  BY <1>35 DEF vars
<1> QED
  BY <1>1, <1>2, <1>3, <1>4, <1>5, <1>6, <1>7, <1>8, <1>9, <1>10, <1>11, <1>12, <1>13,
     <1>14, <1>15, <1>16, <1>17, <1>18, <1>19, <1>20, <1>21, <1>22, <1>23, <1>24, <1>25,
     <1>26, <1>27, <1>28, <1>29, <1>30, <1>31, <1>32, <1>33, <1>34, <1>35
     DEF Next, TaskStep, MainStep

\* The daemon starts in the inductive invariant.
LEMMA InitIInv == Init => IInv
<1> SUFFICES ASSUME Init PROVE IInv
  OBVIOUS
<1> USE ChalldAssumption DEF Init, AM!Init, AM!Addrs
<1>1. AM!IInv
  BY DEF AM!IInv, AM!TypeOK, AM!AddressExclusive, AM!MarkedIffHeld, AM!HoldsOutsideCall
<1>2. AM!TypeOK
  BY <1>1 DEF AM!IInv
<1>3. /\ main \in {"down", "serving", "stalled", "draining", "exiting", "returned"}
      /\ boots \in 0..MaxBoots
      /\ ips \subseteq Addrs /\ nat \subseteq Entries /\ peers \subseteq Entries
  OBVIOUS
<1>4. TypeOK
  BY <1>2, <1>3 DEF TypeOK, Replies
<1>5. SessionInv
  BY DEF SessionInv, AddrFollowsLabel, DownIsQuiet, IpsCovered, RulesCovered, RuleInstalled,
         PeersCovered, ContainerFollowsLabel, HasAddr, Handler, Tracked, Setup, Teardown,
         RuleLabels
<1>6. ReplyFollowsLabel /\ ModeFollowsLabel
  BY DEF ReplyFollowsLabel, ModeFollowsLabel, HasAddr, Tracked, Setup, Teardown
<1>7. NetworkInstalled /\ BridgeCovered
  BY DEF NetworkInstalled, BridgeCovered, HasAddr, Tracked, Setup, Teardown
<1> QED BY <1>1, <1>4, <1>5, <1>6, <1>7 DEF IInv

\* The daemon keeps the inductive invariant.
THEOREM SpecIInv == Spec => []IInv
<1>1. IInv /\ [Next]_vars => IInv'
  <2> SUFFICES ASSUME IInv, [Next]_vars PROVE IInv'
    OBVIOUS
  <2>1. AM!IInv'
    BY UsesTable, StepTable DEF IInv
  <2>2. AM!TypeOK'
    BY <2>1 DEF AM!IInv
  <2>3. TypeOK'
    BY <2>2, StepTypes
  <2>4. SessionInv'
    BY <2>1, <2>3, StepSession
  <2>5. ReplyFollowsLabel' /\ ModeFollowsLabel'
    BY <2>1, <2>3, StepReply, StepMode
  <2>6. NetworkInstalled' /\ BridgeCovered'
    BY <2>1, <2>3, StepNetwork, StepBridge
  <2> QED BY <2>1, <2>3, <2>4, <2>5, <2>6 DEF IInv
<1> QED BY InitIInv, <1>1, PTL DEF Spec
-----------------------------------------------------------------------------
\* Every variable of the daemon stays in its range.
THEOREM SpecTypeOK == Spec => []TypeOK
<1>1. IInv => TypeOK
  BY DEF IInv
<1> QED BY SpecIInv, <1>1, PTL

\* An address is relinquished only after the DNAT rule, the peer and the address
\* on eth42 that belong to it are gone, whatever fails and however the sessions,
\* the shutdown and restarts interleave.
THEOREM SpecLeaseCoversNetwork == Spec => []LeaseCoversNetwork
<1>1. IInv => LeaseCoversNetwork
  BY DEF IInv, SessionInv, LeaseCoversNetwork, IpsCovered, RulesCovered, PeersCovered
<1> QED BY SpecIInv, <1>1, PTL

\* A guest's key is accepted only while its rule is installed, no other rule of the
\* same process leads it, and while the guest's container runs the rule leads to that
\* container, although Docker reuses the addresses of containers that are gone.
THEOREM SpecPeerReachesOwnContainer == Spec => []PeerReachesOwnContainer
<1>1. IInv => PeerReachesOwnContainer
  <2> SUFFICES ASSUME IInv, main # "down", NEW p \in peers
               PROVE  /\ p \in nat
                      /\ \A e \in nat : e.boot = boots /\ e.addr = p.addr => e = p
                      /\ ctr[p.conn] = "running" =>
                            {d \in Conns : ctr[d] = "running" /\ bridge[d] = p.to} = {p.conn}
    BY DEF PeerReachesOwnContainer
  <2>1. p \in nat /\ p.boot = boots
    BY DEF IInv, SessionInv, PeersCovered
  <2>2. \A e \in nat : e \in Entries /\ e.conn \in Conns /\ e.addr \in Addrs
    BY DEF IInv, TypeOK, Entries
  <2>3. \A e \in nat : e.boot = boots => addr[e.conn] = e.addr
    BY DEF IInv, SessionInv, RulesCovered
  <2>4. \A e \in nat : e.addr # 0
    BY <2>2, ChalldAssumption DEF Addrs, AM!Addrs
  <2>5. \A e \in nat : e.to = bridge[e.conn]
    BY DEF IInv, BridgeCovered
  <2>6. \A e \in nat : e.boot = boots /\ e.addr = p.addr => e.conn = p.conn
    BY <2>1, <2>2, <2>3, <2>4 DEF IInv, AM!IInv, AM!AddressExclusive
  <2>7. \A e \in nat : e.boot = boots /\ e.addr = p.addr => e = p
    BY <2>1, <2>2, <2>5, <2>6 DEF Entries
  <2>8. ASSUME ctr[p.conn] = "running"
        PROVE  {d \in Conns : ctr[d] = "running" /\ bridge[d] = p.to} = {p.conn}
    BY <2>1, <2>2, <2>5, <2>8 DEF IInv, BridgeCovered
  <2> QED BY <2>1, <2>7, <2>8
<1> QED BY SpecIInv, <1>1, PTL

\* A guest's slot, address on eth42, rule and peer stay until its own session's end
\* removes them, for every number of other sessions and whatever fails in them.
THEOREM SpecSessionIntact == Spec => []SessionIntact
<1>1. IInv => SessionIntact
  <2> SUFFICES ASSUME IInv, NEW c \in Conns, HasAddr(c)
               PROVE  /\ addr[c] \in Addrs /\ used_addresses[addr[c]]
                      /\ pc[c] \in Tracked \ {"ip_add", "release"} /\ main # "returned"
                            => addr[c] \in ips
                      /\ pc[c] \in {"peer_add", "active", "peer_del", "stop", "nat_del"}
                            => Entry(c) \in nat
                      /\ pc[c] \in {"active", "peer_del"} => Entry(c) \in peers
    BY DEF SessionIntact
  <2>1. addr[c] \in Addrs
    BY ChalldAssumption DEF IInv, AM!IInv, AM!TypeOK, AM!Addrs, Addrs, HasAddr
  <2>2. used_addresses[addr[c]]
    BY <2>1 DEF IInv, AM!IInv, AM!MarkedIffHeld, Addrs
  <2>3. pc[c] \in {"peer_add", "active", "peer_del", "stop", "nat_del"} => Entry(c) \in nat
    BY DEF IInv, SessionInv, RuleInstalled, RuleLabels, Tracked, Setup, Teardown
  <2>4. /\ pc[c] \in Tracked \ {"ip_add", "release"} /\ main # "returned" => addr[c] \in ips
        /\ pc[c] \in {"active", "peer_del"} => Entry(c) \in peers
    BY DEF IInv, NetworkInstalled, PeerLabels, Tracked, Setup, Teardown
  <2> QED BY <2>1, <2>2, <2>3, <2>4
<1> QED BY SpecIInv, <1>1, PTL

\* The assertion on `ip addr add` in Container::create never fails because the
\* address is still on eth42 from an earlier session.
THEOREM SpecAddressIsFresh == Spec => []AddressIsFresh
<1>1. IInv => AddressIsFresh
  <2> SUFFICES ASSUME IInv, NEW c \in Conns, pc[c] = "ip_add", addr[c] \in ips
               PROVE  FALSE
    BY DEF AddressIsFresh
  <2>1. main # "down" /\ addr[c] # 0
    BY DEF IInv, SessionInv, DownIsQuiet, AddrFollowsLabel, HasAddr, Tracked, Setup,
           Teardown
  <2>2. PICK d \in Conns : addr[d] = addr[c] /\ pc[d] # "ip_add"
    BY <2>1 DEF IInv, SessionInv, IpsCovered
  <2> QED BY <2>1, <2>2 DEF IInv, AM!IInv, AM!AddressExclusive
<1> QED BY SpecIInv, <1>1, PTL

\* A connection that is over (or not begun) has left nothing behind: no address,
\* no rule, no peer and, if Docker can stop containers, no running container.
THEOREM SpecNothingForgotten == Spec => []NothingForgotten
<1>1. IInv => NothingForgotten
  <2> SUFFICES ASSUME IInv, NEW c \in Conns,
                      pc[c] \in {"idle", "backlog", "reading", "refused", "done"}
               PROVE  /\ addr[c] = 0
                      /\ ctr[c] = "running" => "stop" \in Faults
                      /\ \A e \in nat \cup peers : e.conn # c
    BY DEF NothingForgotten
  <2>1. addr[c] = 0
    BY DEF IInv, SessionInv, AddrFollowsLabel, HasAddr, Tracked, Setup, Teardown
  <2>2. ctr[c] = "running" => "stop" \in Faults
    BY DEF IInv, SessionInv, ContainerFollowsLabel, Handler
  <2>3. \A e \in nat \cup peers : e.conn # c
    BY DEF IInv, SessionInv, RulesCovered, PeersCovered, RuleLabels, PeerLabels
  <2> QED BY <2>1, <2>2, <2>3
<1> QED BY SpecIInv, <1>1, PTL
=============================================================================
