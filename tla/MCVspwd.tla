------------------------------ MODULE MCVspwd ------------------------------
(***************************************************************************)
(* vspwd with the applications on its ports, a management tool and what    *)
(* arrives at a bridged UDP port; and the settings TLC explores.           *)
(***************************************************************************)
EXTENDS VspdManagement

VARIABLES calls,    \* [Device -> calls its application may still make]
          faults,   \* how often a process may still die or the daemon end
          fed       \* packets and time codes the UDP port has received

budget == <<calls, faults, fed, setting>>
vars == <<server, sock, backlog, polled, dev, tool, calls, faults, fed, setting>>

Ports == [d \in Device |-> IF d = "B" THEN 1 ELSE 0]

Init ==
    /\ setting \in DOMAIN Settings
    /\ DInit(Settings[setting].up) /\ tool = NoTool
    /\ calls = Settings[setting].calls /\ faults = Settings[setting].faults /\ fed = 0

Application(d) ==
    /\ calls[d] > 0 /\ calls' = [calls EXCEPT ![d] = @ - 1]
    /\ \E op \in Ops[d] : Call(d, op)
    /\ UNCHANGED <<tool, faults, fed, setting>>

Fault ==
    /\ faults > 0 /\ faults' = faults - 1
    /\ \/ \E d \in Settings[setting].mortal : Die(d)
       \/ vspwd_cleanup /\ UNCHANGED dev
    /\ UNCHANGED <<tool, calls, fed, setting>>

\* A packet and a time code are ready at the UDP port.
Feed ==
    /\ fed < Settings[setting].fed /\ fed' = fed + 1
    /\ LET packet == Packet(<<"U", fed + 1>>)
       IN  server' = [server EXCEPT
                !.udp.rx_packets = Append(@, [total_size |-> packet.length,
                                              terminator |-> packet.terminator,
                                              data |-> packet.data]),
                !.udp.rx_codes = Append(@, <<fed + 1>>)]
    /\ UNCHANGED <<sock, backlog, polled, dev, tool, calls, faults, setting>>

Next ==
    \/ DaemonStep /\ UNCHANGED <<dev, tool>> /\ UNCHANGED budget
    \/ \E d \in Device : Application(d) \/ (CallStep(d) /\ UNCHANGED tool /\ UNCHANGED budget)
    \/ ((\E c \in Commands : ToolStart(c)) \/ ToolStep) /\ UNCHANGED budget
    \/ Fault \/ (vspwd_run /\ UNCHANGED <<dev, tool>> /\ UNCHANGED budget)
    \/ Feed

Spec == Init /\ [][Next]_vars

-----------------------------------------------------------------------------
(* Settings *)

ByDevice(a, b) == [d \in Device |-> CASE d = "A" -> a [] d = "B" -> b [] OTHER -> {}]
Calls2(a, b) == [d \in Device |-> CASE d = "A" -> a [] d = "B" -> b [] OTHER -> 0]
Short == <<100, 0>>
Long == <<40000, 100>>      \* the first takes two fragments

Plain ==
    [client_count |-> 2, counter_modulus |-> 1, room |-> 1, bridge |-> NONE,
     up |-> <<"A", "B">>, lengths |-> Short, ops |-> ByDevice({"send"}, {"receive"}),
     calls |-> Calls2(2, 2), faults |-> 0, mortal |-> {}, fed |-> 0, commands |-> {},
     fair |-> FALSE]

Applications ==
    [\* fragmented packets through queues of one and short socket buffers
     exchange |-> [Plain EXCEPT !.room = 2, !.lengths = Long,
                                !.ops = ByDevice({"send"}, {"receive", "get_link_state"})],
     \* reset and restart at any point of a transfer
     reset    |-> [Plain EXCEPT !.room = 2, !.lengths = Long, !.calls = Calls2(2, 3),
                                !.ops = ByDevice({"send"}, {"receive", "reset", "start"})],
     \* an application or the daemon dies at any point and comes back
     sessions |-> [Plain EXCEPT !.calls = Calls2(1, 3), !.faults = 1, !.mortal = {"A", "B"},
                                !.ops = ByDevice({"send"}, {"open", "start", "receive"})],
     \* time codes, wait and statistics
     codes    |-> [Plain EXCEPT !.ops = ByDevice({"send_time_code", "get_statistics"},
                                     {"receive_time_code", "wait", "clear_statistics"})],
     \* two applications use the same port
     rivals   |-> [Plain EXCEPT !.up = <<"A">>, !.calls = [A |-> 2, B |-> 0, C |-> 2],
                                !.ops = [A |-> {"open", "stop", "close"}, B |-> {},
                                         C |-> {"open", "stop", "close"}]],
     \* one port is bridged to UDP
     bridge   |-> [Plain EXCEPT !.client_count = 1, !.bridge = 1, !.up = <<"A">>,
                                !.lengths = <<40000, 0>>, !.calls = Calls2(2, 0),
                                !.ops = ByDevice({"send", "receive"}, {}), !.fed = 2]]

Services ==
    [\* spwmon beside two applications
     monitor   |-> [Plain EXCEPT !.client_count = 3, !.counter_modulus = 8, !.lengths = <<1>>,
                                 !.calls = Calls2(1, 1), !.commands = {"spwmon"},
                                 !.ops = ByDevice({"send"}, {"reset"}),
                                 !.fair = TRUE],
     \* every management command, and the daemon ends
     tools     |-> [Plain EXCEPT !.client_count = 3, !.counter_modulus = 8, !.lengths = <<1>>,
                                 !.calls = Calls2(0, 0), !.faults = 1,
                                 !.commands = {"spwmon", "list", "show", "stats",
                                               "clear-stats"}],
     \* calls that wait for the daemon without a time limit
     lifecycle |-> [Plain EXCEPT !.ops = ByDevice({"start", "stop"}, {"start", "reset"}),
                                 !.faults = 1, !.mortal = {"A", "B"}, !.fair = TRUE]]

-----------------------------------------------------------------------------
(* Properties *)

\* The number of a packet that is whole: the right length and terminator, and
\* no byte of another packet, session or attempt.
Numbers(received) ==
    [i \in DOMAIN received |->
        LET item == ItemOf(received[i].data)
        IN  IF received[i] = Packet(item) THEN item[2] ELSE 0]
Channel == INSTANCE MessageChannel
    WITH offered <- dev["A"].offered, received <- Numbers(dev["B"].received)
CodeChannel == INSTANCE MessageChannel
    WITH offered <- dev["A"].codes_offered,
         received <- [i \in DOMAIN dev["B"].codes_received |-> dev["B"].codes_received[i][1]]
UdpChannel == INSTANCE MessageChannel
    WITH offered <- fed, received <- IF fed = 0 THEN <<>> ELSE Numbers(dev["A"].received)

\* Whatever times out, dies or restarts, B receives A's packets whole, in the
\* order in which they were sent and none twice (the queue of vspwd, the
\* fragments on both sockets and the reassembly on both sides); so it is with
\* the time codes from A to B, and with the packets that reach the application
\* of A from a bridged UDP port.
ImplementsChannels == Channel!CSpec /\ CodeChannel!CSpec /\ UdpChannel!CSpec

\* A packet the UDP port had ready stays there until there is room for it in
\* the local port's queue (vspwd_bridge_push_packet looks before it receives),
\* and a packet vspwd accepted for the bridge is queued for it or was handed to
\* the UDP port, once and in order, however often the UDP port refuses it
\* (vspwd_bridge_pop_packet keeps what is refused).
BridgeKeepsAll ==
    /\ BridgeLosesNothing
    /\ \A n \in 1 .. fed :
          \/ <<"U", n>> \in server.accepted
          \/ \E k \in DOMAIN server.udp.rx_packets :
                server.udp.rx_packets[k].data[0] = <<"U", n>>

\* A tool never fails for a reason of the protocol, only because the daemon has
\* ended: snapshots may overtake the answers it waits for.
ToolFailsOnlyWithDaemon == tool.status = "BACKEND" => faults < Settings[setting].faults

\* The system does not stop while the daemon's loop has something ready or a
\* call or a tool need not wait: poll() and the scheduler see to that.  Calls
\* and faults are bounded, so this is weaker than fairness to each process.
Fair == Settings[setting].fair
Due ==
    /\ Fair
    /\ \/ server.up /\ (polled # NoPass \/ backlog # <<>> \/ Ready(Local) # {})
       \/ \E d \in Device : can_send(d) \/ can_read(d)
       \/ ToolCanSend \/ ToolCanRead
Fairness == []<>~Due \/ []<><<Fair>>_vars
FairSpec == Spec /\ Fairness

\* start, stop and reset wait for the daemon without a time limit; even so they
\* return, whatever the two applications do and if the daemon ends meanwhile.
LifecycleCallsReturn ==
    \A d \in Device :
        (Fair /\ dev[d].call.op \in {"start", "stop", "reset"}) ~> ~calling(d)

\* Once the applications are through, a monitor that keeps watching has
\* printed each port as it then is.
MonitorCatchesUp ==
    (Fair /\ watching) ~> \/ ~watching
                          \/ \A p \in PortId : tool.printed[p] = <<port_snapshot(server.ports[p])>>
=============================================================================
