----------------------------- MODULE MCUdpLink -----------------------------
(***************************************************************************)
(* The settings in which TLC explores the UDP link.                        *)
(***************************************************************************)
EXTENDS UdpLink

Once == [p \in Port |-> 1]
FromA(n) == [A |-> n, B |-> 0]

\* One session each, calls that do not wait, a socket that takes everything.
Plain ==
    [max_retries |-> 1, virtual_delay |-> FALSE, ID_MODULUS |-> 4, Kinds |-> {"packet"},
     Lengths |-> {1}, Terminators |-> {"EOP"}, MaxSessions |-> Once, MaxSent |-> FromA(2),
     Timeouts |-> {"immediate"}, Capacities |-> {2}, Expiring |-> {"ack"}, Rooms |-> {9},
     Errors |-> {"TIMEOUT"}, Survives |-> FALSE, Closing |-> FALSE]

Exploring ==
    [\* fragments, empty packets, fragment timeouts and a socket that refuses any datagram
     reliable |-> [Plain EXCEPT !.ID_MODULUS = 8, !.Lengths = {0, 2},
                                !.Expiring = {"ack", "fragment"}, !.Rooms = {2, 9}],
     \* sessions that end at any point, their datagrams still on the way
     restart  |-> [Plain EXCEPT !.MaxSessions = [A |-> 3, B |-> 2],
                                !.Survives = TRUE, !.Closing = TRUE],
     \* message identifiers are used again
     wrap     |-> [Plain EXCEPT !.Lengths = {2}, !.MaxSent = FromA(4)],
     \* calls that wait, the virtual link's delay, errors and a silent peer
     calls    |-> [Plain EXCEPT !.virtual_delay = TRUE, !.Terminators = {"EEP"},
                                !.MaxSent = FromA(1), !.Kinds = {"packet", "time_code"},
                                !.Timeouts = {"finite"}, !.Capacities = {0, 2},
                                !.Expiring = {"peer", "ack"}, !.Rooms = {0, 9},
                                !.Errors = {"BACKEND"}]]

\* Applications that keep calling.
Calling ==
    [serviced |-> [Plain EXCEPT !.max_retries = 2, !.Lengths = {2},
                                !.Timeouts = {"immediate", "infinite"}]]
=============================================================================
