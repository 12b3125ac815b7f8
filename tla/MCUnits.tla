------------------------------ MODULE MCUnits ------------------------------
(***************************************************************************)
(* The parts of the library that work alone: the loopback backend, the two *)
(* header codecs, the fragment reassembler, the fault injector and the     *)
(* workspace of a port.  A behaviour is one of one of them; the variables  *)
(* of the others stay as they are.                                         *)
(***************************************************************************)
EXTENDS Loopback, FragmentReassembly, PortWorkspace

VARIABLES
    unit,                                   \* the part; it never changes
    header, wire, source_size, decoded,     \* the codecs
    draws, injector, active, held, counted, handed, sent, log, before, epochs

codec == <<header, wire, source_size, decoded>>
faults == <<draws, injector, active, held, counted, handed, sent, log, before, epochs>>
all == <<unit, vars, codec, rvars, faults, wvars>>

-----------------------------------------------------------------------------
(* The instances *)

\* Loopback: an empty packet, one of two octets and one beyond the limit.
MCPacket == {[data |-> "none", length |-> 0], [data |-> "two", length |-> 2],
             [data |-> "over", length |-> 3]}

Tp == INSTANCE MCVspwTp WITH
    Size <- {0, 2, 8, 300, 65600}, PayloadSize <- {0, 2, 8, 65500},
    Session <- {<<0, 0>>, <<0, 257>>, <<65536, 0>>}, Id <- {0, 65537}, Version <- {0, 1}

Vspd == INSTANCE MCVspdProtocol WITH
    Size <- {0, 2, 4, 6, 1048577}, PayloadSize <- {0, 2, 4, 16, 72, 88, 32769},
    Id <- {0, 65537}

\* Fragments as VSPW-TP validation lets them through, of messages of three to
\* five octets for a buffer of four: a first fragment begins at 0, a last one
\* reaches the end; message_id 0 is among them, and two versions of a message
\* that agree in some places only.  Words have two bits.
Message == {[id |-> 1, size |-> 3], [id |-> 1, size |-> 4],
            [id |-> 0, size |-> 3], [id |-> 2, size |-> 5]}
Content == {[p \in 0 .. 3 |-> 1], [p \in 0 .. 3 |-> 1 + (p % 2)]}
Legal(h) ==
    /\ h.fragment_offset + h.payload_size <= h.total_size
    /\ h.payload_size < h.total_size
    /\ h.flags = {"EOP", "ACK_REQUIRED"} => h.payload_size # 0
    /\ "FRAGMENT_START" \in h.flags => h.fragment_offset = 0
    /\ "FRAGMENT_END" \in h.flags => h.fragment_offset + h.payload_size = h.total_size
Fragments ==
    {h \in {[type |-> "DATA", flags |-> {"EOP", "ACK_REQUIRED"} \cup f,
             message_id |-> m.id, total_size |-> m.size,
             payload_size |-> p, fragment_offset |-> o, content |-> c] :
                f \in SUBSET {"FRAGMENT_START", "FRAGMENT_END"}, m \in Message,
                p \in 0 .. 4, o \in 0 .. 4, c \in Content} : Legal(h)}

\* A rule of every action, one of them uncertain.
Schedule ==
    <<[action |-> "REORDER",   target |-> "DATA",      always |-> FALSE, max_events |-> 2],
      [action |-> "DUPLICATE", target |-> "ANY",       always |-> TRUE,  max_events |-> 1],
      [action |-> "DROP",      target |-> "KEEPALIVE", always |-> TRUE,  max_events |-> 1],
      [action |-> "EEP",       target |-> "DATA",      always |-> TRUE,  max_events |-> 1],
      [action |-> "DELAY",     target |-> "DATA",      always |-> TRUE,  max_events |-> 1]>>

Injection == INSTANCE UdpFaults WITH
    rules <- Schedule, COUNTER_MODULUS <- 1, Period <- 2, Types <- {"DATA", "KEEPALIVE"},
    MaxHanded <- 3, MaxEpochs <- 2, statistics <- counted, wire <- sent

\* A size_t of seven bits: every sum the sizes enter can wrap.  Storage around
\* what 0, 2, 3, 11 and 18 slots need, and as much as there is.
StorageSize ==
    {0, 116} \cup {((7 + a - 1) \div a) * a + 6 + n * 5 + e - 1 :
                       a \in {1, 4, 8}, n \in {0, 2, 3, 11, 18}, e \in 0 .. 2}

-----------------------------------------------------------------------------
UnitInit ==
    /\ unit \in {"loopback", "tp", "vspd", "reassembly", "faults", "workspace"}
    /\ Init /\ RInit
    /\ CASE unit = "tp"   -> Tp!Init
         [] unit = "vspd" -> Vspd!Init /\ source_size = 0
         [] OTHER -> header = 0 /\ wire = <<>> /\ source_size = 0 /\ decoded = "none"
    /\ IF unit = "faults" THEN Injection!Init
       ELSE /\ draws = 0 /\ injector = 0 /\ active = FALSE /\ held = 0 /\ counted = 0
            /\ handed = <<>> /\ sent = <<>> /\ log = <<>> /\ before = <<>> /\ epochs = 0
    /\ WInit
    /\ unit = "workspace" \/ config = [tx_buffer_slots |-> 0, rx_buffer_slots |-> 0,
                                      context_alignment |-> 1]

LoopbackNext == unit = "loopback" /\ Next /\ UNCHANGED <<unit, codec, rvars, faults, wvars>>
TpNext ==
    /\ unit = "tp" /\ (Tp!Encode \/ Tp!Decode)
    /\ UNCHANGED <<unit, vars, rvars, faults, wvars>>
VspdNext ==
    /\ unit = "vspd" /\ (Vspd!Send \/ Vspd!Receive)
    /\ UNCHANGED <<unit, vars, source_size, rvars, faults, wvars>>
ReassemblyNext ==
    unit = "reassembly" /\ RNext /\ UNCHANGED <<unit, vars, codec, faults, wvars>>
InjectionNext ==
    unit = "faults" /\ Injection!Next /\ UNCHANGED <<unit, vars, codec, rvars, wvars>>
StorageNext ==
    unit = "workspace" /\ WNext /\ UNCHANGED <<unit, vars, codec, rvars, faults>>

UnitNext ==
    \/ LoopbackNext \/ TpNext \/ VspdNext \/ ReassemblyNext \/ InjectionNext \/ StorageNext

UnitSpec == UnitInit /\ [][UnitNext]_all

-----------------------------------------------------------------------------
(* What each of them promises *)

\* What is written is what is read: every field of a header comes back from
\* the octets spw_vspw_tp_encode_header and vspd_encode_header write, and the
\* VSPD payload codecs read back what they write, wherever in the record the
\* payload lies.
CodecsRoundTrip ==
    /\ unit = "tp" => Tp!RoundTrip
    /\ unit = "vspd" => Vspd!RoundTrip /\ Vspd!PayloadsComeBack

\* Two lists of checks accept the same headers: spw_vspw_tp_decode_header and
\* spw_vspw_tp_validate on a complete datagram; and vspd_validate_frame accepts
\* a DATA record exactly when it is a fragment by the rules of the protocol.
ValidatorsAgree ==
    /\ unit = "tp" => Tp!DecodeAgreesWithValidate
    /\ unit = "vspd" => Vspd!DataRecordsAreFragments

\* A start of the UDP port replays the fault schedule: while the same events
\* follow in the same order as after the start before, every decision of
\* spw_fault_injector_evaluate is the same (docs/fault-injection.md).
Replay == unit = "faults" => Injection!Replay

\* A datagram that send_datagram answered OK is on the wire, or was dropped or
\* thrown away by a rule, or is the held one, and it is on the wire twice only
\* by a DUPLICATE rule.
OkAccountedFor == unit = "faults" => Injection!OkAccountedFor
=============================================================================
