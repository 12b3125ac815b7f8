--------------------------- MODULE PortWorkspace ---------------------------
(***************************************************************************)
(* Caller-owned storage of a port: spw_port_workspace_requirements says    *)
(* how much is needed, spw_port_open_in_place lays the port and, behind    *)
(* it, the backend's context out in it.  A DRIVER context ends in an array *)
(* of buffer slots whose length the configuration chooses; every other     *)
(* backend's context has a fixed size.  Sizes are size_t, so that every    *)
(* sum and product is taken modulo SIZE_MODULUS.                           *)
(*                                                                         *)
(* The configuration has passed select_factory.                            *)
(***************************************************************************)
EXTENDS Naturals

CONSTANTS
    SIZE_MODULUS,               \* SIZE_MAX + 1
    PORT_SIZE, PORT_ALIGNMENT,  \* of spw_port_t
    BACKEND_SIZE,               \* of the context without slots
    SLOT_SIZE,                  \* of spw_driver_buffer_slot_t
    Alignment,                  \* context_alignment of the factories
    SlotCount,                  \* values of tx_buffer_slots, rx_buffer_slots
    Address, WorkspaceSize      \* workspaces the caller may offer

SIZE_MAX == SIZE_MODULUS - 1

\* What the C implementation guarantees: sizes are values of size_t, objects
\* are not empty, a port can be followed by padding, and of two alignments,
\* powers of two, one divides the other.
ASSUME PlatformAssumption ==
    /\ SIZE_MODULUS \in Nat
    /\ PORT_SIZE \in Nat /\ BACKEND_SIZE \in Nat \ {0} /\ BACKEND_SIZE < SIZE_MODULUS
    /\ SLOT_SIZE \in Nat \ {0} /\ PORT_ALIGNMENT \in Nat \ {0}
    /\ \A a \in Alignment :
           /\ a \in Nat \ {0} /\ PORT_SIZE + a - 1 < SIZE_MODULUS
           /\ a % PORT_ALIGNMENT = 0 \/ PORT_ALIGNMENT % a = 0
    /\ SlotCount \subseteq 0 .. SIZE_MAX
    /\ Address \subseteq Nat /\ WorkspaceSize \subseteq Nat

VARIABLES
    config,         \* slots and context_alignment of the port to be opened
    requirements,   \* answer of spw_port_workspace_requirements
    workspace,      \* address and size of the storage last offered
    opened          \* result of the last open, with the context's address

wvars == <<config, requirements, workspace, opened>>

u(n) == n % SIZE_MODULUS

align_up(value, alignment) ==
    LET v == u(value + alignment - 1) IN v - (v % alignment)

is_power_of_two(value) == \E k \in 0 .. value : value = 2 ^ k

is_aligned(address, alignment) == address % alignment = 0

zero_copy(c) == c.tx_buffer_slots # 0 /\ c.rx_buffer_slots # 0

Error(e) == [result |-> e, size |-> 0, alignment |-> 0]

\* The guard on the product is missing.
UnguardedProduct(c) ==
    LET total == u(c.tx_buffer_slots + c.rx_buffer_slots)
    IN IF ~zero_copy(c) THEN [result |-> "OK", size |-> BACKEND_SIZE]
       ELSE IF c.tx_buffer_slots > SIZE_MAX - c.rx_buffer_slots
            THEN [result |-> "RESOURCE_EXHAUSTED", size |-> 0]
            ELSE [result |-> "OK", size |-> u(BACKEND_SIZE + u(total * SLOT_SIZE))]

\* A size, or an error in its place.
driver_context_size_for_config(c) ==
    LET total == u(c.tx_buffer_slots + c.rx_buffer_slots)
        slots == u(total * SLOT_SIZE)
    IN IF ~zero_copy(c) THEN [result |-> "OK", size |-> BACKEND_SIZE]
       ELSE IF \/ c.tx_buffer_slots > SIZE_MAX - c.rx_buffer_slots
               \/ total > SIZE_MAX \div SLOT_SIZE
               \/ slots > SIZE_MAX - BACKEND_SIZE
            THEN [result |-> "RESOURCE_EXHAUSTED", size |-> 0]
            ELSE [result |-> "OK", size |-> u(BACKEND_SIZE + slots)]

requirements_for(c) ==
    LET context == driver_context_size_for_config(c)
        offset == align_up(PORT_SIZE, c.context_alignment)
    IN IF ~is_power_of_two(c.context_alignment) THEN Error("BACKEND")
       ELSE IF context.result # "OK" THEN Error(context.result)
       ELSE IF context.size > SIZE_MAX - offset THEN Error("RESOURCE_EXHAUSTED")
       ELSE [result |-> "OK", size |-> u(offset + context.size),
             alignment |-> IF c.context_alignment > PORT_ALIGNMENT
                           THEN c.context_alignment ELSE PORT_ALIGNMENT]

backend_address(base, alignment) == u(base + align_up(PORT_SIZE, alignment))

\* The octets driver_construct clears from the context's address on.
driver_construct(c) ==
    u(BACKEND_SIZE + (IF zero_copy(c)
                      THEN u(u(c.tx_buffer_slots + c.rx_buffer_slots) * SLOT_SIZE)
                      ELSE 0))

Closed == [result |-> "closed", context |-> 0, cleared |-> 0]

Refused(e) == [Closed EXCEPT !.result = e]

open_in_place(c, w) ==
    LET r == requirements_for(c)
    IN IF r.result # "OK" THEN Refused(r.result)
       ELSE IF ~is_aligned(w.address, r.alignment) THEN Refused("INVALID_ARGUMENT")
       ELSE IF w.size < r.size THEN Refused("BUFFER_TOO_SMALL")
       ELSE [result |-> "OK",
             context |-> backend_address(w.address, c.context_alignment),
             cleared |-> driver_construct(c)]

-----------------------------------------------------------------------------
WInit ==
    /\ config \in [tx_buffer_slots : SlotCount, rx_buffer_slots : SlotCount,
                   context_alignment : Alignment]
    /\ requirements = Error("none")
    /\ workspace = [address |-> 0, size |-> 0]
    /\ opened = Closed

spw_port_workspace_requirements ==
    /\ opened.result # "OK"
    /\ requirements' = requirements_for(config)
    /\ UNCHANGED <<config, workspace, opened>>

\* The storage is an object of the program: it ends within the address space.
spw_port_open_in_place(a, n) ==
    /\ opened.result # "OK"
    /\ a + n <= SIZE_MODULUS
    /\ workspace' = [address |-> a, size |-> n]
    /\ opened' = open_in_place(config, workspace')
    /\ UNCHANGED <<config, requirements>>

spw_port_close ==
    /\ opened.result = "OK"
    /\ opened' = Closed
    /\ UNCHANGED <<config, requirements, workspace>>

WNext ==
    \/ spw_port_workspace_requirements
    \/ \E a \in Address, n \in WorkspaceSize : spw_port_open_in_place(a, n)
    \/ spw_port_close

WSpec == WInit /\ [][WNext]_wvars

-----------------------------------------------------------------------------
\* The octets the open port's backend will use: its context and every slot of
\* its two arrays, counted without wrapping.
Extent ==
    BACKEND_SIZE + (IF zero_copy(config)
                    THEN (config.tx_buffer_slots + config.rx_buffer_slots) * SLOT_SIZE
                    ELSE 0)

\* An open port lies in the storage it was given: the port first, the context
\* behind it and aligned as its type needs, every slot before the end, and
\* driver_construct clears all of the context and nothing else.
ContextFits ==
    opened.result = "OK" =>
        /\ is_aligned(workspace.address, PORT_ALIGNMENT)
        /\ is_aligned(opened.context, config.context_alignment)
        /\ opened.context >= workspace.address + PORT_SIZE
        /\ opened.context + Extent <= workspace.address + workspace.size
        /\ opened.cleared = Extent

\* The query is authoritative (docs/runtime-contract.md:147): storage of the
\* size and alignment spw_port_workspace_requirements asked for is accepted by
\* spw_port_open_in_place, smaller storage is refused for its size, and a
\* configuration the query refuses is refused with the same result.
QueryAgreesWithOpen ==
    requirements.result # "none" /\ opened.result # "closed" =>
        opened.result =
            IF requirements.result # "OK" THEN requirements.result
            ELSE IF ~is_aligned(workspace.address, requirements.alignment)
                 THEN "INVALID_ARGUMENT"
            ELSE IF workspace.size < requirements.size THEN "BUFFER_TOO_SMALL"
            ELSE "OK"

\* Both: what is asked for is enough, and what is given is used as promised.
WorkspaceSound == ContextFits /\ QueryAgreesWithOpen
=============================================================================
