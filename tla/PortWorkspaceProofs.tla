------------------------ MODULE PortWorkspaceProofs ------------------------
(***************************************************************************)
(* The layout of a port in caller-owned storage is sound for every width   *)
(* of size_t, every size of the port, of the context and of a slot, and    *)
(* every configuration: no sum and no product of the sizes wraps unnoticed.*)
(***************************************************************************)
EXTENDS PortWorkspace, Integers, TLAPS

Config == [tx_buffer_slots : SlotCount, rx_buffer_slots : SlotCount,
           context_alignment : Alignment]

\* Extent of a configuration.
Slots(c) == IF zero_copy(c) THEN (c.tx_buffer_slots + c.rx_buffer_slots) * SLOT_SIZE ELSE 0

IInv ==
    /\ config \in Config
    /\ requirements \in {Error("none"), requirements_for(config)}
    /\ \/ opened = Closed
       \/ /\ opened = open_in_place(config, workspace)
          /\ workspace.address \in Nat /\ workspace.size \in Nat
          /\ workspace.address + workspace.size <= SIZE_MODULUS

-----------------------------------------------------------------------------
(* Arithmetic *)

LEMMA Quotient ==
  ASSUME NEW a \in Nat \ {0}, NEW x \in Nat
  PROVE  /\ x \div a \in Nat /\ x % a \in 0 .. a - 1
         /\ x = (x \div a) * a + (x % a)
  OBVIOUS

LEMMA Ordered ==
  ASSUME NEW a \in Nat, NEW m \in Nat, NEW n \in Nat, m <= n
  PROVE  m * a <= n * a
  <1>1. PICK d \in Nat : n = m + d
    <2>1. n - m \in Nat /\ n = m + (n - m)
      OBVIOUS
    <2> QED
      BY <2>1, Zenon
  <1>2. n * a = m * a + d * a /\ d * a \in Nat /\ m * a \in Nat
    BY <1>1
  <1> QED
    BY <1>2

\* Divisible is a multiple.
LEMMA Multiple ==
  ASSUME NEW a \in Nat \ {0}, NEW x \in Nat
  PROVE  x % a = 0 <=> \E k \in Nat : x = k * a
  <1>1. ASSUME x % a = 0
        PROVE  \E k \in Nat : x = k * a
    <2>1. x \div a \in Nat /\ x = (x \div a) * a
      <3>1. x \div a \in Nat /\ (x \div a) * a \in Nat /\ x = (x \div a) * a + (x % a)
        BY Quotient
      <3> QED
        BY <1>1, <3>1
    <2> QED
      BY <2>1, Zenon
  <1>2. ASSUME NEW k \in Nat, x = k * a
        PROVE  x % a = 0
    <2> DEFINE q == x \div a
               r == x % a
    <2>1. q \in Nat /\ r \in Nat /\ r < a /\ x = q * a + r
      BY Quotient
    <2> HIDE DEF q, r
    <2>2. k * a \in Nat /\ q * a \in Nat
      BY <2>1
    <2>3. ~ (k < q)
      <3> SUFFICES ASSUME k < q PROVE FALSE
        OBVIOUS
      <3>1. (k + 1) * a <= q * a /\ (k + 1) * a = k * a + a
        BY <2>1, Ordered
      <3> QED
        BY <1>2, <2>1, <2>2, <3>1
    <2>4. ~ (q < k)
      <3> SUFFICES ASSUME q < k PROVE FALSE
        OBVIOUS
      <3>1. (q + 1) * a <= k * a /\ (q + 1) * a = q * a + a
        BY <2>1, Ordered
      <3> QED
        BY <1>2, <2>1, <2>2, <3>1
    <2>5. q = k
      BY <2>1, <2>3, <2>4
    <2>6. r = 0
      BY <1>2, <2>1, <2>2, <2>5
    <2> QED
      BY <2>6 DEF r
  <1> QED
    BY <1>1, <1>2, Zenon

LEMMA MultipleOfMultiple ==
  ASSUME NEW a \in Nat \ {0}, NEW b \in Nat \ {0}, NEW x \in Nat, x % b = 0, b % a = 0
  PROVE  x % a = 0
  <1>1. PICK k \in Nat : x = k * b
    BY Multiple
  <1>2. PICK l \in Nat : b = l * a
    BY Multiple
  <1>3. k * l \in Nat /\ x = (k * l) * a
    BY <1>1, <1>2
  <1> QED
    BY <1>3, Multiple

LEMMA SumOfMultiples ==
  ASSUME NEW a \in Nat \ {0}, NEW x \in Nat, NEW y \in Nat, x % a = 0, y % a = 0
  PROVE  (x + y) % a = 0
  <1>1. PICK k \in Nat : x = k * a
    BY Multiple
  <1>2. PICK l \in Nat : y = l * a
    BY Multiple
  <1>3. k + l \in Nat /\ x + y = (k + l) * a /\ x + y \in Nat
    BY <1>1, <1>2
  <1> QED
    BY <1>3, Multiple, Zenon

LEMMA Small ==
  ASSUME NEW a \in Nat \ {0}, NEW x \in Nat, x < a
  PROVE  x % a = x
  <1> DEFINE q == x \div a
             r == x % a
  <1>1. q \in Nat /\ r \in Nat /\ x = q * a + r /\ q * a \in Nat
    BY Quotient
  <1> HIDE DEF q, r
  <1>2. q = 0
    <2> SUFFICES ASSUME 1 <= q PROVE FALSE
      BY <1>1
    <2>1. 1 * a <= q * a
      BY <1>1, Ordered
    <2> QED
      BY <1>1, <2>1
  <1> QED
    BY <1>1, <1>2 DEF r

-----------------------------------------------------------------------------
(* The layout *)

\* A size that fits size_t is not changed by it.
LEMMA Unwrapped ==
  ASSUME NEW n \in Nat, n < SIZE_MODULUS
  PROVE  u(n) = n
  <1>1. SIZE_MODULUS \in Nat \ {0}
    BY PlatformAssumption
  <1> QED
    BY <1>1, Small DEF u

\* align_up gives the context an aligned place behind the port.
LEMMA Offset ==
  ASSUME NEW a \in Alignment
  PROVE  /\ align_up(PORT_SIZE, a) \in Nat
         /\ align_up(PORT_SIZE, a) >= PORT_SIZE
         /\ align_up(PORT_SIZE, a) < SIZE_MODULUS
         /\ align_up(PORT_SIZE, a) % a = 0
  <1> DEFINE v == PORT_SIZE + a - 1
             q == v \div a
             r == v % a
             o == v - r
  <1>1. a \in Nat \ {0} /\ PORT_SIZE \in Nat /\ v \in Nat /\ v < SIZE_MODULUS
        /\ SIZE_MODULUS \in Nat
    BY PlatformAssumption
  <1>2. u(v) = v
    <2> HIDE DEF v
    <2> QED
      BY <1>1, Unwrapped
  <1>3. align_up(PORT_SIZE, a) = o
    BY <1>2 DEF align_up
  <1>4. q \in Nat /\ r \in 0 .. a - 1 /\ v = q * a + r
    <2> HIDE DEF v
    <2> QED
      BY <1>1, Quotient, Zenon
  <1> HIDE DEF q, r
  <1>5. o \in Nat /\ o = q * a /\ o >= PORT_SIZE /\ o < SIZE_MODULUS
    <2>1. q * a \in Nat
      BY <1>1, <1>4
    <2> QED
      BY <1>1, <1>4, <2>1
  <1> HIDE DEF o
  <1>6. o % a = 0
    BY <1>1, <1>4, <1>5, Multiple, Zenon
  <1> QED
    BY <1>3, <1>5, <1>6

\* Where the guards of driver_context_size_for_config pass, nothing wrapped:
\* the size it answers, and the size driver_construct clears, is the extent.
LEMMA ContextSize ==
  ASSUME NEW c \in Config,
         driver_context_size_for_config(c).result = "OK"
  PROVE  /\ BACKEND_SIZE + Slots(c) \in Nat
         /\ driver_context_size_for_config(c).size = BACKEND_SIZE + Slots(c)
         /\ driver_construct(c) = BACKEND_SIZE + Slots(c)
         /\ BACKEND_SIZE + Slots(c) > 0
         /\ BACKEND_SIZE + Slots(c) < SIZE_MODULUS
  <1> DEFINE t == c.tx_buffer_slots
             s == c.rx_buffer_slots
  <1>1. /\ t \in Nat /\ s \in Nat /\ t < SIZE_MODULUS /\ s < SIZE_MODULUS
        /\ SIZE_MODULUS \in Nat \ {0} /\ SLOT_SIZE \in Nat \ {0}
        /\ BACKEND_SIZE \in Nat \ {0} /\ BACKEND_SIZE < SIZE_MODULUS
    <2>1. /\ SIZE_MODULUS \in Nat \ {0} /\ SLOT_SIZE \in Nat \ {0}
          /\ BACKEND_SIZE \in Nat \ {0} /\ BACKEND_SIZE < SIZE_MODULUS
          /\ SlotCount \subseteq 0 .. SIZE_MODULUS - 1
      BY PlatformAssumption DEF SIZE_MAX
    <2>2. t \in SlotCount /\ s \in SlotCount
      BY DEF Config
    <2> HIDE DEF t, s
    <2>3. t \in 0 .. SIZE_MODULUS - 1 /\ s \in 0 .. SIZE_MODULUS - 1
      BY <2>1, <2>2, Zenon
    <2> QED
      BY <2>1, <2>3
  <1>2. CASE ~zero_copy(c)
    <2>1. u(BACKEND_SIZE + 0) = BACKEND_SIZE
      BY <1>1, Unwrapped
    <2> QED
      BY <1>1, <1>2, <2>1 DEF Slots, driver_context_size_for_config, driver_construct
  <1>3. CASE zero_copy(c)
    <2> DEFINE total == u(t + s)
               slots == u(total * SLOT_SIZE)
    <2>1. /\ ~(t > SIZE_MAX - s)
          /\ ~(total > SIZE_MAX \div SLOT_SIZE)
          /\ ~(slots > SIZE_MAX - BACKEND_SIZE)
          /\ driver_context_size_for_config(c).size = u(BACKEND_SIZE + slots)
      BY <1>3 DEF driver_context_size_for_config
    <2>2. total = t + s /\ total \in Nat
      BY <1>1, <2>1, Unwrapped DEF SIZE_MAX
    <2>3. total * SLOT_SIZE \in Nat /\ total * SLOT_SIZE < SIZE_MODULUS
      <3> DEFINE q == SIZE_MAX \div SLOT_SIZE
                 r == SIZE_MAX % SLOT_SIZE
      <3>1. SIZE_MAX \in Nat /\ SIZE_MAX < SIZE_MODULUS
        BY <1>1 DEF SIZE_MAX
      <3>2. q \in Nat /\ r \in Nat /\ SIZE_MAX = q * SLOT_SIZE + r
        <4>1. q \in Nat /\ r \in 0 .. SLOT_SIZE - 1 /\ SIZE_MAX = q * SLOT_SIZE + r
          BY <1>1, <3>1, Quotient, Zenon
        <4> HIDE DEF q, r
        <4> QED
          BY <1>1, <4>1
      <3>3. total <= q
        BY <2>1, <2>2, <3>2
      <3> HIDE DEF q, r, total
      <3>4. total * SLOT_SIZE <= q * SLOT_SIZE
        BY <1>1, <2>2, <3>2, <3>3, Ordered
      <3>5. q * SLOT_SIZE \in Nat /\ total * SLOT_SIZE \in Nat
        BY <1>1, <2>2, <3>2
      <3> QED
        BY <1>1, <3>1, <3>2, <3>4, <3>5
    <2>4. slots = total * SLOT_SIZE
      BY <2>3, Unwrapped
    <2>5. Slots(c) = slots
      BY <1>3, <2>2, <2>4 DEF Slots
    <2>6. slots \in Nat /\ BACKEND_SIZE + slots \in Nat \ {0}
          /\ BACKEND_SIZE + slots < SIZE_MODULUS
      <3> HIDE DEF slots, total
      <3> QED
        BY <1>1, <2>1, <2>3, <2>4 DEF SIZE_MAX
    <2>7. u(BACKEND_SIZE + slots) = BACKEND_SIZE + slots
      BY <2>6, Unwrapped
    <2>8. driver_construct(c) = u(BACKEND_SIZE + slots)
      BY <1>3 DEF driver_construct
    <2> HIDE DEF slots, total
    <2> QED
      BY <2>1, <2>5, <2>6, <2>7, <2>8
  <1> QED
    BY <1>2, <1>3

\* What an answer OK of spw_port_workspace_requirements asks for.
LEMMA Required ==
  ASSUME NEW c \in Config, requirements_for(c).result = "OK"
  PROVE  LET a == c.context_alignment
             r == requirements_for(c)
         IN  /\ driver_context_size_for_config(c).result = "OK"
             /\ r.size = align_up(PORT_SIZE, a) + (BACKEND_SIZE + Slots(c))
             /\ r.alignment \in Nat \ {0}
             /\ r.alignment % a = 0 /\ r.alignment % PORT_ALIGNMENT = 0
  <1> DEFINE a == c.context_alignment
             r == requirements_for(c)
             x == driver_context_size_for_config(c)
             o == align_up(PORT_SIZE, a)
             e == BACKEND_SIZE + Slots(c)
  <1>1. a \in Alignment
    BY DEF Config
  <1>2. /\ x.result = "OK" /\ ~(x.size > SIZE_MAX - o)
        /\ r.size = u(o + x.size)
        /\ r.alignment = IF a > PORT_ALIGNMENT THEN a ELSE PORT_ALIGNMENT
    BY DEF requirements_for, Error
  <1>3. x.size = e /\ e \in Nat /\ o \in Nat /\ SIZE_MODULUS \in Nat
    BY <1>1, <1>2, ContextSize, Offset, PlatformAssumption
  <1>4. r.size = o + e
    <2>1. o + e \in Nat /\ o + e < SIZE_MODULUS
      <3> HIDE DEF o, e, x
      <3> QED
        BY <1>2, <1>3 DEF SIZE_MAX
    <2> QED
      BY <1>2, <1>3, <2>1, Unwrapped
  <1>5. /\ a \in Nat \ {0} /\ PORT_ALIGNMENT \in Nat \ {0}
        /\ a % PORT_ALIGNMENT = 0 \/ PORT_ALIGNMENT % a = 0
    BY <1>1, PlatformAssumption
  <1>6. a % a = 0 /\ PORT_ALIGNMENT % PORT_ALIGNMENT = 0
    BY <1>5, Multiple
  <1>7. CASE a > PORT_ALIGNMENT
    <2>1. PORT_ALIGNMENT % a = PORT_ALIGNMENT
      BY <1>5, <1>7, Small
    <2> QED
      BY <1>2, <1>4, <1>5, <1>6, <1>7, <2>1
  <1>8. CASE ~(a > PORT_ALIGNMENT)
    <2>1. a < PORT_ALIGNMENT => a % PORT_ALIGNMENT = a
      BY <1>5, Small
    <2>2. PORT_ALIGNMENT % a = 0
      BY <1>5, <1>6, <1>8, <2>1
    <2> QED
      BY <1>2, <1>4, <1>5, <1>6, <1>8, <2>2
  <1> QED
    BY <1>7, <1>8

\* A port that opened lies in its storage.
LEMMA OpenFits ==
  ASSUME NEW c \in Config, NEW w, w.address \in Nat, w.size \in Nat,
         w.address + w.size <= SIZE_MODULUS, open_in_place(c, w).result = "OK"
  PROVE  LET p == open_in_place(c, w)
         IN  /\ is_aligned(w.address, PORT_ALIGNMENT)
             /\ is_aligned(p.context, c.context_alignment)
             /\ p.context >= w.address + PORT_SIZE
             /\ p.context + (BACKEND_SIZE + Slots(c)) <= w.address + w.size
             /\ p.cleared = BACKEND_SIZE + Slots(c)
  <1> DEFINE a == c.context_alignment
             r == requirements_for(c)
             p == open_in_place(c, w)
             o == align_up(PORT_SIZE, a)
             e == BACKEND_SIZE + Slots(c)
             b == w.address
  <1>1. /\ r.result = "OK" /\ b % r.alignment = 0 /\ ~(w.size < r.size)
        /\ p.context = u(b + o) /\ p.cleared = driver_construct(c)
    <2>1. /\ r.result = "OK" /\ is_aligned(b, r.alignment) /\ ~(w.size < r.size)
      BY DEF open_in_place, Refused, Closed
    <2> QED
      BY <2>1 DEF open_in_place, is_aligned, backend_address
  <1>2. /\ driver_context_size_for_config(c).result = "OK"
        /\ r.size = o + e /\ r.alignment \in Nat \ {0}
        /\ r.alignment % a = 0 /\ r.alignment % PORT_ALIGNMENT = 0
    BY <1>1, Required
  <1>3. e \in Nat /\ e > 0 /\ driver_construct(c) = e
    BY <1>2, ContextSize
  <1>4. a \in Alignment
    BY DEF Config
  <1>5. o \in Nat /\ o >= PORT_SIZE /\ o % a = 0
    BY <1>4, Offset
  <1>6. /\ a \in Nat \ {0} /\ PORT_ALIGNMENT \in Nat \ {0} /\ PORT_SIZE \in Nat
        /\ BACKEND_SIZE \in Nat /\ SIZE_MODULUS \in Nat
    BY <1>4, PlatformAssumption
  <1>7. b % a = 0 /\ b % PORT_ALIGNMENT = 0
    <2> HIDE DEF r, a, b
    <2>1. b \in Nat
      BY DEF b
    <2> QED
      BY <1>1, <1>2, <1>6, <2>1, MultipleOfMultiple
  <1>8. b + o \in Nat /\ b + o < SIZE_MODULUS /\ b + o + e <= b + w.size
    <2> HIDE DEF o, e, r
    <2> QED
      BY <1>1, <1>2, <1>3, <1>5, <1>6
  <1>9. p.context = b + o
    BY <1>1, <1>8, Unwrapped
  <1>10. (b + o) % a = 0
    <2> HIDE DEF o, a, b
    <2>1. b \in Nat
      BY DEF b
    <2> QED
      BY <1>5, <1>6, <1>7, <2>1, SumOfMultiples
  <1>11. b + o >= b + PORT_SIZE
    <2> HIDE DEF o
    <2> QED
      BY <1>5, <1>6
  <1> HIDE DEF p, o, e, a, b
  <1> QED
    BY <1>1, <1>3, <1>7, <1>8, <1>9, <1>10, <1>11 DEF is_aligned, p, e, a, b

-----------------------------------------------------------------------------
(* The specification *)

LEMMA InvariantStep ==
  ASSUME IInv, [WNext]_wvars
  PROVE  IInv'
  <1>1. CASE spw_port_workspace_requirements
    BY <1>1 DEF spw_port_workspace_requirements, IInv
  <1>2. ASSUME NEW a \in Address, NEW n \in WorkspaceSize, spw_port_open_in_place(a, n)
        PROVE  IInv'
    <2>1. a \in Nat /\ n \in Nat
      BY PlatformAssumption
    <2> QED
      BY <1>2, <2>1 DEF spw_port_open_in_place, IInv
  <1>3. CASE spw_port_close
    BY <1>3 DEF spw_port_close, IInv
  <1>4. CASE UNCHANGED wvars
    BY <1>4 DEF wvars, IInv
  <1> QED
    BY <1>1, <1>2, <1>3, <1>4 DEF WNext

\* An open port and its slots lie in the caller's storage, aligned, and
\* spw_port_workspace_requirements asks for exactly what spw_port_open_in_place
\* needs, however close the sizes come to the end of size_t.
THEOREM WorkspaceStaysSound == WSpec => []WorkspaceSound
  <1>1. WInit => IInv
    BY DEF WInit, IInv, Config
  <1>2. IInv /\ [WNext]_wvars => IInv'
    BY InvariantStep
  <1>3. IInv => ContextFits
    <2> SUFFICES ASSUME IInv, opened.result = "OK"
                 PROVE  /\ is_aligned(workspace.address, PORT_ALIGNMENT)
                        /\ is_aligned(opened.context, config.context_alignment)
                        /\ opened.context >= workspace.address + PORT_SIZE
                        /\ opened.context + Extent <= workspace.address + workspace.size
                        /\ opened.cleared = Extent
      BY DEF ContextFits
    <2>1. Extent = BACKEND_SIZE + Slots(config)
      BY DEF Extent, Slots
    <2>2. /\ opened = open_in_place(config, workspace) /\ config \in Config
          /\ workspace.address \in Nat /\ workspace.size \in Nat
          /\ workspace.address + workspace.size <= SIZE_MODULUS
      BY DEF IInv, Closed
    <2> QED
      BY <2>1, <2>2, OpenFits
  <1>4. IInv => QueryAgreesWithOpen
    <2> SUFFICES ASSUME IInv, requirements.result # "none", opened.result # "closed"
                 PROVE  opened.result =
                          IF requirements.result # "OK" THEN requirements.result
                          ELSE IF ~is_aligned(workspace.address, requirements.alignment)
                               THEN "INVALID_ARGUMENT"
                          ELSE IF workspace.size < requirements.size
                               THEN "BUFFER_TOO_SMALL"
                          ELSE "OK"
      BY DEF QueryAgreesWithOpen
    <2>1. requirements = requirements_for(config)
      BY DEF IInv, Error
    <2>2. opened = open_in_place(config, workspace)
      BY DEF IInv, Closed
    <2> QED
      BY <2>1, <2>2 DEF open_in_place, Refused, Closed
  <1> QED
    BY <1>1, <1>2, <1>3, <1>4, PTL DEF WSpec, WorkspaceSound
=============================================================================
