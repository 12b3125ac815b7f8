--------------------------- MODULE DriverBackend ---------------------------
(***************************************************************************)
(* The DRIVER backend's buffer slots between the port layer and a hardware *)
(* driver.  The driver hands out memory under opaque tokens; the backend   *)
(* wraps each token in a slot that is the application's spw_buffer_t.      *)
(*   source: src/backends/driver/driver_backend.c, the buffer calls of     *)
(*   src/core/port.c                                                       *)
(*                                                                         *)
(* Calls on one port are serialised and a driver callback runs inside the  *)
(* call, so a call is one step.  The driver is external: a ledger of who   *)
(* has each token; a callback that fails leaves it as it is, and a call    *)
(* that fails without changing anything is no step.  A driver that does    *)
(* not keep its contract may also return any token and descriptors that    *)
(* make no sense.  Copied I/O, time codes, statistics and readiness pass straight  *)
(* through and leave no state here.                                        *)
(***************************************************************************)
EXTENDS Integers

CONSTANTS
    tx_slot_count, rx_slot_count,
    TxToken, RxToken,   \* the driver's buffers
    Failing,            \* the callbacks that may return an error
    MaxEpoch,           \* bound on resets
    Reopens             \* bound on close and open over the same driver

ASSUME DriverAssumption ==
    /\ tx_slot_count \in Nat \ {0} /\ rx_slot_count \in Nat \ {0}
    /\ TxToken \cap RxToken = {} /\ Reopens \in Nat

TxSlot == 1 .. tx_slot_count
RxSlot == tx_slot_count + 1 .. tx_slot_count + rx_slot_count
Slot == TxSlot \cup RxSlot
Token == TxToken \cup RxToken

VARIABLES
    contract,   \* whether the driver keeps its contract; it never changes
    slots,      \* [Slot -> spw_driver_buffer_slot_t]
    port,       \* [locally_started, ownership_epoch, reopens]
    owner,      \* the driver's ledger: who has each token
    synced,     \* tokens synchronised since they were last written
    handles,    \* slots whose handle the application holds, of this epoch
    refused     \* tokens the driver would not take back

vars == <<contract, slots, port, owner, synced, handles, refused>>

-----------------------------------------------------------------------------
(* The driver.  A TX buffer is free, with the application, with the device *)
(* or done; an RX buffer is free, full or with the application.            *)

\* The descriptors acquire and reclaim may return: [token, valid].
Descriptors(tokens, from) ==
    IF contract THEN [token : {t \in tokens : owner[t] = from}, valid : {TRUE}]
    ELSE [token : tokens, valid : BOOLEAN]

\* The ledger after a descriptor is handed out.
Handed(t, from) == IF owner[t] = from THEN [owner EXCEPT ![t] = "application"] ELSE owner

\* Giving back: a driver takes only what it has given out, and may refuse.
Takes(o, t) == o[t] = "application"
Refuses(o, t) == o[t] # "application" \/ "release" \in Failing

Complete == \E t \in TxToken :
    /\ owner[t] = "device" /\ owner' = [owner EXCEPT ![t] = "done"]
    /\ UNCHANGED <<slots, port, synced, handles, refused>>

Fill == \E t \in RxToken :
    /\ owner[t] = "free" /\ owner' = [owner EXCEPT ![t] = "full"]
    /\ synced' = synced \ {t}
    /\ UNCHANGED <<slots, port, handles, refused>>

-----------------------------------------------------------------------------
(* Slots *)

clear_slot == [active |-> FALSE, state |-> "FREE", token |-> "none", epoch |-> 0]
clear_slots == [s \in Slot |-> clear_slot]

find_free_slot(from) == {s \in from : ~slots[s].active /\ \A r \in from : r < s => slots[r].active}

token_in_use(t) == \E s \in Slot : slots[s].active /\ slots[s].token = t

find_tx_slot_for_token(t) ==
    {s \in TxSlot : slots[s].active /\ slots[s].token = t /\ slots[s].state = "BACKEND"}

\* expose_slot, and the epoch the port layer binds the buffer to.
expose_slot(s, t) ==
    /\ slots' = [slots EXCEPT ![s] = [active |-> TRUE, state |-> "APPLICATION", token |-> t,
                                      epoch |-> port.ownership_epoch]]
    /\ handles' = handles \cup {s} /\ refused' = refused \ {t}

application_owned(s) ==
    slots[s].state = "APPLICATION" /\ slots[s].epoch = port.ownership_epoch

\* A descriptor that cannot be exposed goes back; the result is not looked at.
GiveBack(o, t) ==
    /\ \/ Takes(o, t) /\ owner' = [o EXCEPT ![t] = "free"] /\ refused' = refused \ {t}
       \/ Refuses(o, t) /\ owner' = o /\ refused' = refused \cup {t}
    /\ UNCHANGED <<slots, synced, handles>>

-----------------------------------------------------------------------------
(* Calls on the port *)

Started == port.locally_started

\* Mutant: the tokens of the other slots are not looked at.
acquire_any_token ==
    /\ Started
    /\ \E s \in find_free_slot(TxSlot), d \in Descriptors(TxToken, "free") :
         IF d.valid
         THEN owner' = Handed(d.token, "free") /\ expose_slot(s, d.token) /\ UNCHANGED synced
         ELSE GiveBack(Handed(d.token, "free"), d.token)
    /\ UNCHANGED port

driver_acquire_tx_buffer ==
    /\ Started
    /\ \E s \in find_free_slot(TxSlot), d \in Descriptors(TxToken, "free") :
         IF d.valid /\ ~token_in_use(d.token)
         THEN owner' = Handed(d.token, "free") /\ expose_slot(s, d.token) /\ UNCHANGED synced
         ELSE GiveBack(Handed(d.token, "free"), d.token)
    /\ UNCHANGED port

\* The application writes into a TX buffer it holds.
spw_buffer_set_packet == \E s \in handles \cap TxSlot :
    /\ application_owned(s)
    /\ synced' = synced \ {slots[s].token}
    /\ UNCHANGED <<slots, port, owner, handles, refused>>

Submitted(s) ==
    /\ owner' = [owner EXCEPT ![slots[s].token] = "device"]
    /\ slots' = [slots EXCEPT ![s].state = "BACKEND"] /\ handles' = handles \ {s}

\* Mutant: the buffer is the backend's before the driver has agreed.
submit_before_asking == \E s \in handles \cap TxSlot :
    /\ Started /\ application_owned(s)
    /\ \/ "sync" \in Failing /\ UNCHANGED <<slots, owner, synced, handles>>
       \/ /\ synced' = synced \cup {slots[s].token}
          /\ \/ Submitted(s)
             \/ /\ "submit" \in Failing /\ slots' = [slots EXCEPT ![s].state = "BACKEND"]
                /\ UNCHANGED <<owner, handles>>
    /\ UNCHANGED <<port, refused>>

\* Mutant: the buffer is handed over as the application left it.
submit_without_sync == \E s \in handles \cap TxSlot :
    /\ Started /\ application_owned(s) /\ Submitted(s)
    /\ UNCHANGED <<port, synced, refused>>

\* The device gets the buffer once it is synchronised and the driver says so;
\* a failure leaves it with the application.
driver_submit_tx_buffer == \E s \in handles \cap TxSlot :
    /\ Started /\ application_owned(s)
    /\ \/ "sync" \in Failing /\ UNCHANGED <<slots, owner, synced, handles>>
       \/ /\ synced' = synced \cup {slots[s].token}
          /\ \/ Submitted(s)
             \/ "submit" \in Failing /\ UNCHANGED <<slots, owner, handles>>
    /\ UNCHANGED <<port, refused>>

\* A completion of a token no slot is waiting for is dropped: it is neither
\* exposed nor given back.
driver_reclaim_tx_buffer ==
    /\ Started
    /\ \E d \in Descriptors(TxToken, "done") :
         /\ owner' = Handed(d.token, "done")
         /\ IF find_tx_slot_for_token(d.token) = {} \/ ~d.valid
            THEN UNCHANGED <<slots, handles, refused>>
            ELSE \E s \in find_tx_slot_for_token(d.token) : expose_slot(s, d.token)
    /\ UNCHANGED <<port, synced>>

\* The slot is free once the driver has taken the buffer back.
Release(from) == \E s \in handles \cap from :
    /\ application_owned(s)
    /\ \/ /\ Takes(owner, slots[s].token)
          /\ owner' = [owner EXCEPT ![slots[s].token] = "free"]
          /\ slots' = [slots EXCEPT ![s] = clear_slot] /\ handles' = handles \ {s}
       \/ Refuses(owner, slots[s].token) /\ UNCHANGED <<slots, owner, handles>>
    /\ UNCHANGED <<port, synced, refused>>

driver_release_tx_buffer == Release(TxSlot)

driver_release_rx_buffer == Release(RxSlot)

\* Mutant: a buffer that cannot be synchronised is left where it is.
acquire_rx_and_forget ==
    /\ Started
    /\ \E s \in find_free_slot(RxSlot), d \in Descriptors(RxToken, "full") :
         IF ~d.valid \/ token_in_use(d.token) THEN GiveBack(Handed(d.token, "full"), d.token)
         ELSE /\ owner' = Handed(d.token, "full")
              /\ \/ synced' = synced \cup {d.token} /\ expose_slot(s, d.token)
                 \/ "sync" \in Failing /\ UNCHANGED <<slots, synced, handles, refused>>
    /\ UNCHANGED port

\* The application sees a received buffer only after it is synchronised.
driver_acquire_rx_buffer ==
    /\ Started
    /\ \E s \in find_free_slot(RxSlot), d \in Descriptors(RxToken, "full") :
         IF ~d.valid \/ token_in_use(d.token) THEN GiveBack(Handed(d.token, "full"), d.token)
         ELSE \/ /\ owner' = Handed(d.token, "full")
                 /\ synced' = synced \cup {d.token} /\ expose_slot(s, d.token)
              \/ "sync" \in Failing /\ GiveBack(Handed(d.token, "full"), d.token)
    /\ UNCHANGED port

spw_port_start ==
    /\ ~Started /\ port' = [port EXCEPT !.locally_started = TRUE]
    /\ UNCHANGED <<slots, owner, synced, handles, refused>>

spw_port_stop ==
    /\ Started /\ port' = [port EXCEPT !.locally_started = FALSE]
    /\ UNCHANGED <<slots, owner, synced, handles, refused>>

\* The driver's reset takes every buffer back; one that fails changes nothing.
driver_reset ==
    \/ /\ port.ownership_epoch < MaxEpoch
       /\ slots' = clear_slots /\ handles' = {}
       /\ owner' = [t \in Token |-> "free"] /\ synced' = {} /\ refused' = {}
       /\ port' = [port EXCEPT !.locally_started = FALSE, !.ownership_epoch = @ + 1]
    \/ "reset" \in Failing /\ UNCHANGED vars

\* driver_destroy and, over the same driver, driver_construct: the driver is
\* told nothing, its buffers stay wherever they were.  (With a driver that
\* keeps its contract the port is not closed with buffers out.)
Reopen ==
    /\ port.reopens > 0
    /\ slots' = clear_slots /\ handles' = {}
    /\ port' = [locally_started |-> FALSE, ownership_epoch |-> 1, reopens |-> port.reopens - 1]
    /\ UNCHANGED <<owner, synced, refused>>

Init ==
    /\ contract \in BOOLEAN
    /\ slots = clear_slots /\ handles = {} /\ refused = {} /\ synced = {}
    /\ port = [locally_started |-> FALSE, ownership_epoch |-> 1,
               reopens |-> IF contract THEN 0 ELSE Reopens]
    /\ owner = [t \in Token |-> "free"]

Step ==
    \/ Complete \/ Fill \/ driver_acquire_tx_buffer \/ spw_buffer_set_packet
    \/ driver_submit_tx_buffer \/ driver_reclaim_tx_buffer \/ driver_release_tx_buffer
    \/ driver_acquire_rx_buffer \/ driver_release_rx_buffer
    \/ spw_port_start \/ spw_port_stop \/ driver_reset \/ Reopen

Next == Step /\ UNCHANGED contract

Spec == Init /\ [][Next]_vars

-----------------------------------------------------------------------------
(* What the slots promise *)

In(t, state) == \E s \in Slot : slots[s].active /\ slots[s].token = t /\ slots[s].state = state

\* With a driver that keeps its contract, the driver's ledger and the slots
\* agree after every call, failed or not: what the driver has given out is in
\* a slot of the application, what the device has or has finished with is in a
\* slot of the backend, and nothing else is, save what the driver itself would
\* not take back.
LedgersAgree ==
    contract => \A t \in Token :
        /\ In(t, "APPLICATION") <=> owner[t] = "application" /\ t \notin refused
        /\ In(t, "BACKEND") <=> owner[t] \in {"device", "done"}

\* driver.h, with such a driver: TO_DEVICE runs before a TX buffer is the device's, FROM_DEVICE
\* before an RX buffer is the application's, after the last write to it.
SyncedWhenHandedOver ==
    contract => \A t \in Token :
        /\ owner[t] = "device" => t \in synced
        /\ t \in RxToken /\ In(t, "APPLICATION") => t \in synced

\* Whatever the driver returns, even after a close with buffers out, no memory
\* is in two slots: the application never holds two handles of one buffer, or
\* one of a buffer it has submitted.
TokensDistinct ==
    \A s, r \in Slot : s # r /\ slots[s].active /\ slots[r].active => slots[s].token # slots[r].token

\* Whatever the driver returns, the application owns exactly what it holds: a
\* call that fails takes nothing from it, and only reset and close take all.
HandlesOwned == handles = {s \in Slot : application_owned(s)}
=============================================================================
