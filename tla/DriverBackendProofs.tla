------------------------ MODULE DriverBackendProofs ------------------------
(***************************************************************************)
(* The slot properties of DriverBackend for any number of slots, any set   *)
(* of buffers, any failing callbacks.  SlotInv carries what holds whatever *)
(* the driver returns; LedgerInv adds what a driver that keeps its         *)
(* contract, and a port not reopened over it, make true.                   *)
(***************************************************************************)
EXTENDS DriverBackend, TLAPS

Owner == {"free", "application", "device", "done", "full"}
SlotRecord == [active : BOOLEAN, state : {"FREE", "APPLICATION", "BACKEND"},
               token : Token \cup {"none"}, epoch : Nat]

TypeOK ==
    /\ slots \in [Slot -> SlotRecord]
    /\ port \in [locally_started : BOOLEAN, ownership_epoch : Nat, reopens : Nat]
    /\ owner \in [Token -> Owner]
    /\ synced \subseteq Token /\ handles \subseteq Slot /\ refused \subseteq Token
    /\ \A s \in Slot : (slots[s].active <=> slots[s].state # "FREE")
                       /\ (slots[s].active => slots[s].token \in Token)

SlotInv == TypeOK /\ TokensDistinct /\ HandlesOwned

\* A slot holds buffers of its own direction, and a received one is never the
\* backend's.
Directions ==
    /\ \A s \in TxSlot : slots[s].active => slots[s].token \in TxToken
    /\ \A s \in RxSlot : slots[s].active => slots[s].token \in RxToken /\ slots[s].state = "APPLICATION"

\* The tokens in a slot of the application, and of the backend.
App == {t \in Token : In(t, "APPLICATION")}
Back == {t \in Token : In(t, "BACKEND")}

LedgerInv ==
    /\ SlotInv /\ LedgersAgree /\ SyncedWhenHandedOver /\ Directions
    /\ port.reopens = 0
    /\ \A t \in refused : owner[t] = "application"
    /\ \A t \in TxToken : owner[t] # "full"

-----------------------------------------------------------------------------
(* Facts about the operators *)

\* Both directions have slots, and no slot or buffer is of both.
LEMMA SlotFacts ==
    /\ TxSlot \subseteq Slot /\ RxSlot \subseteq Slot /\ TxSlot \cap RxSlot = {}
    /\ TxToken \subseteq Token /\ RxToken \subseteq Token /\ TxToken \cap RxToken = {}
BY DriverAssumption DEF TxSlot, RxSlot, Slot, Token

\* Cleared slots hold nothing (clear_slots).
LEMMA Cleared ==
    /\ clear_slots \in [Slot -> SlotRecord]
    /\ \A s \in Slot : clear_slots[s].active = FALSE /\ clear_slots[s].state = "FREE"
BY DEF clear_slots, clear_slot, SlotRecord

\* The token of a descriptor is one of those asked for; a driver that keeps
\* its contract returns valid descriptors of tokens in the right hands.
LEMMA DescriptorFacts ==
    ASSUME NEW tokens, NEW from, NEW d \in Descriptors(tokens, from)
    PROVE  /\ d.token \in tokens
           /\ contract => owner[d.token] = from /\ d.valid
BY Zenon DEF Descriptors

\* Handing out a token changes the ledger at that token at most.
LEMMA HandedFacts ==
    ASSUME NEW t \in Token, NEW from \in Owner, owner \in [Token -> Owner]
    PROVE  /\ Handed(t, from) \in [Token -> Owner]
           /\ owner[t] = from => Handed(t, from) = [owner EXCEPT ![t] = "application"]
BY DEF Handed, Owner

\* A slot that is exposed holds the token it is given, for the application in
\* the current epoch, and no other slot changes (expose_slot).
LEMMA Exposed ==
    ASSUME TypeOK, NEW s \in Slot, NEW t \in Token, expose_slot(s, t)
    PROVE  /\ slots' \in [Slot -> SlotRecord]
           /\ slots'[s].active /\ slots'[s].state = "APPLICATION" /\ slots'[s].token = t
           /\ slots'[s].epoch = port.ownership_epoch
           /\ \A r \in Slot : r # s => slots'[r] = slots[r]
           /\ handles' = handles \cup {s} /\ refused' = refused \ {t}
BY DEF expose_slot, TypeOK, SlotRecord

\* A descriptor that goes back leaves the slots alone (GiveBack).
LEMMA GivenBack ==
    ASSUME NEW STATE o, o \in [Token -> Owner], NEW t \in Token, refused \subseteq Token,
           GiveBack(o, t)
    PROVE  /\ owner' \in [Token -> Owner] /\ refused' \subseteq Token
           /\ slots' = slots /\ handles' = handles /\ synced' = synced
           /\ \/ /\ o[t] = "application" /\ owner' = [o EXCEPT ![t] = "free"]
                 /\ refused' = refused \ {t}
              \/ owner' = o /\ refused' = refused \cup {t}
BY DEF GiveBack, Takes, Refuses, Owner

-----------------------------------------------------------------------------
(* Whatever the driver returns *)

\* A step that touches neither slots, handles nor the epoch keeps SlotInv.
LEMMA SlotsKept ==
    ASSUME SlotInv, slots' = slots, handles' = handles,
           owner' \in [Token -> Owner], synced' \subseteq Token, refused' \subseteq Token,
           port' \in [locally_started : BOOLEAN, ownership_epoch : Nat, reopens : Nat],
           port'.ownership_epoch = port.ownership_epoch
    PROVE  SlotInv'
<1>1. TypeOK'
  BY DEF SlotInv, TypeOK
<1>2. TokensDistinct'
  BY DEF SlotInv, TokensDistinct
<1>3. HandlesOwned'
  BY DEF SlotInv, HandlesOwned, application_owned
<1> QED
  BY <1>1, <1>2, <1>3 DEF SlotInv

\* Exposing a token that no other slot holds keeps SlotInv.
LEMMA SlotExposed ==
    ASSUME SlotInv, NEW s \in Slot, NEW t \in Token, expose_slot(s, t),
           \A r \in Slot : r # s /\ slots[r].active => slots[r].token # t,
           owner' \in [Token -> Owner], synced' \subseteq Token, port' = port
    PROVE  SlotInv'
<1>1. TypeOK
  BY DEF SlotInv
<1>2. TypeOK'
  BY <1>1, Exposed DEF TypeOK
<1>3. TokensDistinct'
  BY <1>1, Exposed DEF SlotInv, TokensDistinct
<1>4. HandlesOwned'
  BY <1>1, Exposed DEF SlotInv, HandlesOwned, application_owned
<1> QED
  BY <1>2, <1>3, <1>4 DEF SlotInv

\* Clearing every slot and dropping every handle keeps SlotInv.
LEMMA SlotsCleared ==
    ASSUME SlotInv, slots' = clear_slots, handles' = {},
           owner' \in [Token -> Owner], synced' \subseteq Token, refused' \subseteq Token,
           port' \in [locally_started : BOOLEAN, ownership_epoch : Nat, reopens : Nat]
    PROVE  SlotInv'
<1>1. TypeOK'
  BY Cleared DEF TypeOK
<1>2. TokensDistinct'
  BY Cleared DEF TokensDistinct
<1>3. HandlesOwned'
  BY Cleared DEF HandlesOwned, application_owned
<1> QED
  BY <1>1, <1>2, <1>3 DEF SlotInv

\* One slot leaves the application's hands, for the backend or to be free.
LEMMA SlotLeft ==
    ASSUME SlotInv, NEW s \in Slot, slots[s].state = "APPLICATION",
           \/ slots' = [slots EXCEPT ![s].state = "BACKEND"]
           \/ slots' = [slots EXCEPT ![s] = clear_slot],
           handles' = handles \ {s}, owner' \in [Token -> Owner], synced' \subseteq Token,
           refused' = refused, port' = port
    PROVE  SlotInv'
<1>0. slots \in [Slot -> SlotRecord] /\ slots[s] \in SlotRecord
  BY DEF SlotInv, TypeOK
<1>a. clear_slot \in SlotRecord /\ clear_slot.active = FALSE /\ clear_slot.state = "FREE"
  BY DEF clear_slot, SlotRecord
<1>b. PICK new \in SlotRecord :
        /\ slots' = [slots EXCEPT ![s] = new]
        /\ \/ new.active = slots[s].active /\ new.state = "BACKEND" /\ new.token = slots[s].token
           \/ new.active = FALSE /\ new.state = "FREE"
  <2>1. CASE slots' = [slots EXCEPT ![s] = clear_slot]
    BY <2>1, <1>a, Zenon
  <2>2. CASE slots' = [slots EXCEPT ![s].state = "BACKEND"]
    <3> DEFINE new == [slots[s] EXCEPT !.state = "BACKEND"]
    <3>1. new \in SlotRecord /\ new.active = slots[s].active /\ new.state = "BACKEND"
            /\ new.token = slots[s].token
      BY <1>0 DEF SlotRecord
    <3>2. slots' = [slots EXCEPT ![s] = new]
      BY <2>2
    <3> QED
      BY <3>1, <3>2, Zenon
  <2> QED
    BY <2>1, <2>2, Zenon
<1>1. slots' \in [Slot -> SlotRecord]
  BY <1>0, <1>b
<1>2. /\ \A r \in Slot : r # s => slots'[r] = slots[r]
      /\ \/ slots'[s].active = slots[s].active /\ slots'[s].state = "BACKEND"
            /\ slots'[s].token = slots[s].token
         \/ slots'[s].active = FALSE /\ slots'[s].state = "FREE"
  BY <1>0, <1>b
<1>3. TypeOK'
  BY <1>1, <1>2 DEF SlotInv, TypeOK
<1>4. TokensDistinct'
  BY <1>1, <1>2 DEF SlotInv, TypeOK, TokensDistinct
<1>5. HandlesOwned'
  BY <1>2 DEF SlotInv, HandlesOwned, application_owned
<1> QED
  BY <1>3, <1>4, <1>5 DEF SlotInv

\* No call, and nothing the driver does, breaks SlotInv.
LEMMA SlotStep == SlotInv /\ [Next]_vars => SlotInv'
<1> SUFFICES ASSUME SlotInv, [Next]_vars PROVE SlotInv'
  OBVIOUS
<1>t. TypeOK /\ owner \in [Token -> Owner] /\ synced \subseteq Token /\ refused \subseteq Token
      /\ handles \subseteq Slot
      /\ port \in [locally_started : BOOLEAN, ownership_epoch : Nat, reopens : Nat]
  BY DEF SlotInv, TypeOK
<1>h. \A s \in handles : s \in Slot /\ slots[s].state = "APPLICATION" /\ slots[s].token \in Token
  BY DEF SlotInv, TypeOK, HandlesOwned, application_owned
<1>o. {"free", "application", "device", "done", "full"} = Owner
  BY DEF Owner
<1>1. CASE Complete
  BY <1>1, <1>t, <1>o, SlotsKept, Zenon DEF Complete
<1>2. CASE Fill
  BY <1>2, <1>t, <1>o, SlotsKept, Zenon DEF Fill
<1>3. CASE driver_acquire_tx_buffer
  <2>1. PICK s \in find_free_slot(TxSlot), d \in Descriptors(TxToken, "free") :
          IF d.valid /\ ~token_in_use(d.token)
          THEN owner' = Handed(d.token, "free") /\ expose_slot(s, d.token) /\ UNCHANGED synced
          ELSE GiveBack(Handed(d.token, "free"), d.token)
    BY <1>3 DEF driver_acquire_tx_buffer
  <2>2. s \in Slot /\ d.token \in Token /\ port' = port
    BY <1>3, SlotFacts, DescriptorFacts DEF driver_acquire_tx_buffer, find_free_slot
  <2>3. Handed(d.token, "free") \in [Token -> Owner]
    BY <1>t, <1>o, <2>2, HandedFacts
  <2>4. CASE d.valid /\ ~token_in_use(d.token)
    BY <1>t, <2>1, <2>2, <2>3, <2>4, SlotExposed DEF token_in_use
  <2>5. CASE ~(d.valid /\ ~token_in_use(d.token))
    <3>1. GiveBack(Handed(d.token, "free"), d.token)
      BY <2>1, <2>5
    <3> QED
      BY <1>t, <2>2, <2>3, <3>1, GivenBack, SlotsKept
  <2> QED
    BY <2>4, <2>5
<1>4. CASE spw_buffer_set_packet
  BY <1>4, <1>t, SlotsKept DEF spw_buffer_set_packet
<1>5. CASE driver_submit_tx_buffer
  <2>1. PICK s \in handles \cap TxSlot :
          \/ UNCHANGED <<slots, owner, synced, handles>>
          \/ /\ synced' = synced \cup {slots[s].token}
             /\ Submitted(s) \/ UNCHANGED <<slots, owner, handles>>
    BY <1>5 DEF driver_submit_tx_buffer
  <2>2. port' = port /\ refused' = refused
    BY <1>5 DEF driver_submit_tx_buffer
  <2>3. CASE UNCHANGED <<slots, owner, handles>>
    <3>1. synced' \subseteq Token
      BY <1>t, <1>h, <2>1
    <3> QED
      BY <1>t, <2>2, <2>3, <3>1, SlotsKept
  <2>4. CASE synced' = synced \cup {slots[s].token} /\ Submitted(s)
    <3>1. /\ owner' \in [Token -> Owner] /\ synced' \subseteq Token /\ handles' = handles \ {s}
          /\ slots' = [slots EXCEPT ![s].state = "BACKEND"]
      BY <1>t, <1>h, <1>o, <2>4 DEF Submitted
    <3> QED
      BY <1>t, <1>h, <2>2, <3>1, SlotLeft, Zenon
  <2> QED
    BY <2>1, <2>3, <2>4
<1>6. CASE driver_reclaim_tx_buffer
  <2>1. PICK d \in Descriptors(TxToken, "done") :
          /\ owner' = Handed(d.token, "done")
          /\ \/ UNCHANGED <<slots, handles, refused>>
             \/ \E s \in find_tx_slot_for_token(d.token) : expose_slot(s, d.token)
    BY <1>6 DEF driver_reclaim_tx_buffer
  <2>2. d.token \in Token /\ port' = port /\ synced' = synced
    BY <1>6, SlotFacts, DescriptorFacts DEF driver_reclaim_tx_buffer
  <2>3. owner' \in [Token -> Owner]
    BY <1>t, <1>o, <2>1, <2>2, HandedFacts
  <2>4. CASE UNCHANGED <<slots, handles, refused>>
    BY <1>t, <2>2, <2>3, <2>4, SlotsKept
  <2>5. CASE \E s \in find_tx_slot_for_token(d.token) : expose_slot(s, d.token)
    <3>1. PICK s \in find_tx_slot_for_token(d.token) : expose_slot(s, d.token)
      BY <2>5
    <3>2. s \in Slot /\ slots[s].active /\ slots[s].token = d.token
      BY <3>1, SlotFacts DEF find_tx_slot_for_token
    <3>3. \A r \in Slot : r # s /\ slots[r].active => slots[r].token # d.token
      BY <3>2 DEF SlotInv, TokensDistinct
    <3> QED
      BY <1>t, <2>2, <2>3, <3>1, <3>2, <3>3, SlotExposed
  <2> QED
    BY <2>1, <2>4, <2>5
<1>7. ASSUME NEW from, Release(from) PROVE SlotInv'
  <2>1. PICK s \in handles \cap from :
          \/ /\ owner' = [owner EXCEPT ![slots[s].token] = "free"]
             /\ slots' = [slots EXCEPT ![s] = clear_slot] /\ handles' = handles \ {s}
          \/ UNCHANGED <<slots, owner, handles>>
    BY <1>7 DEF Release
  <2>2. port' = port /\ refused' = refused /\ synced' = synced
    BY <1>7 DEF Release
  <2>3. CASE UNCHANGED <<slots, owner, handles>>
    BY <1>t, <2>2, <2>3, SlotsKept
  <2>4. CASE /\ owner' = [owner EXCEPT ![slots[s].token] = "free"]
             /\ slots' = [slots EXCEPT ![s] = clear_slot] /\ handles' = handles \ {s}
    <3>1. owner' \in [Token -> Owner]
      BY <1>t, <1>o, <2>4, Zenon
    <3> QED
      BY <1>t, <1>h, <2>2, <2>4, <3>1, SlotLeft, Zenon
  <2> QED
    BY <2>1, <2>3, <2>4
<1>8. CASE driver_acquire_rx_buffer
  <2>1. PICK s \in find_free_slot(RxSlot), d \in Descriptors(RxToken, "full") :
          \/ GiveBack(Handed(d.token, "full"), d.token)
          \/ /\ ~token_in_use(d.token) /\ owner' = Handed(d.token, "full")
             /\ synced' = synced \cup {d.token} /\ expose_slot(s, d.token)
    BY <1>8 DEF driver_acquire_rx_buffer
  <2>2. s \in Slot /\ d.token \in Token /\ port' = port
    BY <1>8, SlotFacts, DescriptorFacts DEF driver_acquire_rx_buffer, find_free_slot
  <2>3. Handed(d.token, "full") \in [Token -> Owner]
    BY <1>t, <1>o, <2>2, HandedFacts
  <2>4. CASE GiveBack(Handed(d.token, "full"), d.token)
    BY <1>t, <2>2, <2>3, <2>4, GivenBack, SlotsKept
  <2>5. CASE /\ ~token_in_use(d.token) /\ owner' = Handed(d.token, "full")
             /\ synced' = synced \cup {d.token} /\ expose_slot(s, d.token)
    BY <1>t, <2>2, <2>3, <2>5, SlotExposed DEF token_in_use
  <2> QED
    BY <2>1, <2>4, <2>5
<1>9. CASE spw_port_start \/ spw_port_stop
  BY <1>9, <1>t, SlotsKept, Zenon DEF spw_port_start, spw_port_stop
<1>10. CASE driver_reset
  <2>1. CASE UNCHANGED vars
    BY <1>t, <2>1, SlotsKept DEF vars
  <2>2. CASE ~UNCHANGED vars
    <3>1. /\ slots' = clear_slots /\ handles' = {} /\ synced' = {} /\ refused' = {}
          /\ owner' = [t \in Token |-> "free"]
          /\ port' = [port EXCEPT !.locally_started = FALSE, !.ownership_epoch = @ + 1]
      BY <1>10, <2>2 DEF driver_reset
    <3>2. owner' \in [Token -> Owner]
      BY <1>o, <3>1
    <3>3. port' \in [locally_started : BOOLEAN, ownership_epoch : Nat, reopens : Nat]
      <4>1. port.ownership_epoch + 1 \in Nat
        BY <1>t
      <4>2. port' = [locally_started |-> FALSE, ownership_epoch |-> port.ownership_epoch + 1,
                     reopens |-> port.reopens]
        BY <1>t, <3>1, Zenon
      <4> QED
        BY <1>t, <4>1, <4>2
    <3> QED
      BY <3>1, <3>2, <3>3, SlotsCleared
  <2> QED
    BY <2>1, <2>2
<1>11. CASE Reopen
  BY <1>11, <1>t, SlotsCleared DEF Reopen
<1>12. CASE UNCHANGED vars
  BY <1>12, <1>t, SlotsKept DEF vars
<1> QED
  BY <1>1, <1>2, <1>3, <1>4, <1>5, <1>6, <1>7, <1>8, <1>9, <1>10, <1>11, <1>12
  DEF Next, Step, driver_release_tx_buffer, driver_release_rx_buffer

\* A port that has just been built satisfies the slot invariant.
LEMMA SlotInit == Init => SlotInv
<1> SUFFICES ASSUME Init PROVE SlotInv
  OBVIOUS
<1>1. TypeOK
  BY Cleared, DriverAssumption DEF Init, TypeOK, Owner
<1>2. TokensDistinct
  BY Cleared DEF Init, TokensDistinct
<1>3. HandlesOwned
  BY Cleared DEF Init, HandlesOwned, application_owned
<1> QED
  BY <1>1, <1>2, <1>3 DEF SlotInv

\* The slot invariant holds throughout: SlotInit and the step lemmas combined.
LEMMA SlotInvariant == Spec => []SlotInv
BY SlotInit, SlotStep, PTL DEF Spec

\* Whatever a driver returns, no buffer is in two slots (token_in_use and
\* find_tx_slot_for_token decide what is exposed).
THEOREM NoBufferTwice == Spec => []TokensDistinct
<1>1. SlotInv => TokensDistinct
  BY DEF SlotInv
<1> QED
  BY <1>1, SlotInvariant, PTL

\* Whatever a driver returns, the application owns exactly the buffers whose
\* handles it holds: failed calls take nothing (driver_submit_tx_buffer and
\* the releases).
THEOREM FailuresTakeNothing == Spec => []HandlesOwned
<1>1. SlotInv => HandlesOwned
  BY DEF SlotInv
<1> QED
  BY <1>1, SlotInvariant, PTL

-----------------------------------------------------------------------------
(* With a driver that keeps its contract *)

\* The ledger properties in terms of App and Back.
LEMMA LedgerFacts ==
    ASSUME contract, LedgerInv, NEW u \in Token
    PROVE  /\ u \in App <=> owner[u] = "application" /\ u \notin refused
           /\ u \in Back <=> owner[u] \in {"device", "done"}
           /\ owner[u] = "device" => u \in synced
           /\ u \in RxToken /\ u \in App => u \in synced
           /\ u \in refused => owner[u] = "application"
           /\ u \in TxToken => owner[u] # "full"
BY DEF LedgerInv, LedgersAgree, SyncedWhenHandedOver, App, Back

\* Exposing a token moves that token to the application, and no other.
LEMMA InExposed ==
    ASSUME SlotInv, NEW s \in Slot, NEW t \in Token, expose_slot(s, t),
           \A r \in Slot : r # s /\ slots[r].active => slots[r].token # t,
           slots[s].active => slots[s].token = t
    PROVE  App' = App \cup {t} /\ Back' = Back \ {t}
<1>1. TypeOK
  BY DEF SlotInv
<1>2. /\ slots'[s].active /\ slots'[s].state = "APPLICATION" /\ slots'[s].token = t
      /\ \A r \in Slot : r # s => slots'[r] = slots[r]
  BY <1>1, Exposed
<1>3. App' = App \cup {t}
  BY <1>2 DEF App, In
<1>4. Back' = Back \ {t}
  BY <1>2 DEF Back, In
<1> QED
  BY <1>3, <1>4

\* A slot that leaves the application's hands takes its token along, and no
\* other.
LEMMA InLeft ==
    ASSUME SlotInv, NEW s \in Slot, slots[s].active, NEW new, NEW t \in Token,
           t = slots[s].token, slots' = [slots EXCEPT ![s] = new],
           \/ new.active /\ new.state = "BACKEND" /\ new.token = t
           \/ ~new.active
    PROVE  App' = App \ {t} /\ Back' = IF new.active THEN Back \cup {t} ELSE Back \ {t}
<1>1. /\ slots \in [Slot -> SlotRecord]
      /\ \A r \in Slot : r # s /\ slots[r].active => slots[r].token # t
  BY DEF SlotInv, TypeOK, TokensDistinct
<1>2. slots'[s] = new /\ \A r \in Slot : r # s => slots'[r] = slots[r]
  BY <1>1
<1>3. App' = App \ {t}
  BY <1>1, <1>2 DEF App, In
<1>4. Back' = IF new.active THEN Back \cup {t} ELSE Back \ {t}
  BY <1>1, <1>2 DEF Back, In
<1> QED
  BY <1>3, <1>4

\* A step that concerns one token keeps LedgerInv when the token's own ledger
\* and slots agree afterwards.
LEMMA LedgerAt ==
    ASSUME contract, LedgerInv, SlotInv', Directions', port'.reopens = 0, NEW t \in Token,
           \A u \in Token \ {t} :
               /\ owner'[u] = owner[u]
               /\ u \in refused' <=> u \in refused
               /\ u \in synced' <=> u \in synced
               /\ u \in App' <=> u \in App
               /\ u \in Back' <=> u \in Back,
           t \in App' <=> owner'[t] = "application" /\ t \notin refused',
           t \in Back' <=> owner'[t] \in {"device", "done"},
           owner'[t] = "device" => t \in synced',
           t \in RxToken /\ t \in App' => t \in synced',
           t \in refused' => owner'[t] = "application",
           t \in TxToken => owner'[t] # "full"
    PROVE  LedgerInv'
<1>0. \A u \in Token : /\ u \in App' <=> owner'[u] = "application" /\ u \notin refused'
                       /\ u \in Back' <=> owner'[u] \in {"device", "done"}
                       /\ owner'[u] = "device" => u \in synced'
                       /\ u \in RxToken /\ u \in App' => u \in synced'
                       /\ u \in refused' => owner'[u] = "application"
                       /\ u \in TxToken => owner'[u] # "full"
  BY LedgerFacts
<1>1. LedgersAgree'
  BY <1>0 DEF LedgersAgree, App, Back
<1>2. SyncedWhenHandedOver'
  BY <1>0 DEF SyncedWhenHandedOver, App
<1>3. \A u \in refused' : owner'[u] = "application"
  BY <1>0 DEF SlotInv, TypeOK
<1>4. \A u \in TxToken : owner'[u] # "full"
  BY <1>0, SlotFacts
<1> QED
  BY <1>1, <1>2, <1>3, <1>4 DEF LedgerInv

\* A token the driver calls free or full is in no slot.
LEMMA NotInUse ==
    ASSUME contract, LedgerInv, NEW t \in Token, owner[t] \in {"free", "full"}
    PROVE  ~token_in_use(t) /\ t \notin App /\ t \notin Back /\ t \notin refused
<1>1. t \notin App /\ t \notin Back /\ t \notin refused
  BY LedgerFacts
<1>2. \A s \in Slot : slots[s].active => slots[s].state \in {"APPLICATION", "BACKEND"}
  BY DEF LedgerInv, SlotInv, TypeOK, SlotRecord
<1> QED
  BY <1>1, <1>2 DEF token_in_use, App, Back, In

\* A step that at most synchronises keeps LedgerInv.
LEMMA LedgerKept ==
    ASSUME contract, LedgerInv, SlotInv', port'.reopens = 0, slots' = slots, owner' = owner,
           refused' = refused, synced \subseteq synced'
    PROVE  LedgerInv'
<1>1. LedgersAgree'
  BY DEF LedgerInv, LedgersAgree, In
<1>2. SyncedWhenHandedOver'
  BY DEF LedgerInv, SyncedWhenHandedOver, In
<1>3. Directions'
  BY DEF LedgerInv, Directions
<1> QED
  BY <1>1, <1>2, <1>3 DEF LedgerInv

\* No call breaks LedgerInv when the driver keeps its contract.
LEMMA LedgerStep ==
    ASSUME contract, LedgerInv, [Next]_vars PROVE LedgerInv'
<1>s. SlotInv /\ SlotInv' /\ port.reopens = 0
  BY SlotStep DEF LedgerInv
<1>t. TypeOK /\ owner \in [Token -> Owner] /\ synced \subseteq Token /\ refused \subseteq Token
      /\ handles \subseteq Slot /\ slots \in [Slot -> SlotRecord]
  BY <1>s DEF SlotInv, TypeOK
<1>h. \A s \in handles : /\ s \in Slot /\ slots[s].active /\ slots[s].token \in Token
                         /\ slots[s].state = "APPLICATION" /\ slots[s].token \in App
                         /\ owner[slots[s].token] = "application" /\ slots[s].token \notin refused
  <2>1. \A s \in handles : s \in Slot /\ slots[s].state = "APPLICATION"
    BY <1>s DEF SlotInv, HandlesOwned, application_owned
  <2>2. \A s \in handles : slots[s].active /\ slots[s].token \in Token
    BY <2>1, <1>s DEF SlotInv, TypeOK
  <2>3. \A s \in handles : slots[s].token \in App
    BY <2>1, <2>2 DEF App, In
  <2> QED
    BY <2>1, <2>2, <2>3, LedgerFacts
<1>d. Directions /\ (slots' = slots => Directions')
  BY DEF LedgerInv, Directions
<1>k. slots' = slots => App' = App /\ Back' = Back
  BY DEF App, Back, In
<1>1. CASE Complete
  <2>1. PICK t \in TxToken : owner[t] = "device" /\ owner' = [owner EXCEPT ![t] = "done"]
    BY <1>1, Zenon DEF Complete
  <2>2. UNCHANGED <<slots, port, synced, handles, refused>>
    BY <1>1 DEF Complete
  <2>3. t \in Token /\ owner'[t] = "done" /\ \A u \in Token \ {t} : owner'[u] = owner[u]
    BY <1>t, <2>1, SlotFacts
  <2>4. App' = App /\ Back' = Back
    BY <1>k, <2>2
  <2>5. Directions' /\ port'.reopens = 0 /\ refused' = refused /\ synced' = synced
    BY <1>s, <1>d, <2>2
  <2> QED
    BY <1>s, LedgerFacts, <2>1, <2>3, <2>4, <2>5, LedgerAt
<1>2. CASE Fill
  <2>1. PICK t \in RxToken : /\ owner[t] = "free" /\ owner' = [owner EXCEPT ![t] = "full"]
                             /\ synced' = synced \ {t}
    BY <1>2, Zenon DEF Fill
  <2>2. UNCHANGED <<slots, port, handles, refused>>
    BY <1>2 DEF Fill
  <2>3. t \in Token /\ t \notin TxToken /\ owner'[t] = "full"
        /\ \A u \in Token \ {t} : owner'[u] = owner[u]
    BY <1>t, <2>1, SlotFacts
  <2>4. App' = App /\ Back' = Back
    BY <1>k, <2>2
  <2>5. Directions' /\ port'.reopens = 0 /\ refused' = refused
    BY <1>s, <1>d, <2>2
  <2> QED
    BY <1>s, LedgerFacts, <2>1, <2>3, <2>4, <2>5, LedgerAt
<1>3. CASE driver_acquire_tx_buffer
  <2>1. PICK s \in find_free_slot(TxSlot), d \in Descriptors(TxToken, "free") :
          IF d.valid /\ ~token_in_use(d.token)
          THEN owner' = Handed(d.token, "free") /\ expose_slot(s, d.token) /\ UNCHANGED synced
          ELSE GiveBack(Handed(d.token, "free"), d.token)
    BY <1>3 DEF driver_acquire_tx_buffer
  <2> DEFINE t == d.token
  <2>2. /\ s \in TxSlot /\ s \in Slot /\ ~slots[s].active /\ port' = port
        /\ t \in TxToken /\ t \in Token /\ t \notin RxToken /\ d.valid /\ owner[t] = "free"
    BY <1>3, SlotFacts, DescriptorFacts DEF driver_acquire_tx_buffer, find_free_slot
  <2>3. ~token_in_use(t) /\ t \notin refused
    BY <2>2, NotInUse
  <2>4. /\ owner' = [owner EXCEPT ![t] = "application"] /\ expose_slot(s, t) /\ synced' = synced
    BY <1>t, <2>1, <2>2, <2>3, HandedFacts DEF Owner
  <2>5. owner'[t] = "application" /\ \A u \in Token \ {t} : owner'[u] = owner[u]
    BY <1>t, <2>2, <2>4
  <2>6. refused' = refused \ {t}
    BY <2>4 DEF expose_slot
  <2>7. \A r \in Slot : r # s /\ slots[r].active => slots[r].token # t
    BY <2>3 DEF token_in_use
  <2>8. Directions'
    <3>1. slots'[s].token = t /\ \A r \in Slot : r # s => slots'[r] = slots[r]
      BY <1>t, <2>2, <2>4, Exposed
    <3> QED
      BY <1>d, <2>2, <3>1, SlotFacts DEF Directions
  <2>9. App' = App \cup {t} /\ Back' = Back \ {t}
    BY <1>s, <2>2, <2>4, <2>7, InExposed
  <2> HIDE DEF t
  <2> QED
    BY <1>s, <2>2, <2>3, <2>4, <2>5, <2>6, <2>8, <2>9, LedgerAt
<1>4. CASE spw_buffer_set_packet
  <2>1. PICK s \in handles \cap TxSlot : synced' = synced \ {slots[s].token}
    BY <1>4 DEF spw_buffer_set_packet
  <2>2. UNCHANGED <<slots, port, owner, handles, refused>>
    BY <1>4 DEF spw_buffer_set_packet
  <2>3. PICK t : t = slots[s].token
    OBVIOUS
  <2>4. t \in Token /\ owner[t] = "application" /\ t \notin RxToken
    BY <1>h, <1>d, <2>1, <2>3, SlotFacts DEF Directions
  <2>5. synced' = synced \ {t}
    BY <2>1, <2>3
  <2>6. App' = App /\ Back' = Back
    BY <1>k, <2>2
  <2>7. Directions' /\ port'.reopens = 0 /\ refused' = refused /\ owner' = owner
    BY <1>s, <1>d, <2>2
  <2> QED
    BY <1>s, LedgerFacts, <2>4, <2>5, <2>6, <2>7, LedgerAt
<1>5. CASE driver_submit_tx_buffer
  <2>1. PICK s \in handles \cap TxSlot :
          \/ UNCHANGED <<slots, owner, synced, handles>>
          \/ /\ synced' = synced \cup {slots[s].token}
             /\ Submitted(s) \/ UNCHANGED <<slots, owner, handles>>
    BY <1>5 DEF driver_submit_tx_buffer
  <2>2. port' = port /\ refused' = refused
    BY <1>5 DEF driver_submit_tx_buffer
  <2>3. CASE UNCHANGED <<slots, owner, handles>>
    BY <1>s, <2>1, <2>2, <2>3, LedgerKept
  <2>4. CASE synced' = synced \cup {slots[s].token} /\ Submitted(s)
    <3> DEFINE new == [slots[s] EXCEPT !.state = "BACKEND"]
    <3>0. PICK t : t = slots[s].token
      OBVIOUS
    <3>1. /\ s \in Slot /\ s \in TxSlot /\ slots[s].active /\ t \in Token /\ t \in TxToken
          /\ t \notin refused /\ slots[s] \in SlotRecord
      BY <1>h, <1>d, <1>t, <2>1, <3>0, SlotFacts DEF Directions
    <3>2. new.active /\ new.state = "BACKEND" /\ new.token = t
      BY <3>0, <3>1 DEF SlotRecord
    <3>3. slots' = [slots EXCEPT ![s] = new] /\ owner' = [owner EXCEPT ![t] = "device"]
      BY <2>4, <3>0 DEF Submitted
    <3>4. owner'[t] = "device" /\ \A u \in Token \ {t} : owner'[u] = owner[u]
      BY <1>t, <3>1, <3>3
    <3>5. synced' = synced \cup {t}
      BY <2>4, <3>0
    <3> HIDE DEF new
    <3>6. Directions'
      BY <1>d, <1>t, <3>1, <3>2, <3>3, SlotFacts DEF Directions
    <3>7. App' = App \ {t} /\ Back' = Back \cup {t}
      BY <1>s, <3>0, <3>1, <3>2, <3>3, InLeft, Zenon
    <3> QED
      BY <1>s, <2>2, <3>1, <3>4, <3>5, <3>6, <3>7, LedgerAt
  <2> QED
    BY <2>1, <2>3, <2>4
<1>6. CASE driver_reclaim_tx_buffer
  <2>1. PICK d \in Descriptors(TxToken, "done") :
          /\ owner' = Handed(d.token, "done")
          /\ IF find_tx_slot_for_token(d.token) = {} \/ ~d.valid
             THEN UNCHANGED <<slots, handles, refused>>
             ELSE \E s \in find_tx_slot_for_token(d.token) : expose_slot(s, d.token)
    BY <1>6 DEF driver_reclaim_tx_buffer
  <2> DEFINE t == d.token
  <2>2. /\ port' = port /\ synced' = synced
        /\ t \in TxToken /\ t \in Token /\ t \notin RxToken /\ d.valid /\ owner[t] = "done"
    BY <1>6, SlotFacts, DescriptorFacts DEF driver_reclaim_tx_buffer
  <2>3. t \in Back /\ t \notin refused
    BY LedgerFacts, <2>2
  <2>4. find_tx_slot_for_token(t) # {}
    <3>1. PICK r \in Slot : slots[r].active /\ slots[r].token = t /\ slots[r].state = "BACKEND"
      BY <2>3 DEF Back, In
    <3>2. r \in TxSlot
      BY <1>d, <3>1 DEF Directions, Slot
    <3> QED
      BY <3>1, <3>2 DEF find_tx_slot_for_token
  <2>5. PICK s \in find_tx_slot_for_token(t) : expose_slot(s, t)
    BY <2>1, <2>2, <2>4
  <2>6. s \in TxSlot /\ s \in Slot /\ slots[s].active /\ slots[s].token = t
    BY <2>5, SlotFacts DEF find_tx_slot_for_token
  <2>7. owner' = [owner EXCEPT ![t] = "application"] /\ refused' = refused \ {t}
    BY <1>t, <2>1, <2>2, <2>5, HandedFacts, Zenon DEF Owner, expose_slot
  <2>8. owner'[t] = "application" /\ \A u \in Token \ {t} : owner'[u] = owner[u]
    BY <1>t, <2>2, <2>7
  <2>9. \A r \in Slot : r # s /\ slots[r].active => slots[r].token # t
    BY <1>s, <2>6 DEF SlotInv, TokensDistinct
  <2>10. Directions'
    <3>1. slots'[s].token = t /\ \A r \in Slot : r # s => slots'[r] = slots[r]
      BY <1>t, <2>2, <2>5, <2>6, Exposed
    <3> QED
      BY <1>d, <2>2, <2>6, <3>1, SlotFacts DEF Directions
  <2>11. App' = App \cup {t} /\ Back' = Back \ {t}
    BY <1>s, <2>2, <2>5, <2>6, <2>9, InExposed
  <2> HIDE DEF t
  <2> QED
    BY <1>s, <2>2, <2>7, <2>8, <2>10, <2>11, LedgerAt
<1>7. ASSUME NEW from, Release(from) PROVE LedgerInv'
  <2>1. PICK s \in handles \cap from :
          \/ /\ owner' = [owner EXCEPT ![slots[s].token] = "free"]
             /\ slots' = [slots EXCEPT ![s] = clear_slot]
          \/ UNCHANGED <<slots, owner, handles>>
    BY <1>7 DEF Release
  <2>2. port' = port /\ refused' = refused /\ synced' = synced
    BY <1>7 DEF Release
  <2>3. CASE UNCHANGED <<slots, owner, handles>>
    BY <1>s, <2>2, <2>3, LedgerKept
  <2>4. CASE /\ owner' = [owner EXCEPT ![slots[s].token] = "free"]
             /\ slots' = [slots EXCEPT ![s] = clear_slot]
    <3>0. PICK t : t = slots[s].token
      OBVIOUS
    <3>1. s \in Slot /\ slots[s].active /\ t \in Token /\ t \notin refused
      BY <1>h, <2>1, <3>0
    <3>2. owner'[t] = "free" /\ \A u \in Token \ {t} : owner'[u] = owner[u]
      BY <1>t, <2>4, <3>0, <3>1
    <3>3. clear_slot.active = FALSE
      BY DEF clear_slot
    <3>4. Directions'
      BY <1>d, <1>t, <2>4, <3>1, <3>3, SlotFacts DEF Directions
    <3>5. App' = App \ {t} /\ Back' = Back \ {t}
      BY <1>s, <2>4, <3>0, <3>1, <3>3, InLeft, Zenon
    <3> QED
      BY <1>s, <2>2, <3>1, <3>2, <3>4, <3>5, LedgerAt
  <2> QED
    BY <2>1, <2>3, <2>4
<1>8. CASE driver_acquire_rx_buffer
  <2>1. PICK s \in find_free_slot(RxSlot), d \in Descriptors(RxToken, "full") :
          \/ (~d.valid \/ token_in_use(d.token)) /\ GiveBack(Handed(d.token, "full"), d.token)
          \/ GiveBack(Handed(d.token, "full"), d.token)
          \/ /\ owner' = Handed(d.token, "full") /\ synced' = synced \cup {d.token}
             /\ expose_slot(s, d.token)
    BY <1>8 DEF driver_acquire_rx_buffer
  <2> DEFINE t == d.token
             handed == [owner EXCEPT ![t] = "application"]
  <2>2. /\ s \in RxSlot /\ s \in Slot /\ ~slots[s].active /\ port' = port
        /\ t \in RxToken /\ t \in Token /\ t \notin TxToken /\ owner[t] = "full"
    BY <1>8, SlotFacts, DescriptorFacts DEF driver_acquire_rx_buffer, find_free_slot
  <2>3. ~token_in_use(t) /\ t \notin App /\ t \notin Back /\ t \notin refused
    BY <2>2, NotInUse
  <2>4. Handed(t, "full") = handed /\ handed \in [Token -> Owner] /\ handed[t] = "application"
        /\ \A u \in Token \ {t} : handed[u] = owner[u]
    BY <1>t, <2>2, HandedFacts, Zenon DEF Owner
  <2>5. CASE GiveBack(handed, t)
    <3>1. /\ slots' = slots /\ synced' = synced
          /\ \/ owner' = [handed EXCEPT ![t] = "free"] /\ refused' = refused \ {t}
             \/ owner' = handed /\ refused' = refused \cup {t}
      <4> HIDE DEF handed, t
      <4> QED
        BY <1>t, <2>2, <2>4, <2>5, GivenBack
    <3>2. /\ \/ owner'[t] = "free" /\ t \notin refused'
             \/ owner'[t] = "application" /\ t \in refused'
          /\ \A u \in Token \ {t} : owner'[u] = owner[u] /\ (u \in refused' <=> u \in refused)
      <4> HIDE DEF handed, t
      <4> QED
        BY <2>2, <2>4, <3>1
    <3> HIDE DEF t, handed
    <3>3. App' = App /\ Back' = Back
      BY <1>k, <2>2, <3>1
    <3>4. Directions' /\ port'.reopens = 0 /\ synced' = synced
      BY <1>s, <1>d, <2>2, <3>1
    <3> QED
      BY <1>s, <2>2, <2>3, <3>2, <3>3, <3>4, LedgerAt
  <2>6. CASE owner' = handed /\ synced' = synced \cup {t} /\ expose_slot(s, t)
    <3>1. refused' = refused \ {t}
      BY <2>6 DEF expose_slot
    <3>2. \A r \in Slot : r # s /\ slots[r].active => slots[r].token # t
      BY <2>3 DEF token_in_use
    <3>3. Directions'
      <4>1. /\ slots'[s].token = t /\ slots'[s].state = "APPLICATION"
            /\ \A r \in Slot : r # s => slots'[r] = slots[r]
        BY <1>t, <2>2, <2>6, Exposed
      <4> QED
        BY <1>d, <2>2, <4>1, SlotFacts DEF Directions
    <3>4. App' = App \cup {t} /\ Back' = Back \ {t}
      BY <1>s, <2>2, <2>6, <3>2, InExposed
    <3> HIDE DEF t, handed
    <3> QED
      BY <1>s, <2>2, <2>4, <2>6, <3>1, <3>3, <3>4, LedgerAt
  <2> QED
    BY <2>1, <2>4, <2>5, <2>6, Zenon
<1>9. CASE spw_port_start \/ spw_port_stop
  <2>1. UNCHANGED <<slots, owner, synced, refused>> /\ port'.reopens = 0
    BY <1>9, <1>s, <1>t DEF spw_port_start, spw_port_stop, TypeOK
  <2> QED
    BY <1>s, <2>1, LedgerKept
<1>10. CASE driver_reset
  <2>1. CASE UNCHANGED vars
    BY <1>s, <2>1, LedgerKept DEF vars
  <2>2. CASE ~UNCHANGED vars
    <3>1. /\ slots' = clear_slots /\ refused' = {} /\ owner' = [t \in Token |-> "free"]
          /\ port' = [port EXCEPT !.locally_started = FALSE, !.ownership_epoch = @ + 1]
      BY <1>10, <2>2 DEF driver_reset
    <3>2. port'.reopens = 0
      BY <1>s, <1>t, <3>1 DEF TypeOK
    <3>3. \A s \in Slot : slots'[s].active = FALSE
      BY <3>1, Cleared
    <3>4. LedgersAgree'
      BY <3>1, <3>3 DEF LedgersAgree, In
    <3>5. SyncedWhenHandedOver'
      BY <3>1, <3>3 DEF SyncedWhenHandedOver, In
    <3>6. Directions'
      BY <3>3, SlotFacts DEF Directions
    <3> QED
      BY <1>s, <3>1, <3>2, <3>4, <3>5, <3>6, SlotFacts DEF LedgerInv
  <2> QED
    BY <2>1, <2>2
<1>11. CASE Reopen
  BY <1>11, <1>s DEF Reopen
<1>12. CASE UNCHANGED vars
  BY <1>12, <1>s, LedgerKept DEF vars
<1> QED
  BY <1>1, <1>2, <1>3, <1>4, <1>5, <1>6, <1>7, <1>8, <1>9, <1>10, <1>11, <1>12, Zenon
  DEF Next, Step, driver_release_tx_buffer, driver_release_rx_buffer

\* A freshly built port owes nothing and its driver holds every buffer.
LEMMA LedgerInit == Init => (contract => LedgerInv)
<1> SUFFICES ASSUME Init, contract PROVE LedgerInv
  OBVIOUS
<1>1. \A s \in Slot : slots[s].active = FALSE
  BY Cleared DEF Init
<1>2. LedgersAgree /\ SyncedWhenHandedOver
  BY <1>1 DEF Init, LedgersAgree, SyncedWhenHandedOver, In
<1>3. Directions
  BY <1>1, SlotFacts DEF Directions
<1> QED
  BY <1>2, <1>3, SlotInit, SlotFacts DEF LedgerInv, Init

\* With a driver that keeps its contract and is not reopened with buffers out,
\* the driver's ledger and the slots agree after every call, whichever
\* callbacks fail.
THEOREM NothingLeaks ==
    Spec => []LedgersAgree
<1> DEFINE Inv == contract => LedgerInv
<1>1. Init => Inv
  BY LedgerInit
<1>2. Inv /\ [Next]_vars => Inv'
  <2> SUFFICES ASSUME Inv, [Next]_vars, contract' PROVE LedgerInv'
    OBVIOUS
  <2>1. contract
    BY Zenon DEF Next, vars
  <2> QED
    BY <2>1, LedgerStep
<1>3. Inv => LedgersAgree
  BY DEF LedgerInv, LedgersAgree
<1> HIDE DEF Inv
<1> QED
  BY <1>1, <1>2, <1>3, PTL DEF Spec

\* With such a driver no buffer changes hands unsynchronised.
THEOREM SyncBeforeHandover ==
    Spec => []SyncedWhenHandedOver
<1> DEFINE Inv == contract => LedgerInv
<1>1. Init => Inv
  BY LedgerInit
<1>2. Inv /\ [Next]_vars => Inv'
  <2> SUFFICES ASSUME Inv, [Next]_vars, contract' PROVE LedgerInv'
    OBVIOUS
  <2>1. contract
    BY Zenon DEF Next, vars
  <2> QED
    BY <2>1, LedgerStep
<1>3. Inv => SyncedWhenHandedOver
  BY DEF LedgerInv, SyncedWhenHandedOver
<1> HIDE DEF Inv
<1> QED
  BY <1>1, <1>2, <1>3, PTL DEF Spec
=============================================================================
