--------------------------- MODULE PacketAssembly ---------------------------
(***************************************************************************)
(* What reassembly promises, without words, masks or byte loops: at most   *)
(* one message is being put together, each of its bytes is the first one   *)
(* received for its place, and the message is complete when every place    *)
(* is filled and both its first and its last fragment have been seen.      *)
(* docs/vspw-tp.md, section DATA.                                          *)
(***************************************************************************)
EXTENDS Integers

CONSTANTS Fragment,     \* the fragments that may arrive
          Room          \* bytes of the largest message

VARIABLES message,      \* what identifies the message, or NoMessage
          bytes,        \* the bytes received, a partial function of the place
          ends,         \* which of START and END have been seen
          outcome       \* of the last fragment

avars == <<message, bytes, ends, outcome>>

NoMessage == <<>>
Empty == [p \in {} |-> 0]
Both == {"FRAGMENT_START", "FRAGMENT_END"}

Identity(f) == <<f.message_id, f.total_size, f.flags \cap {"EOP", "EEP"},
                 "ACK_REQUIRED" \in f.flags>>
Places(f) == f.fragment_offset .. f.fragment_offset + f.payload_size - 1

WellFormed(f) ==
    /\ f.type = "DATA" /\ f.message_id # 0
    /\ f.total_size \in 1 .. Room /\ f.payload_size # f.total_size
    /\ f.fragment_offset + f.payload_size <= f.total_size

Fits(f) ==
    /\ message \in {NoMessage, Identity(f)}
    /\ \A p \in Places(f) \cap DOMAIN bytes : bytes[p] = f.content[p]

AInit == message = NoMessage /\ bytes = Empty /\ ends = {} /\ outcome = "none"

Ignore(f) ==
    /\ ~WellFormed(f) /\ outcome' = "INVALID"
    /\ UNCHANGED <<message, bytes, ends>>

\* A fragment that contradicts the message in progress changes nothing.
Reject(f) ==
    /\ WellFormed(f) /\ ~Fits(f) /\ outcome' = "CONFLICT"
    /\ UNCHANGED <<message, bytes, ends>>

Take(f) ==
    /\ WellFormed(f) /\ Fits(f)
    /\ message' = Identity(f)
    /\ bytes' = [p \in DOMAIN bytes \cup Places(f) |->
                    IF p \in DOMAIN bytes THEN bytes[p] ELSE f.content[p]]
    /\ ends' = ends \cup (f.flags \cap Both)
    /\ outcome' =
         IF DOMAIN bytes' = 0 .. f.total_size - 1 /\ ends' = Both
         THEN "COMPLETE"
         ELSE IF DOMAIN bytes' = DOMAIN bytes THEN "DUPLICATE" ELSE "ACCEPTED"

Forget == message' = NoMessage /\ bytes' = Empty /\ ends' = {} /\ outcome' = "none"

ANext == Forget \/ \E f \in Fragment : Ignore(f) \/ Reject(f) \/ Take(f)

ASpec == AInit /\ [][ANext]_avars
=============================================================================
