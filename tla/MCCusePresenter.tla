-------------------------- MODULE MCCusePresenter --------------------------
(***************************************************************************)
(* spwcuse with queues of one or two entries and a few calls.              *)
(***************************************************************************)
EXTENDS CusePresenter, SequencesExt

Record(type, eep, n) ==
    [framed |-> TRUE, type |-> type, eep |-> eep, payload_size |-> n, given |-> n, legal |-> TRUE]

Packet == Record("DATA", FALSE, 8)
Empty == Record("DATA", TRUE, 0)
TimeCode == Record("TIME_CODE", FALSE, 2)

ShortAndLong == {VSPW_CUSE_RECORD_HEADER_SIZE + 2, VSPW_CUSE_RECORD_HEADER_SIZE + 8}

\* A legal record, and one wrong in a way each stage of the validation finds.
Written == {Empty, [Packet EXCEPT !.given = 4], [TimeCode EXCEPT !.legal = FALSE]}

PacketAndCode == <<Packet, TimeCode>>

-----------------------------------------------------------------------------
Returned ==
    LET full == SelectSeq(FlattenSeq(answers), LAMBDA a : Len(a) = 2)
    IN  [i \in DOMAIN full |-> full[i][2]]
OfType(records, t) == SelectSeq(records, LAMBDA r : r.type = t)

\* A record leaves the device whole, once and in order: while the daemon stays,
\* what reads have had, what is queued, what the port holds and what is still
\* to come is what was sent here, whatever short buffers, refusals and releases
\* lie between.  (Records are lost when malloc fails.)
RecordsInOrder ==
    broker.at # "joined" /\ bounds.faults = Faults =>
        \A t \in {"DATA", "TIME_CODE"} :
            OfType(Returned \o state.records \o port.packets \o port.time_codes
                     \o port.coming, t) = OfType(Arriving, t)
=============================================================================
