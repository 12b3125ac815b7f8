-------------------------- MODULE MCDriverBackend --------------------------
(***************************************************************************)
(* Two TX slots over two TX buffers, one RX slot over two RX buffers.      *)
(***************************************************************************)
EXTENDS DriverBackend

Transmit == {"t1", "t2"}
Receive == {"r1", "r2"}
=============================================================================
