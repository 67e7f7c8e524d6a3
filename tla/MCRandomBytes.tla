--------------------------- MODULE MCRandomBytes ---------------------------
(***************************************************************************)
(* RandomBytes on two threads and short buffers, with the driver linked in *)
(* or left out.                                                            *)
(***************************************************************************)
EXTENDS RandomBytes

\* A rejected request, one byte, and a buffer that several reads may fill.
MCLengths == {0, 2}

\* One caller whose requests are all of one byte.
OneByte == {1}
=============================================================================
