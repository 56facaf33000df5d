----------------------------- MODULE MCIoCommon -----------------------------
(* A small instance of IoCommon: five buffers whose sizes make the byte    *)
(* counter, two bits wide, wrap several times.                             *)
EXTENDS IoCommon

MCBufSize == <<3, 2, 3, 1, 2>>

=============================================================================
