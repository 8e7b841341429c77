------------------------------- MODULE MCCodec -------------------------------
(***************************************************************************)
(* Codec at the sizes of the code, with body lengths around every boundary *)
(* of the length bytes and of the buffer.                                  *)
(***************************************************************************)
EXTENDS Codec

MCBodyLens == {0, 1, 255, 256, 257, 511, 1023, 1024, 1025, 65536, 65537}
MCUnsetBytes == {0, 2, 255}
=============================================================================
