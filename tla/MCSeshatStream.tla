--------------------------- MODULE MCSeshatStream ---------------------------
(***************************************************************************)
(* Files of up to five bytes of plain text, read in buffers that are       *)
(* smaller, as large and larger than the data and the MAC.                 *)
(***************************************************************************)
EXTENDS SeshatStream

MCReadSizes == {1, 2, 4, 7}
=============================================================================
