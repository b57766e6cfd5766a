--------------------------- MODULE MCZoneCrypto ---------------------------
(* Small instances of ZoneCrypto for TLC. *)
EXTENDS ZoneCrypto
=============================================================================
