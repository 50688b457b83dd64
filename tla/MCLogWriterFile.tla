--------------------------- MODULE MCLogWriterFile ---------------------------
(* Buffers of LogWriterFile for TLC: small enough to wrap around and to    *)
(* fill up, with a chunk of two bytes for the full log.                    *)
EXTENDS LogWriterFile

Sizes  == [t \in Types |-> IF t = "full" THEN 3 ELSE 2]
Chunks == [t \in Types |-> IF t = "full" THEN 2 ELSE 1]
=============================================================================
