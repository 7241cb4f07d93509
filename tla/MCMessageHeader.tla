-------------------------- MODULE MCMessageHeader --------------------------
(***************************************************************************)
(* Model checking of MessageHeader with the sizes of a 64-bit build: a     *)
(* UUID takes 16 bytes, an enumeration or an int32_t four.                 *)
(***************************************************************************)
EXTENDS MessageHeader

Sizes == [f \in (Required \cup Optional) \ {"TOKEN", "SINK"} |->
            IF f \in {"ID", "REQID"} THEN 16 ELSE 4]
=============================================================================
