---------------------------- MODULE MessageHeader ----------------------------
(***************************************************************************)
(* The header that carries the attributes of a message: MessageBuilder     *)
(* sizes a buffer and writes one record (tag, length, value) per attribute *)
(* into it, MessageParser reads the records back and rebuilds attributes   *)
(* from them.  One step per field sized or added, and per record read.     *)
(*                                                                         *)
(* A cell of the buffer holds a number (a tag, a length, or the zero it    *)
(* was created with) or <<f, i>>, byte i of the value of field f.  Of the  *)
(* cells of a length the first has the whole of it, the others are zero.   *)
(***************************************************************************)
EXTENDS Integers, Sequences

CONSTANTS
  Width,       (* sizeof(size_t)                                           *)
  ValueBytes,  (* how many bytes the value of each fixed-size field takes  *)
  TokenBytes,  (* the lengths of TOKEN to try                              *)
  SinkBytes    (* the lengths of the encoded SINK to try                   *)

TagNames == <<"UURI", "ID", "TYPE", "PRIORITY", "TTL", "TOKEN", "HINT", "SINK",
              "PLEVEL", "COMMSTATUS", "REQID", "PAYLOAD">>
TagOf(f) == CHOOSE n \in 0..11 : TagNames[n + 1] = f

Required == {"ID", "TYPE", "PRIORITY"}
Optional == {"TTL", "TOKEN", "HINT", "SINK", "PLEVEL", "COMMSTATUS", "REQID"}
Int32    == 4    (* sizeof(int32_t) *)

ASSUME WidthPositive == Width \in Nat \ {0}
ASSUME ValuesSized   == ValueBytes \in [(Required \cup Optional) \ {"TOKEN", "SINK"} -> Nat]
ASSUME Int32Fields   == ValueBytes["PLEVEL"] = Int32 /\ ValueBytes["COMMSTATUS"] = Int32
ASSUME LengthsSized  == TokenBytes \cup SinkBytes \subseteq Nat

(* Mutant: calculateSize() forgets REQID. *)
SizedOrderShort == <<"ID", "TYPE", "PRIORITY", "TTL", "TOKEN", "HINT", "SINK", "PLEVEL", "COMMSTATUS">>

(* The fields calculateSize() looks at, in the order it does. *)
SizedOrder == <<"ID", "TYPE", "PRIORITY", "TTL", "TOKEN", "HINT", "SINK",
                "PLEVEL", "COMMSTATUS", "REQID">>

(* Mutant: buildHeader() forgets TOKEN as it forgets SINK. *)
AddedOrderShort == <<"ID", "TYPE", "PRIORITY", "TTL", "HINT", "PLEVEL", "COMMSTATUS", "REQID">>

(* The fields buildHeader() adds: SINK is sized and never added. *)
AddedOrder == <<"ID", "TYPE", "PRIORITY", "TTL", "TOKEN", "HINT", "PLEVEL", "COMMSTATUS", "REQID">>

VARIABLES
  attributes,  (* the fields set, each with the length of its value        *)
  phase,
  next,        (* which field of the order the builder looks at            *)
  messageSize,
  message,     (* the buffer                                               *)
  pos,         (* the position the builder writes at, or the parser reads  *)
  umap,        (* the records read so far                                  *)
  parsed,      (* the attributes rebuilt, or Nullopt                       *)
  overread     (* the parser has read past the end of the buffer           *)

vars == <<attributes, phase, next, messageSize, message, pos, umap, parsed, overread>>

Fields  == DOMAIN attributes
Nullopt == [nullopt |-> TRUE]
ValueOf(f) == [i \in 1..attributes[f] |-> <<f, i>>]

Init ==
  /\ \E some \in SUBSET Optional, token \in TokenBytes, sink \in SinkBytes :
       attributes = [f \in Required \cup some |->
                       IF f = "TOKEN" THEN token ELSE IF f = "SINK" THEN sink ELSE ValueBytes[f]]
  /\ phase = "size"
  /\ next = 1
  /\ messageSize = 0
  /\ message = <<>>
  /\ pos = 0
  /\ umap = <<>>
  /\ parsed = Nullopt
  /\ overread = FALSE

-----------------------------------------------------------------------------
(* buildHeader() *)

(* What the record of a field takes: a field that is not set has none.     *)
Bytes(f) == IF f \in Fields THEN 1 + Width + attributes[f] ELSE 0

UpdateSize ==
  /\ phase = "size" /\ next <= Len(SizedOrder)
  /\ messageSize' = messageSize + Bytes(SizedOrder[next])
  /\ next' = next + 1
  /\ UNCHANGED <<attributes, phase, message, pos, umap, parsed, overread>>

(* Mutant: the buffer gets one byte more than was counted. *)
SizeAndOne == messageSize + 1

BufferSize == messageSize

CreateBuffer ==
  /\ phase = "size" /\ next > Len(SizedOrder)
  /\ message' = [i \in 1..BufferSize |-> 0]
  /\ phase' = "add"
  /\ next' = 1
  /\ UNCHANGED <<attributes, messageSize, pos, umap, parsed, overread>>

(* A size_t in memory. *)
SizeBytes(n) == [i \in 1..Width |-> IF i = 1 THEN n ELSE 0]
Record(f)    == <<TagOf(f)>> \o SizeBytes(attributes[f]) \o ValueOf(f)

AddTag ==
  LET f      == AddedOrder[next]
      record == IF f \in Fields THEN Record(f) ELSE <<>>
  IN
  /\ phase = "add" /\ next <= Len(AddedOrder)
  /\ message' = [i \in DOMAIN message |->
                   IF i - pos \in DOMAIN record THEN record[i - pos] ELSE message[i]]
  /\ pos' = pos + Len(record)
  /\ next' = next + 1
  /\ UNCHANGED <<attributes, phase, messageSize, umap, parsed, overread>>

(* The header goes out as the attachment of a message and is parsed there. *)
Receive ==
  /\ phase = "add" /\ next > Len(AddedOrder)
  /\ phase' = "parse"
  /\ pos' = 0
  /\ UNCHANGED <<attributes, next, messageSize, message, umap, parsed, overread>>

-----------------------------------------------------------------------------
(* getAllTlv() and getAttributes() *)

Size        == Len(message)
LengthAt(p) == message[p + 1]
Cell(p)     == IF p < Size THEN message[p + 1] ELSE "unknown"
IsValidTag(tag) == tag \in 0..11

(* The length is copied out before the check that it lies in the buffer,   *)
(* and the value without one.                                              *)
ReadRecord ==
  LET tag   == message[pos + 1]
      start == pos + 1 + Width
  IN
  /\ phase = "parse" /\ Size > pos
  /\ \/ /\ ~IsValidTag(tag) \/ Size < start
        /\ overread' = (overread \/ IsValidTag(tag))
        /\ phase' = "done"
        /\ UNCHANGED <<pos, umap>>
     \/ /\ IsValidTag(tag) /\ Size >= start
        /\ pos' = start + LengthAt(pos + 1)
        /\ overread' = (overread \/ Size < pos')
        /\ umap' = [n \in DOMAIN umap \cup {tag} |->
                      IF n = tag THEN [i \in 1..(pos' - start) |-> Cell(start + i - 1)] ELSE umap[n]]
        /\ UNCHANGED phase
  /\ UNCHANGED <<attributes, next, messageSize, message, parsed>>

Has(f)  == TagOf(f) \in DOMAIN umap
Tlv(f)  == umap[TagOf(f)]
AsInt32(value) == SubSeq(value, 1, Int32)

(* Mutant: COMMSTATUS and TTL are rebuilt only when PLEVEL is there too. *)
RebuiltNested == {g \in {"TTL", "PLEVEL", "COMMSTATUS"} : Has(g) /\ Has("PLEVEL")}

(* The optional fields the parser knows, of those that were there. *)
Rebuilt == {g \in {"TTL", "PLEVEL", "COMMSTATUS"} : Has(g)}

(* TTL takes its value from the record of ID.                              *)
GetAttributes ==
  /\ phase = "parse" /\ Size <= pos
  /\ phase' = "done"
  /\ parsed' = IF \E f \in Required : ~Has(f) THEN Nullopt ELSE
       [f \in Required \cup Rebuilt |->
          IF f = "TTL" THEN AsInt32(Tlv("ID"))
          ELSE IF f \in Required THEN Tlv(f) ELSE AsInt32(Tlv(f))]
  /\ UNCHANGED <<attributes, next, messageSize, message, pos, umap, overread>>

Done == phase = "done" /\ UNCHANGED vars

Next == UpdateSize \/ CreateBuffer \/ AddTag \/ Receive \/ ReadRecord \/ GetAttributes \/ Done

Spec == Init /\ [][Next]_vars

-----------------------------------------------------------------------------
(* Properties *)

TypeOK ==
  /\ Required \subseteq Fields /\ Fields \subseteq Required \cup Optional
  /\ phase \in {"size", "add", "parse", "done"}
  /\ next \in 1..(Len(SizedOrder) + 1)
  /\ messageSize \in Nat /\ pos \in Nat
  /\ Size \in {0, messageSize}
  /\ DOMAIN umap \subseteq 0..11
  /\ parsed = Nullopt \/ Required \subseteq DOMAIN parsed
  /\ overread \in BOOLEAN

(* Two functions walk the attributes, one to size the buffer and one to    *)
(* fill it: no addTag() writes past the end, whichever attributes are set. *)
WritesInBounds == phase = "add" => pos <= Size

(* Without a sink the records fill the buffer, and no zeros are left that  *)
(* the parser would take for records.                                      *)
HeaderFilled == phase = "add" /\ next > Len(AddedOrder) /\ "SINK" \notin Fields => pos = Size

(* Without a sink the parser, which trusts the lengths it finds, never     *)
(* reads past the end of a header that buildHeader() built.                *)
ReadsInBounds == "SINK" \notin Fields => ~overread

(* Without a sink the receiver has the attributes the sender set, of those *)
(* the parser knows; of TTL only that it is set, for its value is lost.    *)
RoundTrip ==
  phase = "done" /\ "SINK" \notin Fields =>
    /\ parsed # Nullopt
    /\ DOMAIN parsed = Required \cup ({"TTL", "PLEVEL", "COMMSTATUS"} \cap Fields)
    /\ \A f \in DOMAIN parsed \ {"TTL"} : parsed[f] = ValueOf(f)

(* buildHeader() "returns a header ready to be sent" (messageBuilder.h:48), *)
(* which the parser accepts, unless there is a sink and the zeros left in  *)
(* its place are no whole number of empty records.                         *)
SinkDecides ==
  phase = "done" =>
    (parsed = Nullopt <=> "SINK" \in Fields /\ attributes["SINK"] % (1 + Width) # 0)

==============================================================================
