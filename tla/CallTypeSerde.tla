---------------------------- MODULE CallTypeSerde ----------------------------
(***************************************************************************)
(* CallType of execution_result.rs and its serde: the variant, and for     *)
(* Call(FarCallOpcode) the opcode written as a u8 by far_call_type_to_u8   *)
(* and read back by far_call_type_from_u8.  A serialised CallType is the   *)
(* variant name, with the number the deserialiser meets for Call: any      *)
(* integer, since u8::deserialize itself rejects one outside 0..255.       *)
(*                                                                         *)
(* This is the part of the call-trace model without recursion, kept apart  *)
(* so that CallTypeSerdeProofs can reason about it.                        *)
(***************************************************************************)
EXTENDS Integers

DeError == [deError |-> TRUE]
FarCallOpcodes == {"Normal", "Delegate", "Mimic"}

(* Result<FarCallOpcode, D::Error>: Ok(o) or DeError. *)
Ok(o) == [ok |-> o]

(* CallType: Call(FarCallOpcode), Create, NearCall. *)
CallTypes ==
  {[kind |-> "Call", opcode |-> o] : o \in FarCallOpcodes}
    \cup {[kind |-> "Create"], [kind |-> "NearCall"]}

(* The serialised CallTypes a deserialiser may meet. *)
WireCallTypes ==
  [kind : {"Call"}, byte : Int] \cup {[kind |-> "Create"], [kind |-> "NearCall"]}

-----------------------------------------------------------------------------
(***************************************************************************)
(* Plausible bugs of the code, each the replacement of one definition      *)
(* below (see PROJECT.json "mutants").                                     *)
(***************************************************************************)
(* The match of far_call_type_from_u8 with the Delegate and Mimic arms
   swapped. *)
FarCallTypeFromU8Swapped(n) ==
  IF n \notin 0..255 THEN DeError
  ELSE CASE n = 0 -> Ok("Normal") [] n = 1 -> Ok("Mimic") [] n = 2 -> Ok("Delegate")
         [] OTHER -> DeError

(* A catch-all arm: every byte above 1 reads as Mimic. *)
FarCallTypeFromU8CatchAll(n) ==
  IF n \notin 0..255 THEN DeError
  ELSE CASE n = 0 -> Ok("Normal") [] n = 1 -> Ok("Delegate") [] OTHER -> Ok("Mimic")

-----------------------------------------------------------------------------
(* `*far_call_type as u8`: the discriminants of FarCallOpcode. *)
FarCallOpcodeAsU8 == [o \in FarCallOpcodes |->
                        CASE o = "Normal" -> 0 [] o = "Delegate" -> 1
                          [] o = "Mimic" -> 2]

(* far_call_type_from_u8: u8::deserialize, then the match on the byte. *)
FarCallTypeFromU8(n) ==
  IF n \notin 0..255 THEN DeError
  ELSE CASE n = 0 -> Ok("Normal") [] n = 1 -> Ok("Delegate") [] n = 2 -> Ok("Mimic")
         [] OTHER -> DeError

(* The derived Serialize of CallType, with far_call_type_to_u8 for Call. *)
SerializeCallType(t) ==
  IF t.kind = "Call" THEN [kind |-> "Call", byte |-> FarCallOpcodeAsU8[t.opcode]]
  ELSE t

(* The derived Deserialize of CallType, with far_call_type_from_u8 for Call. *)
DeserializeCallType(w) ==
  IF w.kind # "Call" THEN w
  ELSE IF FarCallTypeFromU8(w.byte) = DeError THEN DeError
  ELSE [kind |-> "Call", opcode |-> FarCallTypeFromU8(w.byte).ok]

=============================================================================
