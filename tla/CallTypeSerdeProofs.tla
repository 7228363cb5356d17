------------------------- MODULE CallTypeSerdeProofs -------------------------
(***************************************************************************)
(* Proofs about the CallType codec: what the `call_trace` run checks of    *)
(* every node of a stored trace, for every CallType and every number a     *)
(* stored Call may carry.  The run checks the same of whole trees; the     *)
(* tree operators are RECURSIVE and stay with TLC.                         *)
(***************************************************************************)
EXTENDS CallTypeSerde, TLAPS

(* What far_call_type_from_u8 returns: an opcode for 0, 1 and 2, an error
   for every other integer. *)
LEMMA FromU8Cases ==
  ASSUME NEW n \in Int
  PROVE  /\ n = 0 => FarCallTypeFromU8(n) = Ok("Normal")
         /\ n = 1 => FarCallTypeFromU8(n) = Ok("Delegate")
         /\ n = 2 => FarCallTypeFromU8(n) = Ok("Mimic")
         /\ n \notin {0, 1, 2} => FarCallTypeFromU8(n) = DeError
BY DEF FarCallTypeFromU8

(* An Ok result is never the error. *)
LEMMA OkIsNoError ==
  ASSUME NEW o
  PROVE  Ok(o) # DeError
BY DEF Ok, DeError

(* The byte far_call_type_to_u8 writes for an opcode is the byte
   far_call_type_from_u8 reads back as that opcode. *)
LEMMA OpcodeRoundTrip ==
  ASSUME NEW o \in FarCallOpcodes
  PROVE  FarCallTypeFromU8(FarCallOpcodeAsU8[o]) = Ok(o)
<1>1. FarCallOpcodeAsU8[o] \in {0, 1, 2}
  BY DEF FarCallOpcodeAsU8, FarCallOpcodes
<1> QED
  BY <1>1, FromU8Cases DEF FarCallOpcodeAsU8, FarCallOpcodes

(* Every CallType reads back as itself after serde has written it. *)
THEOREM CallTypeRoundTrip ==
  \A t \in CallTypes : DeserializeCallType(SerializeCallType(t)) = t
<1> SUFFICES ASSUME NEW t \in CallTypes
             PROVE  DeserializeCallType(SerializeCallType(t)) = t
  OBVIOUS
<1>1. CASE t.kind = "Call"
  <2>1. PICK o \in FarCallOpcodes : t = [kind |-> "Call", opcode |-> o]
    BY <1>1 DEF CallTypes
  <2>2. SerializeCallType(t) = [kind |-> "Call", byte |-> FarCallOpcodeAsU8[o]]
    BY <2>1 DEF SerializeCallType
  <2>3. FarCallTypeFromU8(FarCallOpcodeAsU8[o]) = Ok(o)
    BY OpcodeRoundTrip
  <2> QED
    BY <2>1, <2>2, <2>3, OkIsNoError DEF DeserializeCallType, Ok
<1>2. CASE t.kind # "Call"
  BY <1>2 DEF SerializeCallType, DeserializeCallType
<1> QED
  BY <1>1, <1>2

(* Reading a serialised CallType fails, with an error and not a panic,
   exactly when it is a Call whose number is no FarCallOpcode; what reads
   back is a CallType, which serde writes back as the stored form. *)
THEOREM CallTypeDecodeExact ==
  \A w \in WireCallTypes :
    /\ DeserializeCallType(w) = DeError <=> (w.kind = "Call" /\ w.byte \notin {0, 1, 2})
    /\ DeserializeCallType(w) # DeError =>
         /\ DeserializeCallType(w) \in CallTypes
         /\ SerializeCallType(DeserializeCallType(w)) = w
<1> SUFFICES ASSUME NEW w \in WireCallTypes
             PROVE  /\ DeserializeCallType(w) = DeError
                         <=> (w.kind = "Call" /\ w.byte \notin {0, 1, 2})
                    /\ DeserializeCallType(w) # DeError =>
                         /\ DeserializeCallType(w) \in CallTypes
                         /\ SerializeCallType(DeserializeCallType(w)) = w
  OBVIOUS
<1>1. CASE w.kind = "Call" /\ w.byte \notin {0, 1, 2}
  <2>1. w.byte \in Int
    BY <1>1 DEF WireCallTypes
  <2> QED
    BY <1>1, <2>1, FromU8Cases DEF DeserializeCallType
<1>2. CASE w.kind = "Call" /\ w.byte \in {0, 1, 2}
  <2>1. w = [kind |-> "Call", byte |-> w.byte]
    BY <1>2 DEF WireCallTypes
  <2>2. PICK o \in FarCallOpcodes : FarCallTypeFromU8(w.byte) = Ok(o)
                                   /\ FarCallOpcodeAsU8[o] = w.byte
    BY <1>2, FromU8Cases DEF FarCallOpcodes, FarCallOpcodeAsU8
  <2>3. DeserializeCallType(w) = [kind |-> "Call", opcode |-> o]
    BY <1>2, <2>2, OkIsNoError DEF DeserializeCallType, Ok
  <2>4. [kind |-> "Call", opcode |-> o] \in CallTypes
    BY DEF CallTypes
  <2>5. [kind |-> "Call", opcode |-> o] # DeError
    BY DEF DeError
  <2> QED
    BY <1>2, <2>1, <2>2, <2>3, <2>4, <2>5 DEF SerializeCallType
<1>3. CASE w.kind # "Call"
  <2>1. w \in {[kind |-> "Create"], [kind |-> "NearCall"]}
    BY <1>3 DEF WireCallTypes
  <2> QED
    BY <1>3, <2>1 DEF DeserializeCallType, SerializeCallType, CallTypes, DeError
<1> QED
  BY <1>1, <1>2, <1>3

=============================================================================
