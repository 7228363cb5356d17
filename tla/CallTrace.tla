----------------------------- MODULE CallTrace -----------------------------
(***************************************************************************)
(* The VM call trace of execution_result.rs: the recursive Call tree, its  *)
(* derived serde over the CallType codec of CallTypeSerde, and the         *)
(* hand-written PartialEq of Call, which leaves out the three gas fields.  *)
(*                                                                         *)
(* A trace produced by execution is stored in serialised form, or a stored *)
(* trace was written by another writer (an older node, a hand-edited row): *)
(* it is then deserialised and compared with the trace produced.  A wire   *)
(* Call is a Call whose `type` is the serialised CallType: the variant     *)
(* name, and for Call the opcode byte as the number the deserialiser       *)
(* reads (any integer: u8::deserialize itself rejects one outside 0..255). *)
(*                                                                         *)
(* The operators over trees are RECURSIVE: this module is for TLC only.    *)
(***************************************************************************)
EXTENDS CallTypeSerde, Sequences, Functions, TLC

CONSTANTS
  Nodes,          \* the Call nodes (all fields but `calls`) execution may produce
  WireNodes,      \* the wire nodes (all fields but `calls`) a stored trace may hold
  WireBytes,      \* the numbers a stored Call(opcode) may carry
  MaxDepth,       \* bound on the depth of a trace
  MaxWidth        \* bound on the number of subcalls of a call

ASSUME CallTraceAssumption ==
  /\ MaxDepth \in Nat
  /\ MaxWidth \in Nat
  /\ WireBytes \subseteq Int

VARIABLES
  call,      \* the trace execution produced
  wire,      \* the stored, serialised trace, or NoWire
  decoded,   \* the result of deserialising `wire`: NotDecoded, DeError or a Call
  same       \* the result of `call == decoded`: "eq", "ne", or "none" before it

vars == <<call, wire, decoded, same>>

NoWire == [noWire |-> TRUE]
NotDecoded == [notDecoded |-> TRUE]


(* The gas fields Call::eq leaves out. *)
GasFields == {"parent_gas", "gas", "gas_used"}

(* A node with its subcalls. *)
MkCall(n, cs) == n @@ ("calls" :> cs)

(* Sequences of at most MaxWidth elements of S. *)
ShortSeqs(S) == UNION {[1..k -> S] : k \in 0..MaxWidth}

(* The trees of depth at most d over the node set N. *)
TreesUpTo(N) ==
  LET t[d \in 0..MaxDepth] ==
        IF d = 0 THEN {}
        ELSE {MkCall(n, cs) : n \in N, cs \in ShortSeqs(t[d - 1])}
  IN  t[MaxDepth]

Calls == TreesUpTo(Nodes)
WireCalls == TreesUpTo(WireNodes)

-----------------------------------------------------------------------------
(***************************************************************************)
(* Plausible bugs of the code, each the replacement of one definition      *)
(* below (see PROJECT.json "mutants").                                     *)
(***************************************************************************)
(* Call::eq compares the subcalls by number only. *)
CallEqShallow(a, b) ==
  /\ \A f \in DOMAIN a \ (GasFields \cup {"calls"}) : a[f] = b[f]
  /\ Len(a.calls) = Len(b.calls)

-----------------------------------------------------------------------------
(* The derived Serialize of Call: every field as it is, the type through
   SerializeCallType, the subcalls in order. *)
RECURSIVE SerializeCall(_)
SerializeCall(c) ==
  [c EXCEPT !.type = SerializeCallType(c.type),
            !.calls = [i \in DOMAIN c.calls |-> SerializeCall(c.calls[i])]]

(* The derived Deserialize of Call: an error anywhere in the tree is the
   error of the whole. *)
RECURSIVE DeserializeCall(_)
DeserializeCall(w) ==
  LET t == DeserializeCallType(w.type)
      subs == [i \in DOMAIN w.calls |-> DeserializeCall(w.calls[i])]
  IN  IF t = DeError \/ \E i \in DOMAIN subs : subs[i] = DeError THEN DeError
      ELSE [w EXCEPT !.type = t, !.calls = subs]

(* impl PartialEq for Call: every field but parent_gas, gas and gas_used;
   the subcalls by Vec equality, which is Call::eq element by element. *)
RECURSIVE CallEq(_, _)
CallEq(a, b) ==
  /\ a.revert_reason = b.revert_reason
  /\ a.input = b.input
  /\ a.from = b.from
  /\ a.to = b.to
  /\ a.type = b.type
  /\ a.value = b.value
  /\ a.error = b.error
  /\ a.output = b.output
  /\ Len(a.calls) = Len(b.calls)
  /\ \A i \in 1..Len(a.calls) : CallEq(a.calls[i], b.calls[i])

-----------------------------------------------------------------------------
Init ==
  /\ call \in Calls
  /\ wire = NoWire
  /\ decoded = NotDecoded
  /\ same = "none"

(* The trace is stored: serde serialises it. *)
Store ==
  /\ wire = NoWire
  /\ wire' = SerializeCall(call)
  /\ UNCHANGED <<call, decoded, same>>

(* The stored trace was written by another writer. *)
StoreForeign ==
  /\ wire = NoWire
  /\ \E w \in WireCalls : wire' = w
  /\ UNCHANGED <<call, decoded, same>>

(* The stored trace is read back: serde deserialises it. *)
Load ==
  /\ wire # NoWire
  /\ decoded = NotDecoded
  /\ decoded' = DeserializeCall(wire)
  /\ UNCHANGED <<call, wire, same>>

(* The trace produced is compared with the trace read back. *)
Compare ==
  /\ decoded \notin {NotDecoded, DeError}
  /\ same = "none"
  /\ same' = IF CallEq(call, decoded) THEN "eq" ELSE "ne"
  /\ UNCHANGED <<call, wire, decoded>>

Next == Store \/ StoreForeign \/ Load \/ Compare

Spec == Init /\ [][Next]_vars

-----------------------------------------------------------------------------
(* The trace without its gas fields, at every level: what Call::eq is meant
   to compare. *)
RECURSIVE StripGas(_)
StripGas(c) ==
  Restrict(c, DOMAIN c \ (GasFields \cup {"calls"}))
    @@ ("calls" :> [i \in DOMAIN c.calls |-> StripGas(c.calls[i])])

(* The opcode numbers of a wire trace that name no FarCallOpcode. *)
RECURSIVE BadOpcodeBytes(_)
BadOpcodeBytes(w) ==
  LET own == IF w.type.kind = "Call" /\ w.type.byte \notin {0, 1, 2}
             THEN {w.type.byte} ELSE {}
  IN  own \cup UNION {BadOpcodeBytes(w.calls[i]) : i \in DOMAIN w.calls}

(* A stored trace written by this code reads back as exactly the trace
   that was stored, gas fields included, whatever its call types: the
   opcode byte far_call_type_to_u8 writes is the byte
   far_call_type_from_u8 maps back to the same opcode. *)
SerdeRoundTrip ==
  (decoded # NotDecoded /\ wire = SerializeCall(call)) => decoded = call

(* Deserialising a stored trace fails exactly when some Call in it carries
   a number that is no FarCallOpcode (3..255 by the match, anything else by
   u8::deserialize), and an error is recoverable, never a panic; a trace
   that deserialises serialises back to the stored form. *)
DecodeRejectsExactlyBadOpcodes ==
  decoded # NotDecoded =>
    IF BadOpcodeBytes(wire) # {} THEN decoded = DeError
    ELSE decoded # DeError /\ SerializeCall(decoded) = wire

(* Two traces compare equal exactly when they agree on everything but the
   gas fields, at every depth and in the order of the subcalls: traces that
   differ only in gas are equal, and no other difference is ignored. *)
EqIgnoresExactlyGas ==
  same # "none" => (same = "eq" <=> StripGas(call) = StripGas(decoded))

=============================================================================
