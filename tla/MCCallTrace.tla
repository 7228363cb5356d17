---------------------------- MODULE MCCallTrace ----------------------------
(* A TLC instance of CallTrace: traces of depth 2 whose root has at most two
   subcalls, over nodes that differ from a base node in one field each.  A
   stored trace may differ from the produced one in any single field that
   Call::eq compares or ignores, at the root or in a subcall. *)
EXTENDS CallTrace

CONSTANTS Caller, Callee, NoReason, Reason1

(* The base node: a Normal far call, no error, no revert reason. *)
BaseNode ==
  [type |-> [kind |-> "Call", opcode |-> "Normal"], from |-> Caller,
   to |-> Callee, parent_gas |-> 2, gas |-> 2, gas_used |-> 1, value |-> 0,
   input |-> <<>>, output |-> <<>>, error |-> NoReason,
   revert_reason |-> NoReason]

(* Each call type, a node that differs in every gas field and one that
   differs in its revert reason. *)
MCNodes ==
  {[BaseNode EXCEPT !.type = t] : t \in CallTypes}
    \cup {[BaseNode EXCEPT !.parent_gas = 3, !.gas = 3, !.gas_used = 0],
          [BaseNode EXCEPT !.revert_reason = Reason1]}

(* Nodes that differ from the base node in one compared field each: the
   caller, the callee, the value, the input, the output and the error. *)
FieldVariants ==
  {[BaseNode EXCEPT !.from = Callee], [BaseNode EXCEPT !.to = Caller],
   [BaseNode EXCEPT !.value = 1], [BaseNode EXCEPT !.input = <<1>>],
   [BaseNode EXCEPT !.output = <<1>>], [BaseNode EXCEPT !.error = Reason1]}

(* What another writer may have stored: the serialised base, gas,
   revert-reason and field-variant nodes, and the base node whose Call
   opcode number is any of WireBytes. *)
MCWireNodes ==
  {[n EXCEPT !.type = SerializeCallType(n.type)] :
     n \in {m \in MCNodes \cup FieldVariants : m.type = BaseNode.type}}
    \cup {[BaseNode EXCEPT !.type = [kind |-> "Call", byte |-> b]] : b \in WireBytes}

=============================================================================
