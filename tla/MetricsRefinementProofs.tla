----------------------- MODULE MetricsRefinementProofs -----------------------
(***************************************************************************)
(* The proof that the scan of get_execution_metrics implements MetricsSpec *)
(* under the mapping of ExecutionMetrics (Abstract): the running sums and  *)
(* the count of the three passes are, at every step, the sums and the      *)
(* length of what the extraction functions of VmEvents give for the events *)
(* consumed so far, so that the record BuildMetrics returns is ResultOf.   *)
(*                                                                         *)
(* It rests on lemmas about the two recursive functions of the model,      *)
(* FilterPrefix (VmEvents) and SumPrefix (MetricsSpec), proved by          *)
(* induction over the naturals: the least-number principle of              *)
(* WellFoundedInduction, stated for a set so that no operator has to be    *)
(* instantiated.                                                           *)
(***************************************************************************)
EXTENDS ExecutionMetricsProofs, NaturalsInduction, WellFoundedInduction

(* Induction over the naturals, for a set: a set of naturals that holds 0
   and the successor of each of its elements holds every natural. *)
LEMMA NatSetInduction ==
  ASSUME NEW T, T \subseteq Nat, 0 \in T, \A n \in T : n + 1 \in T
  PROVE  Nat \subseteq T
<1> SUFFICES ASSUME Nat \ T # {} PROVE FALSE
  OBVIOUS
<1>1. PICK x \in Nat \ T : \A y \in Nat \ T : ~(<<y, x>> \in OpToRel(<, Nat))
  BY NatLessThanWellFounded, WFMin
<1>2. x # 0
  OBVIOUS
<1>3. x - 1 \in Nat /\ <<x - 1, x>> \in OpToRel(<, Nat)
  BY <1>2 DEF OpToRel
<1>4. x - 1 \in T
  BY <1>1, <1>3
<1> QED
  BY <1>4

-----------------------------------------------------------------------------
(* FilterPrefix(s, Keep) is the function its recursive definition states. *)
FilterPrefixUnfolds(s, Keep) ==
  FilterPrefix(s, Keep) =
    [i \in 0..Len(s) |->
       IF i = 0 THEN << >>
       ELSE IF s[i] \in Keep THEN Append(FilterPrefix(s, Keep)[i - 1], s[i])
            ELSE FilterPrefix(s, Keep)[i - 1]]

(* Every prefix of a filtered sequence of S is a sequence of S. *)
FilterPrefixTyped(s, S, Keep) ==
  \A i \in 0..Len(s) : FilterPrefix(s, Keep)[i] \in Seq(S)

LEMMA FilterPrefixDef ==
  ASSUME NEW S, NEW s \in Seq(S), NEW Keep
  PROVE  FilterPrefixUnfolds(s, Keep)
<1>1. FiniteNatInductiveDefHypothesis(FilterPrefix(s, Keep), << >>,
        LAMBDA v, i : IF s[i] \in Keep THEN Append(v, s[i]) ELSE v, 0, Len(s))
  BY DEF FiniteNatInductiveDefHypothesis, FilterPrefix
<1>2. FiniteNatInductiveDefConclusion(FilterPrefix(s, Keep), << >>,
        LAMBDA v, i : IF s[i] \in Keep THEN Append(v, s[i]) ELSE v, 0, Len(s))
  <2>1. Len(s) \in Nat
    OBVIOUS
  <2> QED
    BY <1>1, <2>1, FiniteNatInductiveDef
<1> QED
  BY <1>2 DEF FiniteNatInductiveDefConclusion, FilterPrefixUnfolds

LEMMA FilterPrefixType ==
  ASSUME NEW S, NEW s \in Seq(S), NEW Keep
  PROVE  FilterPrefixTyped(s, S, Keep)
<1> DEFINE F == FilterPrefix(s, Keep)
           T == {i \in Nat : i <= Len(s) => F[i] \in Seq(S)}
<1>1. FilterPrefixUnfolds(s, Keep)
  BY FilterPrefixDef
<1>2. 0 \in T
  BY <1>1 DEF FilterPrefixUnfolds
<1>3. ASSUME NEW n \in T PROVE n + 1 \in T
  <2> SUFFICES ASSUME n + 1 <= Len(s) PROVE F[n + 1] \in Seq(S)
    OBVIOUS
  <2>1. F[n] \in Seq(S) /\ s[n + 1] \in S
    BY <1>3
  <2>2. F[n + 1] = IF s[n + 1] \in Keep THEN Append(F[n], s[n + 1]) ELSE F[n]
    <3>1. n + 1 \in 0..Len(s) /\ n + 1 # 0 /\ (n + 1) - 1 = n
      BY <1>3
    <3> QED
      BY <1>1, <3>1, Zenon DEF FilterPrefixUnfolds
  <2> QED
    BY <2>1, <2>2
<1>4. Nat \subseteq T
  <2>1. T \subseteq Nat
    OBVIOUS
  <2>2. \A n \in T : n + 1 \in T
    BY <1>3
  <2> HIDE DEF T
  <2> QED
    BY <1>2, <2>1, <2>2, NatSetInduction, Zenon
<1> QED
  BY <1>4 DEF FilterPrefixTyped

-----------------------------------------------------------------------------
(* SumPrefix(s) is the function its recursive definition states. *)
SumPrefixUnfolds(s) ==
  Abstract!SumPrefix(s) =
    [i \in 0..Len(s) |->
       IF i = 0 THEN 0 ELSE Abstract!SumPrefix(s)[i - 1] + s[i]]

LEMMA SumPrefixDef ==
  ASSUME NEW S, NEW s \in Seq(S)
  PROVE  SumPrefixUnfolds(s)
<1>1. FiniteNatInductiveDefHypothesis(Abstract!SumPrefix(s), 0,
        LAMBDA v, i : v + s[i], 0, Len(s))
  BY DEF FiniteNatInductiveDefHypothesis, Abstract!SumPrefix
<1>2. FiniteNatInductiveDefConclusion(Abstract!SumPrefix(s), 0,
        LAMBDA v, i : v + s[i], 0, Len(s))
  <2>1. Len(s) \in Nat
    OBVIOUS
  <2> QED
    BY <1>1, <2>1, FiniteNatInductiveDef
<1> QED
  BY <1>2 DEF FiniteNatInductiveDefConclusion, SumPrefixUnfolds

(* The sum of the empty sequence is 0. *)
LEMMA SumEmpty == Abstract!SumOf(<< >>) = 0
<1>1. SumPrefixUnfolds(<< >>)
  <2>1. << >> \in Seq({})
    OBVIOUS
  <2> QED
    BY <2>1, SumPrefixDef
<1> QED
  BY <1>1 DEF SumPrefixUnfolds, Abstract!SumOf

(* Appending x to a sequence adds x to its sum. *)
LEMMA SumAppend ==
  ASSUME NEW S, NEW t \in Seq(S), NEW x
  PROVE  Abstract!SumOf(Append(t, x)) = Abstract!SumOf(t) + x
<1> DEFINE u == Append(t, x)
           T == {i \in Nat : i <= Len(t) =>
                   Abstract!SumPrefix(u)[i] = Abstract!SumPrefix(t)[i]}
<1>1. u \in Seq(S \cup {x}) /\ Len(u) = Len(t) + 1
  OBVIOUS
<1>2. SumPrefixUnfolds(t) /\ SumPrefixUnfolds(u)
  BY <1>1, SumPrefixDef
<1>3. 0 \in T
  BY <1>1, <1>2 DEF SumPrefixUnfolds
<1>4. ASSUME NEW n \in T PROVE n + 1 \in T
  BY <1>1, <1>2, <1>4 DEF SumPrefixUnfolds
<1>5. Nat \subseteq T
  BY <1>3, <1>4, NatSetInduction
<1>6. Abstract!SumPrefix(u)[Len(t) + 1] = Abstract!SumPrefix(u)[Len(t)] + x
  BY <1>1, <1>2 DEF SumPrefixUnfolds
<1> QED
  BY <1>1, <1>5, <1>6 DEF Abstract!SumOf

-----------------------------------------------------------------------------
(***************************************************************************)
(* The inductive invariant of the refinement.  Each pass's running value   *)
(* is what the abstract ResultOf computes from the filtered events among   *)
(* the first idx: the sum of the ABI-encoded sizes of the long messages,   *)
(* the sum of the published bytecodes' lengths with their overhead, the    *)
(* number of MarkedAsKnown events; an ended pass's value is that of the    *)
(* whole log; and a returned record is ResultOf of the log.                *)
(***************************************************************************)
(* The events each filter keeps, and its prefixes over the log. *)
L1Keep == {e \in VmEvent : IsL1MessageEvent(e)}
PubKeep == {e \in VmEvent : IsPublishedBytecodeEvent(e)}
KnownKeep == {e \in VmEvent : IsMarkedAsKnownEvent(e)}

L1Sel == FilterPrefix(events, L1Keep)
PubSel == FilterPrefix(events, PubKeep)
KnownSel == FilterPrefix(events, KnownKeep)

(* The costs ResultOf sums, for a sequence of events. *)
LongCosts(sel) ==
  [k \in 1..Len(sel) |-> Abstract!AbiEncodedBytesSize(AbiDecode[sel[k].value])]
PubCosts(sel) ==
  [k \in 1..Len(sel) |->
     PublishedBytecodeBytes(BytecodeLenInBytes[sel[k].indexed_topics[2]])]

RefInv ==
  /\ ScanInv
  /\ phase = "long" =>
       /\ l2_l1_long_messages = Abstract!SumOf(LongCosts(L1Sel[idx]))
       /\ published_bytecode_bytes = 0
  /\ phase \in {"published", "known", "done"} =>
       l2_l1_long_messages = Abstract!SumOf(LongCosts(L1Sel[Len(events)]))
  /\ phase = "published" =>
       published_bytecode_bytes = Abstract!SumOf(PubCosts(PubSel[idx]))
  /\ phase \in {"known", "done"} =>
       published_bytecode_bytes = Abstract!SumOf(PubCosts(PubSel[Len(events)]))
  /\ phase = "known" => contract_deployment_count = Len(KnownSel[idx])
  /\ phase = "done" => metrics = Abstract!ResultOf(events, logs)
  /\ phase # "done" => metrics = NoMetrics

(* The bytes line 191 bills for a decoded message are its ABI-encoded size. *)
LEMMA LongMessageBytesAbi ==
  ASSUME NEW len \in Nat
  PROVE  LongMessageBytes(len) = Abstract!AbiEncodedBytesSize(len)
  BY LongMessageBytesIsAbiSize DEF Abstract!AbiEncodedBytesSize

(* Consuming event i + 1 of the log: each filtered prefix grows by that
   event exactly when it passes the filter, and the costs ResultOf sums
   grow by its cost. *)
LEMMA L1SelStep ==
  ASSUME events \in Seq(VmEvent), NEW i \in 0..(Len(events) - 1)
  PROVE  Abstract!SumOf(LongCosts(L1Sel[i + 1])) =
           IF IsL1MessageEvent(events[i + 1])
           THEN Abstract!SumOf(LongCosts(L1Sel[i]))
                  + Abstract!AbiEncodedBytesSize(AbiDecode[events[i + 1].value])
           ELSE Abstract!SumOf(LongCosts(L1Sel[i]))
<1> DEFINE t == L1Sel[i]
           e == events[i + 1]
<1>1. FilterPrefixUnfolds(events, L1Keep)
      /\ FilterPrefixTyped(events, VmEvent, L1Keep)
  BY FilterPrefixDef, FilterPrefixType
<1>2. t \in Seq(VmEvent) /\ e \in VmEvent
  BY <1>1 DEF FilterPrefixTyped, L1Sel
<1>3. L1Sel[i + 1] = IF IsL1MessageEvent(e) THEN Append(t, e) ELSE t
  <2>1. L1Sel[i + 1] = IF e \in L1Keep THEN Append(t, e) ELSE t
    <3>1. i + 1 \in 0..Len(events) /\ i + 1 # 0 /\ (i + 1) - 1 = i
      OBVIOUS
    <3> QED
      BY <1>1, <3>1, Zenon DEF FilterPrefixUnfolds, L1Sel
  <2>2. e \in L1Keep <=> IsL1MessageEvent(e)
    BY <1>2 DEF L1Keep
  <2> QED
    BY <2>1, <2>2
<1>4. LongCosts(Append(t, e)) =
        Append(LongCosts(t), Abstract!AbiEncodedBytesSize(AbiDecode[e.value]))
  BY <1>2 DEF LongCosts
<1>5. LongCosts(t) \in
        Seq({Abstract!AbiEncodedBytesSize(AbiDecode[t[k].value]) : k \in 1..Len(t)})
  BY <1>2 DEF LongCosts
<1> QED
  BY <1>3, <1>4, <1>5, SumAppend

LEMMA PubSelStep ==
  ASSUME events \in Seq(VmEvent), NEW i \in 0..(Len(events) - 1)
  PROVE  Abstract!SumOf(PubCosts(PubSel[i + 1])) =
           IF IsPublishedBytecodeEvent(events[i + 1])
           THEN Abstract!SumOf(PubCosts(PubSel[i]))
                  + PublishedBytecodeBytes(
                      BytecodeLenInBytes[events[i + 1].indexed_topics[2]])
           ELSE Abstract!SumOf(PubCosts(PubSel[i]))
<1> DEFINE t == PubSel[i]
           e == events[i + 1]
<1>1. FilterPrefixUnfolds(events, PubKeep)
      /\ FilterPrefixTyped(events, VmEvent, PubKeep)
  BY FilterPrefixDef, FilterPrefixType
<1>2. t \in Seq(VmEvent) /\ e \in VmEvent
  BY <1>1 DEF FilterPrefixTyped, PubSel
<1>3. PubSel[i + 1] = IF IsPublishedBytecodeEvent(e) THEN Append(t, e) ELSE t
  <2>1. PubSel[i + 1] = IF e \in PubKeep THEN Append(t, e) ELSE t
    <3>1. i + 1 \in 0..Len(events) /\ i + 1 # 0 /\ (i + 1) - 1 = i
      OBVIOUS
    <3> QED
      BY <1>1, <3>1, Zenon DEF FilterPrefixUnfolds, PubSel
  <2>2. e \in PubKeep <=> IsPublishedBytecodeEvent(e)
    BY <1>2 DEF PubKeep
  <2> QED
    BY <2>1, <2>2
<1>4. PubCosts(Append(t, e)) =
        Append(PubCosts(t),
               PublishedBytecodeBytes(BytecodeLenInBytes[e.indexed_topics[2]]))
  BY <1>2 DEF PubCosts
<1>5. PubCosts(t) \in
        Seq({PublishedBytecodeBytes(BytecodeLenInBytes[t[k].indexed_topics[2]])
               : k \in 1..Len(t)})
  BY <1>2 DEF PubCosts
<1> QED
  BY <1>3, <1>4, <1>5, SumAppend

LEMMA KnownSelStep ==
  ASSUME events \in Seq(VmEvent), NEW i \in 0..(Len(events) - 1)
  PROVE  Len(KnownSel[i + 1]) =
           IF IsMarkedAsKnownEvent(events[i + 1])
           THEN Len(KnownSel[i]) + 1 ELSE Len(KnownSel[i])
<1>1. FilterPrefixUnfolds(events, KnownKeep)
      /\ FilterPrefixTyped(events, VmEvent, KnownKeep)
  BY FilterPrefixDef, FilterPrefixType
<1>2. events[i + 1] \in VmEvent
  OBVIOUS
<1>3. KnownSel[i + 1] = IF IsMarkedAsKnownEvent(events[i + 1])
                        THEN Append(KnownSel[i], events[i + 1]) ELSE KnownSel[i]
  <2>1. KnownSel[i + 1] = IF events[i + 1] \in KnownKeep
                          THEN Append(KnownSel[i], events[i + 1]) ELSE KnownSel[i]
    <3>1. i + 1 \in 0..Len(events) /\ i + 1 # 0 /\ (i + 1) - 1 = i
      OBVIOUS
    <3> QED
      BY <1>1, <3>1, Zenon DEF FilterPrefixUnfolds, KnownSel
  <2>2. events[i + 1] \in KnownKeep <=> IsMarkedAsKnownEvent(events[i + 1])
    BY <1>2 DEF KnownKeep
  <2> QED
    BY <2>1, <2>2
<1>4. KnownSel[i] \in Seq(VmEvent)
  BY <1>1 DEF FilterPrefixTyped, KnownSel
<1> QED
  BY <1>3, <1>4

(* Before any event is consumed, every filtered prefix is empty, and so are
   the sums over it. *)
LEMMA SelEmpty ==
  ASSUME events \in Seq(VmEvent)
  PROVE  /\ Abstract!SumOf(LongCosts(L1Sel[0])) = 0
         /\ Abstract!SumOf(PubCosts(PubSel[0])) = 0
         /\ Len(KnownSel[0]) = 0
<1>1. /\ FilterPrefixUnfolds(events, L1Keep)
      /\ FilterPrefixUnfolds(events, PubKeep)
      /\ FilterPrefixUnfolds(events, KnownKeep)
  BY FilterPrefixDef
<1>2. L1Sel[0] = << >> /\ PubSel[0] = << >> /\ KnownSel[0] = << >>
  BY <1>1 DEF FilterPrefixUnfolds, L1Sel, PubSel, KnownSel
<1>3. LongCosts(<< >>) = << >> /\ PubCosts(<< >>) = << >>
  BY DEF LongCosts, PubCosts
<1> QED
  BY <1>2, <1>3, SumEmpty

(* The implementation's three closures keep exactly the events MetricsSpec's
   admission rule gives each metric. *)
LEMMA KeepSetsAgree ==
  /\ L1Keep = Abstract!L1Messages
  /\ PubKeep = Abstract!Publications
  /\ KnownKeep = Abstract!KnownMarkings
BY DEF L1Keep, PubKeep, KnownKeep, Abstract!L1Messages, Abstract!Publications,
       Abstract!KnownMarkings, Abstract!Admits, Abstract!VmEvent, VmEvent,
       IsL1MessageEvent, IsPublishedBytecodeEvent, IsMarkedAsKnownEvent

(* ResultOf, the abstract result, is the record built from the sums and the
   count over the whole filtered log. *)
LEMMA ResultOfWholeLog ==
  ASSUME events \in Seq(VmEvent), NEW lg
  PROVE  Abstract!ResultOf(events, lg) =
           [published_bytecode_bytes |-> Abstract!SumOf(PubCosts(PubSel[Len(events)])),
            l2_l1_long_messages |-> Abstract!SumOf(LongCosts(L1Sel[Len(events)])),
            l2_to_l1_logs |-> lg.user + lg.system,
            user_l2_to_l1_logs |-> lg.user,
            vm_events |-> Len(events),
            contract_deployment_count |-> Len(KnownSel[Len(events)])]
<1>1. /\ FilterPrefixTyped(events, VmEvent, L1Keep)
      /\ FilterPrefixTyped(events, VmEvent, PubKeep)
      /\ FilterPrefixTyped(events, VmEvent, KnownKeep)
  BY FilterPrefixType
<1>2. /\ L1Sel[Len(events)] \in Seq(VmEvent)
      /\ PubSel[Len(events)] \in Seq(VmEvent)
      /\ KnownSel[Len(events)] \in Seq(VmEvent)
  BY <1>1 DEF FilterPrefixTyped, L1Sel, PubSel, KnownSel
<1>3. /\ Abstract!FilterSeq(events, Abstract!L1Messages) = L1Sel[Len(events)]
      /\ Abstract!FilterSeq(events, Abstract!Publications) = PubSel[Len(events)]
      /\ Abstract!FilterSeq(events, Abstract!KnownMarkings) = KnownSel[Len(events)]
  BY KeepSetsAgree DEF Abstract!FilterSeq, Abstract!FilterPrefix, FilterPrefix,
                      L1Sel, PubSel, KnownSel
<1> DEFINE msgs == Abstract!FilterSeq(events, Abstract!L1Messages)
           pubs == Abstract!FilterSeq(events, Abstract!Publications)
           long == [k \in 1..Len(msgs) |-> AbiDecode[msgs[k].value]]
           pub  == [k \in 1..Len(pubs) |-> pubs[k].indexed_topics[2]]
<1>6. [k \in DOMAIN long |-> Abstract!AbiEncodedBytesSize(long[k])]
        = LongCosts(L1Sel[Len(events)])
  BY <1>2, <1>3 DEF LongCosts
<1>7. [k \in DOMAIN pub |-> BytecodeLenInBytes[pub[k]] + PUBLISH_BYTECODE_OVERHEAD]
        = PubCosts(PubSel[Len(events)])
  BY <1>2, <1>3 DEF PubCosts, PublishedBytecodeBytes
<1>8. Len(Abstract!FilterSeq(events, Abstract!KnownMarkings)) = Len(KnownSel[Len(events)])
  BY <1>3
<1> QED
  BY <1>6, <1>7, <1>8 DEF Abstract!ResultOf

(* The initial states satisfy the refinement invariant. *)
LEMMA InitRefInv == Init => RefInv
<1> SUFFICES ASSUME Init PROVE RefInv
  OBVIOUS
<1>1. ScanInv /\ events \in Seq(VmEvent)
  BY InitScanInv, InitTypeOK DEF TypeOK
<1>2. Abstract!SumOf(LongCosts(L1Sel[0])) = 0
  BY <1>1, SelEmpty
<1> QED
  BY <1>1, <1>2 DEF Init, RefInv

(* Every step of Next preserves the refinement invariant. *)
LEMMA NextRefInv == RefInv /\ [Next]_vars => RefInv'
<1> SUFFICES ASSUME RefInv, [Next]_vars PROVE RefInv'
  OBVIOUS
<1>0. /\ ScanInv'
      /\ events \in Seq(VmEvent)
      /\ idx \in 0..Len(events)
      /\ phase \in Phases
  BY NextScanInv DEF RefInv, ScanInv, TypeOK
<1> USE DEF RefInv
<1>1. CASE LongMessageStep
  <2> DEFINE e == events[idx + 1]
  <2>1. /\ phase = "long" /\ idx < Len(events)
        /\ UNCHANGED <<events, logs, published_bytecode_bytes, metrics>>
    BY <1>1 DEF LongMessageStep
  <2>2. idx \in 0..(Len(events) - 1)
    BY <1>0, <2>1
  <2>3. CASE ~IsL1MessageEvent(e)
    <3>1. phase' = "long" /\ idx' = idx + 1 /\ l2_l1_long_messages' = l2_l1_long_messages
      BY <1>1, <2>3 DEF LongMessageStep, Advance
    <3>2. Abstract!SumOf(LongCosts(L1Sel[idx + 1])) = Abstract!SumOf(LongCosts(L1Sel[idx]))
      BY <1>0, <2>2, <2>3, L1SelStep
    <3> QED
      BY <1>0, <2>1, <3>1, <3>2 DEF L1Sel
  <2>4. CASE IsL1MessageEvent(e) /\ LongMessageLen(e) # Malformed
    <3>1. phase' = "long" /\ idx' = idx + 1
          /\ l2_l1_long_messages' =
               l2_l1_long_messages + LongMessageBytes(AbiDecode[e.value])
      BY <1>1, <2>4 DEF LongMessageStep, Advance, LongMessageLen
    <3>2. AbiDecode[e.value] \in Nat
      <4>0. e \in VmEvent
        BY <1>0, <2>2
      <4>1. e.value \in Payloads
        BY <4>0 DEF VmEvent
      <4> QED
        BY <2>4, <4>1, DecodeAssumption DEF LongMessageLen
    <3>3. LongMessageBytes(AbiDecode[e.value]) =
            Abstract!AbiEncodedBytesSize(AbiDecode[e.value])
      BY <3>2, LongMessageBytesAbi
    <3>4. Abstract!SumOf(LongCosts(L1Sel[idx + 1])) =
            Abstract!SumOf(LongCosts(L1Sel[idx]))
              + Abstract!AbiEncodedBytesSize(AbiDecode[e.value])
      BY <1>0, <2>2, <2>4, L1SelStep
    <3> QED
      BY <1>0, <2>1, <3>1, <3>3, <3>4 DEF L1Sel
  <2>5. CASE IsL1MessageEvent(e) /\ LongMessageLen(e) = Malformed
    <3>1. phase' = "panic"
      BY <1>1, <2>5 DEF LongMessageStep, Panic
    <3> QED
      BY <1>0, <2>1, <3>1
  <2> QED
    BY <2>3, <2>4, <2>5
<1>2. CASE EndLongMessages
  <2>1. /\ phase = "long" /\ idx = Len(events) /\ phase' = "published" /\ idx' = 0
        /\ UNCHANGED <<events, logs, l2_l1_long_messages, published_bytecode_bytes, metrics>>
    BY <1>2 DEF EndLongMessages
  <2>2. Abstract!SumOf(PubCosts(PubSel[0])) = 0
    BY <1>0, SelEmpty
  <2> QED
    BY <1>0, <2>1, <2>2 DEF L1Sel, PubSel
<1>3. CASE PublishedBytecodeStep
  <2> DEFINE e == events[idx + 1]
             len == BytecodeLenInBytes[e.indexed_topics[2]]
  <2>1. /\ phase = "published" /\ idx < Len(events)
        /\ UNCHANGED <<events, logs, l2_l1_long_messages, metrics>>
    BY <1>3 DEF PublishedBytecodeStep
  <2>2. idx \in 0..(Len(events) - 1)
    BY <1>0, <2>1
  <2>3. Abstract!SumOf(PubCosts(PubSel[idx + 1])) =
          IF IsPublishedBytecodeEvent(e)
          THEN Abstract!SumOf(PubCosts(PubSel[idx])) + PublishedBytecodeBytes(len)
          ELSE Abstract!SumOf(PubCosts(PubSel[idx]))
    BY <1>0, <2>2, PubSelStep
  <2>4. CASE ~IsPublishedBytecodeEvent(e)
    <3>1. phase' = "published" /\ idx' = idx + 1
          /\ published_bytecode_bytes' = published_bytecode_bytes
      BY <1>3, <2>4 DEF PublishedBytecodeStep, Advance
    <3> QED
      BY <1>0, <2>1, <2>3, <2>4, <3>1 DEF L1Sel, PubSel
  <2>5. CASE IsPublishedBytecodeEvent(e) /\ len # Malformed
    <3>1. phase' = "published" /\ idx' = idx + 1
          /\ published_bytecode_bytes' =
               published_bytecode_bytes + PublishedBytecodeBytes(len)
      BY <1>3, <2>5 DEF PublishedBytecodeStep, Advance
    <3> QED
      BY <1>0, <2>1, <2>3, <2>5, <3>1 DEF L1Sel, PubSel
  <2>6. CASE IsPublishedBytecodeEvent(e) /\ len = Malformed
    <3>1. phase' = "panic"
      BY <1>3, <2>6 DEF PublishedBytecodeStep, Panic
    <3> QED
      BY <1>0, <2>1, <3>1
  <2> QED
    BY <2>4, <2>5, <2>6
<1>4. CASE EndPublishedBytecodes
  <2>1. /\ phase = "published" /\ idx = Len(events) /\ phase' = "known" /\ idx' = 0
        /\ UNCHANGED <<events, logs, l2_l1_long_messages, published_bytecode_bytes,
                       contract_deployment_count, metrics>>
    BY <1>4 DEF EndPublishedBytecodes
  <2>2. contract_deployment_count = 0 /\ Len(KnownSel[0]) = 0
    BY <1>0, <2>1, SelEmpty DEF ScanInv
  <2> QED
    BY <1>0, <2>1, <2>2 DEF L1Sel, PubSel, KnownSel
<1>5. CASE KnownBytecodeStep
  <2>1. /\ phase = "known" /\ idx < Len(events) /\ phase' = "known" /\ idx' = idx + 1
        /\ contract_deployment_count' =
             IF IsMarkedAsKnownEvent(events[idx + 1])
             THEN contract_deployment_count + 1 ELSE contract_deployment_count
        /\ UNCHANGED <<events, logs, l2_l1_long_messages, published_bytecode_bytes,
                       metrics>>
    BY <1>5 DEF KnownBytecodeStep, Advance
  <2>2. Len(KnownSel[idx + 1]) =
          IF IsMarkedAsKnownEvent(events[idx + 1])
          THEN Len(KnownSel[idx]) + 1 ELSE Len(KnownSel[idx])
    BY <1>0, <2>1, KnownSelStep
  <2> QED
    BY <1>0, <2>1, <2>2 DEF L1Sel, PubSel, KnownSel
<1>6. CASE BuildMetrics
  <2>1. /\ phase = "known" /\ idx = Len(events) /\ phase' = "done"
        /\ UNCHANGED <<events, logs, l2_l1_long_messages, published_bytecode_bytes,
                       contract_deployment_count>>
    BY <1>6 DEF BuildMetrics
  <2>2. metrics' = Abstract!ResultOf(events, logs)
    BY <1>0, <1>6, <2>1, ResultOfWholeLog DEF BuildMetrics, TotalL2ToL1LogsCount
  <2> QED
    BY <1>0, <2>1, <2>2 DEF L1Sel, PubSel, KnownSel
<1>7. CASE UNCHANGED vars
  BY <1>0, <1>7 DEF vars, L1Sel, PubSel, KnownSel
<1> QED
  BY <1>1, <1>2, <1>3, <1>4, <1>5, <1>6, <1>7 DEF Next

(* The scan always satisfies the refinement invariant. *)
THEOREM RefinementInvariant == Spec => []RefInv
  BY InitRefInv, NextRefInv, PTL DEF Spec

-----------------------------------------------------------------------------
(* The outcome the refinement mapping reads off the phase. *)
Outcome == IF phase \in {"done", "panic"} THEN phase ELSE "running"

(* No step of the scan changes the log or the log counts, and none leaves a
   returned or panicked computation. *)
LEMMA NextKeepsInputs ==
  [Next]_vars => /\ UNCHANGED <<events, logs>>
                 /\ phase \in {"done", "panic"} => UNCHANGED vars
  BY DEF Next, vars, LongMessageStep, EndLongMessages, PublishedBytecodeStep,
         EndPublishedBytecodes, KnownBytecodeStep, BuildMetrics

(* MetricsSpec's failure condition is the disjunction of the two `expect`
   failures of the code, over every log of events. *)
LEMMA FailsIsDecodeOrParseFailure ==
  ASSUME events \in Seq(VmEvent)
  PROVE  Abstract!Fails(events) <=>
           LongMessageDecodeFails(events) \/ PublishedBytecodeParseFails(events)
<1>1. ASSUME NEW k \in 1..Len(events)
      PROVE  /\ events[k] \in L1Keep <=> IsL1MessageEvent(events[k])
             /\ events[k] \in PubKeep <=> IsPublishedBytecodeEvent(events[k])
  BY DEF L1Keep, PubKeep
<1> QED
  BY <1>1, KeepSetsAgree DEF Abstract!Fails, LongMessageDecodeFails,
                            PublishedBytecodeParseFails

(* The initial states of the scan are initial states of MetricsSpec. *)
LEMMA InitRefines == Init => Abstract!Init
  BY DEF Init, Abstract!Init, Abstract!NoMetrics, NoMetrics

(* Every step of the scan is a step of MetricsSpec or leaves the mapped
   state alone: the panic of pass 1 or 2 is Abort, BuildMetrics is Return,
   every other step is a stutter. *)
LEMMA NextRefines ==
  ASSUME RefInv, RefInv', [Next]_vars
  PROVE  [Abstract!Next]_<<events, logs, Outcome, metrics>>
<1>1. UNCHANGED <<events, logs>> /\ (phase \in {"done", "panic"} => UNCHANGED vars)
  BY NextKeepsInputs
<1>2. CASE phase \notin {"done", "panic"} /\ phase' = "panic"
  <2>1. Outcome = "running" /\ Outcome' = "panic"
    BY <1>2 DEF Outcome
  <2>2. metrics' = metrics
    BY <1>2 DEF RefInv
  <2>3. Abstract!Fails(events)
    BY <1>1, <1>2, FailsIsDecodeOrParseFailure DEF RefInv, ScanInv, TypeOK
  <2> QED
    BY <1>1, <2>1, <2>2, <2>3 DEF Abstract!Next, Abstract!Abort, Outcome
<1>3. CASE phase \notin {"done", "panic"} /\ phase' = "done"
  <2>1. Outcome = "running" /\ Outcome' = "done"
    BY <1>3 DEF Outcome
  <2>2. metrics' = Abstract!ResultOf(events, logs)
    BY <1>1, <1>3 DEF RefInv
  <2>3. phase = "known"
    BY <1>3 DEF Next, vars, LongMessageStep, EndLongMessages, PublishedBytecodeStep,
           EndPublishedBytecodes, KnownBytecodeStep, BuildMetrics, Panic
  <2>4. ~Abstract!Fails(events)
    BY <2>3, FailsIsDecodeOrParseFailure
       DEF RefInv, ScanInv, TypeOK, LongDecodedUpTo, PublishedParsedUpTo,
           LongMessageDecodeFails, PublishedBytecodeParseFails
  <2> QED
    BY <1>1, <2>1, <2>2, <2>4 DEF Abstract!Next, Abstract!Return, Outcome
<1>4. CASE phase \in {"done", "panic"}
  BY <1>1, <1>4 DEF vars, Outcome
<1>5. CASE phase \notin {"done", "panic"} /\ phase' \notin {"done", "panic"}
  <2>1. Outcome' = Outcome
    BY <1>5 DEF Outcome
  <2>2. metrics' = metrics
    BY <1>5 DEF RefInv
  <2> QED
    BY <1>1, <2>1, <2>2
<1> QED
  BY <1>2, <1>3, <1>4, <1>5

(* get_execution_metrics implements its one-step specification, for every
   event log, every decoding function and every log count: it returns
   exactly the metrics ResultOf computes from the extraction functions, and
   panics exactly when a trusted payload is malformed. *)
THEOREM MetricsRefinesSpecHolds == Spec => MetricsRefinesSpec
<1>1. RefInv /\ RefInv' /\ [Next]_vars
        => [Abstract!Next]_<<events, logs, Outcome, metrics>>
  BY NextRefines
<1> QED
  BY <1>1, InitRefines, RefinementInvariant, PTL
     DEF Spec, MetricsRefinesSpec, Abstract!Spec, Outcome

=============================================================================
