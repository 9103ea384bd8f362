------------------------ MODULE IavlIteratorProofs ------------------------
(***************************************************************************)
(* The iterator shows its range in order, whatever the number of callers,  *)
(* the length of the range and the calls they make, and never goes back.   *)
(*                                                                         *)
(* The argument: before initRoutine is done nobody but it receives, and    *)
(* afterwards only the holder of the mutex does, so that at most one item  *)
(* is on its way from the channel to the cursor (Exclusive).  Until Close  *)
(* nobody else takes items, so the items handed over are the ones shown    *)
(* and the one on its way (Accounted).                                     *)
(***************************************************************************)
EXTENDS IavlIterator, TLAPS

(* The larger obligations need more than the prover's default time.        *)
USE SMTT(60)

Exclusive ==
    /\ pc[InitRoutine] \in {"receive", "set", "close", "done"}
    /\ pc[InitRoutine] \in {"receive", "set"} => key = 0 /\ ~invalid /\ advanced = 0
    /\ \A c \in Callers :
        /\ pc[c] # "done"
        /\ pc[c] \in {"receive", "set"} => mtx = c /\ pc[InitRoutine] = "done" /\ ~invalid
        /\ mtx = c => pc[c] \in {"receive", "set"}
        /\ pc[c] = "drain" => quit
    /\ iterCh = "closed" => sent = Items \/ quit
    /\ key <= sent
    /\ \A r \in Receivers : pc[r] = "set" => got[r] <= sent /\ (got[r] = 0 \/ got[r] > key)

(* What the cursor shows of the items handed over, until Close.            *)
Accounted ==
    /\ pc[InitRoutine] = "receive" => sent = 0
    /\ pc[InitRoutine] = "set" =>
        IF got[InitRoutine] = 0 THEN Items = 0 ELSE got[InitRoutine] = 1 /\ sent = 1
    /\ pc[InitRoutine] \in {"close", "done"} =>
        IF invalid THEN advanced = Items ELSE key = advanced + 1
    /\ \A c \in Callers : pc[c] = "set" =>
        IF got[c] = 0 THEN sent = Items /\ key = Items
        ELSE got[c] = key + 1 /\ sent = key + 1
    /\ (/\ pc[InitRoutine] \in {"close", "done"}
        /\ ~invalid
        /\ \A c \in Callers : pc[c] # "set") => sent = key

Inv == TypeOK /\ Exclusive /\ (~quit => Accounted)

-----------------------------------------------------------------------------
(* A new iterator satisfies the invariant.                                 *)
LEMMA InitInv == Init => Inv
<1>. SUFFICES ASSUME Init PROVE Inv
  OBVIOUS
<1>. USE IteratorAssumption DEF Init, Receivers, InitRoutine, None
<1>1. TypeOK
  <2>1. pc \in [Receivers -> {"receive", "idle"}]
    OBVIOUS
  <2>2. got \in [Receivers -> 0..Items] /\ calls \in [Callers -> 0..MaxCalls]
    OBVIOUS
  <2>. QED BY ZenonT(60), <2>1, <2>2 DEF TypeOK
<1>2. Exclusive
  BY DEF Exclusive
<1>3. Accounted
  BY DEF Accounted
<1>. QED BY <1>1, <1>2, <1>3 DEF Inv

(* An item handed over is the one after the last.                          *)
LEMMA HandOverInv ==
    ASSUME Inv, HandOver
    PROVE  Inv'
<1>. USE IteratorAssumption DEF HandOver, More, Goto, channel, cursor, Receivers,
              InitRoutine, None
<1>1. TypeOK'
  BY DEF Inv, TypeOK, Exclusive
<1>2. Exclusive'
  BY DEF Inv, TypeOK, Exclusive
<1>3. ~quit' => Accounted'
  BY DEF Inv, TypeOK, Exclusive, Accounted
<1>. QED BY <1>1, <1>2, <1>3 DEF Inv

(* The walk ends at the end of the range or after Close.                   *)
LEMMA EndWalkInv ==
    ASSUME Inv, EndWalk
    PROVE  Inv'
<1>. USE IteratorAssumption DEF EndWalk, Goto, channel, cursor, Receivers,
              InitRoutine, None
<1>1. TypeOK'
  BY DEF Inv, TypeOK, Exclusive
<1>2. Exclusive'
  BY DEF Inv, TypeOK, Exclusive
<1>3. ~quit' => Accounted'
  BY DEF Inv, TypeOK, Exclusive, Accounted
<1>. QED BY <1>1, <1>2, <1>3 DEF Inv

(* A receiver that finds the channel closed sets the end.                  *)
LEMMA ReceiveInv ==
    ASSUME Inv, NEW r \in Receivers, ReceiveEnd(r)
    PROVE  Inv'
<1>. USE IteratorAssumption DEF ReceiveEnd, Goto, channel, cursor, Receivers,
              InitRoutine, None
<1>1. TypeOK'
  BY DEF Inv, TypeOK, Exclusive
<1>2. Exclusive'
  BY DEF Inv, TypeOK, Exclusive
<1>3. ~quit' => Accounted'
  BY DEF Inv, TypeOK, Exclusive, Accounted
<1>. QED BY <1>1, <1>2, <1>3 DEF Inv

(* What was received becomes the current item.                             *)
LEMMA SetInv ==
    ASSUME Inv, NEW r \in Receivers, SetNext(r)
    PROVE  Inv'
<1>. USE IteratorAssumption DEF SetNext, InvalidAfter, Goto, channel, cursor, Receivers,
              InitRoutine, None
<1>1. TypeOK'
  BY DEF Inv, TypeOK, Exclusive
<1>2. Exclusive'
  <2>1. CASE r = InitRoutine
    BY <2>1 DEF Inv, TypeOK, Exclusive
  <2>2. CASE r \in Callers
    BY <2>2 DEF Inv, TypeOK, Exclusive
  <2>. QED BY <2>1, <2>2
<1>3. ~quit' => Accounted'
  <2>. SUFFICES ASSUME ~quit PROVE Accounted'
    OBVIOUS
  <2>. key \in Nat /\ got[r] \in Nat /\ sent \in Nat /\ advanced \in Nat /\ Items \in Nat
    BY DEF Inv, TypeOK
  <2>1. CASE r = InitRoutine
    <3>1. \A c \in Callers : pc'[c] = pc[c] /\ pc[c] # "set"
      BY <2>1 DEF Inv, TypeOK, Exclusive
    <3>2. pc'[InitRoutine] = "close" /\ advanced' = 0 /\ ~invalid
      BY <2>1 DEF Inv, TypeOK, Exclusive
    <3>3. IF got[r] = 0 THEN Items = 0 ELSE got[r] = 1 /\ sent = 1
      BY <2>1 DEF Inv, Accounted
    <3>4. /\ invalid' <=> got[r] = 0
          /\ key' = IF got[r] = 0 THEN key ELSE got[r]
          /\ sent' = sent
      BY ZenonT(60), <3>2
    <3>5. CASE got[r] = 0
      BY <3>1, <3>2, <3>3, <3>4, <3>5 DEF Accounted
    <3>6. CASE got[r] # 0
      BY <3>1, <3>2, <3>3, <3>4, <3>6 DEF Accounted
    <3>. QED BY <3>5, <3>6
  <2>2. CASE r \in Callers
    <3>1. \A c \in Callers : pc'[c] # "set"
      BY <2>2 DEF Inv, TypeOK, Exclusive
    <3>2. pc'[InitRoutine] = "done" /\ advanced' = advanced + 1 /\ ~invalid
      BY <2>2 DEF Inv, TypeOK, Exclusive
    <3>3. key = advanced + 1
      BY <2>2 DEF Inv, Exclusive, Accounted
    <3>4. IF got[r] = 0 THEN sent = Items /\ key = Items
          ELSE got[r] = key + 1 /\ sent = key + 1
      BY <2>2 DEF Inv, Accounted
    <3>. QED BY ZenonT(60), <3>1, <3>2, <3>3, <3>4 DEF Accounted
  <2>. QED BY <2>1, <2>2
<1>. QED BY <1>1, <1>2, <1>3 DEF Inv

(* initRoutine closes initCh.                                              *)
LEMMA InitDoneInv ==
    ASSUME Inv, InitDone
    PROVE  Inv'
<1>. USE IteratorAssumption DEF InitDone, InitReceived, Goto, channel, cursor, Receivers,
              InitRoutine, None
<1>1. TypeOK'
  BY DEF Inv, TypeOK, Exclusive
<1>2. Exclusive'
  BY DEF Inv, TypeOK, Exclusive
<1>3. ~quit' => Accounted'
  BY DEF Inv, TypeOK, Exclusive, Accounted
<1>. QED BY <1>1, <1>2, <1>3 DEF Inv

(* Valid, Key, Value and the first half of Next.                           *)
LEMMA ReadsInv ==
    ASSUME Inv, NEW c \in Callers, Valid(c) \/ Read(c) \/ Advance(c)
    PROVE  Inv'
<1>. USE IteratorAssumption DEF Valid, Read, Advance, Ready, MtxAfterPanic, Goto, channel, cursor, Receivers,
              InitRoutine, None
<1>1. TypeOK'
  BY DEF Inv, TypeOK, Exclusive
<1>2. Exclusive'
  BY DEF Inv, TypeOK, Exclusive
<1>3. ~quit' => Accounted'
  BY DEF Inv, TypeOK, Exclusive, Accounted
<1>. QED BY <1>1, <1>2, <1>3 DEF Inv

(* Close, which ends the accounting.                                       *)
LEMMA ClosesInv ==
    ASSUME Inv, NEW c \in Callers, Close(c) \/ Drained(c)
    PROVE  Inv'
<1>. USE IteratorAssumption DEF Close, Drained, Goto, channel, cursor, Receivers,
              InitRoutine, None
<1>1. TypeOK'
  BY ZenonT(60) DEF Inv, TypeOK, Exclusive
<1>2. Exclusive'
  BY DEF Inv, TypeOK, Exclusive
<1>3. ~quit' => Accounted'
  BY DEF Inv, TypeOK, Exclusive, Accounted
<1>. QED BY <1>1, <1>2, <1>3 DEF Inv

(* A call begins.                                                          *)
LEMMA CallInv ==
    ASSUME Inv, NEW c \in Callers, NEW p \in {"valid", "read", "next", "close"}, Call(c, p)
    PROVE  Inv'
<1>. USE IteratorAssumption DEF Call, Goto, channel, cursor, Receivers,
              InitRoutine, None
<1>1. TypeOK'
  BY DEF Inv, TypeOK, Exclusive
<1>2. Exclusive'
  BY DEF Inv, TypeOK, Exclusive
<1>3. ~quit' => Accounted'
  BY DEF Inv, TypeOK, Exclusive, Accounted
<1>. QED BY <1>1, <1>2, <1>3 DEF Inv

(* Every step preserves the invariant.                                     *)
LEMMA NextInv == Inv /\ [Next]_vars => Inv'
<1>. SUFFICES ASSUME Inv, [Next]_vars PROVE Inv'
  OBVIOUS
<1>1. CASE HandOver
  BY <1>1, HandOverInv
<1>2. CASE EndWalk
  BY <1>2, EndWalkInv
<1>3. CASE Receive(InitRoutine)
  BY <1>3, ReceiveInv, SetInv DEF Receive, Receivers
<1>4. CASE InitDone
  BY <1>4, InitDoneInv
<1>5. ASSUME NEW c \in Callers, Step(c) PROVE Inv'
  BY <1>5, ReceiveInv, SetInv, ReadsInv, ClosesInv DEF Step, Receive, Receivers
<1>6. ASSUME NEW c \in Callers, NEW p \in {"valid", "read", "next", "close"}, Call(c, p) PROVE Inv'
  BY <1>6, CallInv
<1>7. CASE UNCHANGED vars
  BY <1>7 DEF vars, channel, cursor, Inv, TypeOK, Exclusive, Accounted
<1>. QED BY <1>1, <1>2, <1>3, <1>4, <1>5, <1>6, <1>7 DEF Next

(* The invariant holds throughout.                                         *)
THEOREM InvHolds == Spec => []Inv
BY InitInv, NextInv, PTL DEF Spec

(* Type correctness, for every set of callers and length of the range.     *)
THEOREM TypeCorrect == Spec => []TypeOK
<1>1. Inv => TypeOK
  BY DEF Inv
<1>. QED BY InvHolds, <1>1, PTL

(* Until Close the iterator shows the whole range in order, however many   *)
(* callers share it (iavlIterator.Next and Valid).                         *)
THEOREM RangeInOrder == Spec => []InOrder
<1>1. Inv => InOrder
  BY DEF Inv, Exclusive, Accounted, InOrder
<1>. QED BY InvHolds, <1>1, PTL

(* The iterator never shows an earlier item, and stays invalid once it is, *)
(* Close at any moment included.                                           *)
THEOREM NeverGoesBack == Spec => NeverBack
<1>1. Inv /\ [Next]_vars => [key' >= key /\ (invalid => invalid')]_vars
  <2>. SUFFICES ASSUME Inv, Next PROVE key' >= key /\ (invalid => invalid')
    OBVIOUS
  <2>. key \in Nat
    BY IteratorAssumption DEF Inv, TypeOK
  <2>1. ASSUME NEW r \in Receivers, SetNext(r) PROVE key' >= key /\ (invalid => invalid')
    BY <2>1, IteratorAssumption DEF SetNext, Inv, TypeOK, Exclusive
  <2>2. CASE UNCHANGED <<key, invalid>>
    BY <2>2
  <2>3. CASE \E r \in Receivers : SetNext(r)
    BY <2>1, <2>3
  <2>. QED
    BY <2>2, <2>3 DEF Next, HandOver, EndWalk, Receive, ReceiveEnd, InitDone, Step, Valid, Read,
       Advance, Close, Drained, Call, channel, cursor, Receivers
<1>. QED BY InvHolds, <1>1, PTL DEF Spec, NeverBack
=============================================================================
