--------------------------- MODULE WorkersProofs ---------------------------
(* Theorems about what the workers and the background syncs write:         *)
(* RefundFlow, OutboundDispatch, PlanSync and PromotionCoupons, for every  *)
(* value of their constants.                                               *)
EXTENDS RefundFlow, OutboundDispatch, PlanSync, PromotionCoupons,
        FiniteSetTheorems, TLAPS

(* Sizes of a set with one element more or less.                           *)
LEMMA OneMore ==
    ASSUME NEW X, NEW x, IsFiniteSet(X)
    PROVE  /\ IsFiniteSet(X \cup {x}) /\ IsFiniteSet(X \ {x})
           /\ Cardinality(X) \in Nat
           /\ Cardinality(X \cup {x}) \in Nat /\ Cardinality(X \ {x}) \in Nat
           /\ Cardinality(X \cup {x}) = IF x \in X THEN Cardinality(X)
                                        ELSE Cardinality(X) + 1
           /\ Cardinality(X \ {x}) = IF x \in X THEN Cardinality(X) - 1
                                     ELSE Cardinality(X)
<1>1. IsFiniteSet(X \cup {x}) /\ IsFiniteSet(X \ {x})
  BY FS_AddElement, FS_RemoveElement
<1>2. QED
  BY <1>1, FS_AddElement, FS_RemoveElement, FS_CardinalityType

-----------------------------------------------------------------------------
(* Refunds.  Refunders at one of the stages S.                             *)
At(S) == {y \in Refunders : stage[y] \in S}
Size(S) == Cardinality(At(S))

(* While no refund is recorded, the window has counted whoever is in it.   *)
WindowCounts == ~recorded => Size(Issuing \cup Owing) <= window

(* While the purchase is open and no refund is recorded, a refund made is  *)
(* one of an earlier window, one nothing will be written of, or one whose  *)
(* refunder is about to write.  Once it is closed, those that have still   *)
(* to ask count in the window; once a request is recorded, those that have *)
(* looked for it before.                                                   *)
IssuedCounted ==
    /\ (~recorded /\ purchase = "completed") =>
          issued <= unrecorded + Size(Owing) + earlier
    /\ (~recorded /\ purchase # "completed") =>
          issued + Size(Issuing) <= unrecorded + window + earlier
    /\ recorded =>
          issued + Size({"provider"}) <= unrecorded + window + earlier

RefundInductive ==
    RefundTypeOK /\ WindowCounts /\ IssuedCounted

(* One refunder goes from one stage to another.                            *)
LEMMA StageMoves ==
    ASSUME NEW x \in Refunders, NEW S, NEW to,
           stage \in [Refunders -> {"idle", "request"} \cup Issuing \cup Owing],
           stage' = [stage EXCEPT ![x] = to]
    PROVE  /\ Size(S) \in Nat /\ Size(S)' \in Nat
           /\ (stage[x] \in S <=> to \in S) => Size(S)' = Size(S)
           /\ stage[x] \in S /\ to \notin S => Size(S)' = Size(S) - 1
           /\ stage[x] \notin S /\ to \in S => Size(S)' = Size(S) + 1
<1>1. IsFiniteSet(At(S))
  BY FS_Subset, RefundAssumption DEF At
<1>2. PICK T : T = At(S)
  OBVIOUS
<1>3. At(S)' = IF to \in S THEN T \cup {x} ELSE T \ {x}
  BY <1>2 DEF At
<1>4. x \in T <=> stage[x] \in S
  BY <1>2 DEF At
<1>5. Size(S) = Cardinality(T) /\ Size(S)' = Cardinality(At(S)')
  BY <1>2 DEF Size
<1>6. /\ Cardinality(T) \in Nat
      /\ Cardinality(T \cup {x}) \in Nat /\ Cardinality(T \ {x}) \in Nat
      /\ Cardinality(T \cup {x}) = IF x \in T THEN Cardinality(T)
                                   ELSE Cardinality(T) + 1
      /\ Cardinality(T \ {x}) = IF x \in T THEN Cardinality(T) - 1
                                ELSE Cardinality(T)
  BY <1>1, <1>2, OneMore
<1>7. QED
  BY <1>3, <1>4, <1>5, <1>6

LEMMA SizeSums ==
    /\ Size(Issuing) \in Nat /\ Size(Owing) \in Nat
    /\ Size(Issuing \cup Owing) = Size(Issuing) + Size(Owing)
    /\ Size({"provider"}) \in Nat /\ Size({"provider"}) <= Size(Issuing)
<1>1. /\ IsFiniteSet(At(Issuing)) /\ IsFiniteSet(At(Owing))
      /\ IsFiniteSet(At({"provider"}))
  BY FS_Subset, RefundAssumption DEF At
<1>2. /\ At(Issuing \cup Owing) = At(Issuing) \cup At(Owing)
      /\ At(Issuing) \cap At(Owing) = {}
      /\ At({"provider"}) \subseteq At(Issuing)
  BY DEF At, Issuing, Owing
<1>3. Cardinality(At(Issuing) \cup At(Owing))
        = Cardinality(At(Issuing)) + Cardinality(At(Owing))
            - Cardinality(At(Issuing) \cap At(Owing))
  BY <1>1, FS_Union
<1>4. Cardinality(At(Issuing) \cap At(Owing)) = 0
  BY <1>2, FS_EmptySet
<1>5. Cardinality(At({"provider"})) <= Cardinality(At(Issuing))
  BY <1>1, <1>2, FS_Subset
<1>6. /\ Cardinality(At(Issuing)) \in Nat /\ Cardinality(At(Owing)) \in Nat
      /\ Cardinality(At({"provider"})) \in Nat
  BY <1>1, FS_CardinalityType
<1>7. Size(Issuing \cup Owing)
        = Cardinality(At(Issuing)) + Cardinality(At(Owing))
  <2>1. Size(Issuing \cup Owing) = Cardinality(At(Issuing) \cup At(Owing))
    BY <1>2 DEF Size
  <2>2. QED
    BY <1>3, <1>4, <1>6, <2>1
<1>8. /\ Size(Issuing) = Cardinality(At(Issuing))
      /\ Size(Owing) = Cardinality(At(Owing))
      /\ Size({"provider"}) = Cardinality(At({"provider"}))
  BY DEF Size
<1>9. QED
  BY <1>5, <1>6, <1>7, <1>8

(* When nobody changes stage the sizes stay.                               *)
LEMMA StagesStay ==
    ASSUME NEW S, UNCHANGED stage
    PROVE  Size(S)' = Size(S)
BY DEF Size, At

LEMMA UndecidedSize == Cardinality(Undecided) = Size(Issuing \cup Owing)
BY DEF Undecided, Size, At

(* Every step keeps the types.                                              *)
LEMMA RefundTypeStep ==
    ASSUME RefundTypeOK, [RefundNext]_refundVars
    PROVE  RefundTypeOK'
<1> USE DEF RefundTypeOK, Kinds, Issuing, Owing, purchaseVars, refunderVars,
          refundHistory
<1>1. ASSUME Fulfil PROVE RefundTypeOK'
  <2>1. Cardinality(Undecided) \in Nat
    BY UndecidedSize, SizeSums
  <2>2. QED
    BY <1>1, <2>1 DEF Fulfil
<1>2. ASSUME RecordPayment PROVE RefundTypeOK'
  BY <1>2 DEF RecordPayment
<1>3. ASSUME ReadFailing PROVE RefundTypeOK'
  BY <1>3 DEF ReadFailing
<1>4. ASSUME MarkFailed PROVE RefundTypeOK'
  BY <1>4 DEF MarkFailed
<1>5. ASSUME NEW x \in Refunders, NEW t \in Kinds, ReadPurchase(x, t)
     PROVE  RefundTypeOK'
  <2>1. Cardinality(Undecided) + 1 \in Nat
    BY UndecidedSize, SizeSums
  <2>2. QED
    BY <1>5, <2>1 DEF ReadPurchase
<1>6. ASSUME NEW x \in Refunders, RecordRequest(x) PROVE RefundTypeOK'
  BY <1>6 DEF RecordRequest, Ends
<1>7. ASSUME NEW x \in Refunders, FindExisting(x) PROVE RefundTypeOK'
  BY <1>7 DEF FindExisting, Turns, Ends, HasRefund
<1>8. ASSUME NEW x \in Refunders, CreateRefund(x) PROVE RefundTypeOK'
  BY <1>8 DEF CreateRefund, Turns, Ends, RefundFault
<1>9. ASSUME NEW x \in Refunders, ClosePurchase(x) PROVE RefundTypeOK'
  BY <1>9 DEF ClosePurchase, Ends
<1>10. ASSUME NEW x \in Refunders, RefundFails(x) PROVE RefundTypeOK'
  BY <1>10 DEF RefundFails, RefundFault, Ends
<1>11. CASE UNCHANGED refundVars
  BY <1>11 DEF refundVars, purchaseVars, refunderVars, refundHistory
<1>12. QED
  BY <1>1, <1>2, <1>3, <1>4, <1>5, <1>6, <1>7, <1>8, <1>9, <1>10, <1>11
     DEF RefundNext

(* Which stages are which.                                                 *)
LEMMA Stages ==
    /\ "existing" \in Issuing /\ "provider" \in Issuing
    /\ "mark" \notin Issuing /\ "idle" \notin Issuing
    /\ "request" \notin Issuing
    /\ "mark" \in Owing /\ "existing" \notin Owing
    /\ "provider" \notin Owing /\ "idle" \notin Owing /\ "request" \notin Owing
BY DEF Issuing, Owing

(* A refunder that fails or ends was at some stage.                        *)
LEMMA EndSizes ==
    ASSUME RefundTypeOK, NEW x \in Refunders, Ends(x)
    PROVE  /\ Size(Issuing)' = IF stage[x] \in Issuing THEN Size(Issuing) - 1
                               ELSE Size(Issuing)
           /\ Size(Owing)' = IF stage[x] \in Owing THEN Size(Owing) - 1
                             ELSE Size(Owing)
           /\ Size({"provider"})' = IF stage[x] = "provider"
                                    THEN Size({"provider"}) - 1
                                    ELSE Size({"provider"})
<1>1. stage' = [stage EXCEPT ![x] = "idle"]
  BY DEF Ends
<1>2. stage \in [Refunders -> {"idle", "request"} \cup Issuing \cup Owing]
  BY DEF RefundTypeOK
<1>3. /\ "idle" \notin Issuing /\ "idle" \notin Owing
      /\ "idle" \notin {"provider"}
  BY Stages
<1>4. QED
  BY <1>1, <1>2, <1>3, StageMoves

(* Every step keeps the account of the refunds.                            *)
LEMMA RefundCounts ==
    ASSUME RefundTypeOK, RefundTypeOK', WindowCounts, IssuedCounted,
           [RefundNext]_refundVars
    PROVE  WindowCounts' /\ IssuedCounted'
<1> DEFINE SumNext == /\ Size(Issuing)' \in Nat /\ Size(Owing)' \in Nat
                      /\ Size(Issuing \cup Owing)'
                           = Size(Issuing)' + Size(Owing)'
                      /\ Size({"provider"})' \in Nat
                      /\ Size({"provider"})' <= Size(Issuing)'
<1>1. SumNext
  <2>1. /\ IsFiniteSet(At(Issuing)') /\ IsFiniteSet(At(Owing)')
        /\ IsFiniteSet(At({"provider"})')
    BY FS_Subset, RefundAssumption DEF At
  <2>2. /\ At(Issuing \cup Owing)' = At(Issuing)' \cup At(Owing)'
        /\ At(Issuing)' \cap At(Owing)' = {}
        /\ At({"provider"})' \subseteq At(Issuing)'
    BY DEF At, Issuing, Owing
  <2>3. Cardinality(At(Issuing)' \cup At(Owing)')
          = Cardinality(At(Issuing)') + Cardinality(At(Owing)')
              - Cardinality(At(Issuing)' \cap At(Owing)')
    BY <2>1, FS_Union
  <2>4. Cardinality(At(Issuing)' \cap At(Owing)') = 0
    BY <2>2, FS_EmptySet
  <2>5. Cardinality(At({"provider"})') <= Cardinality(At(Issuing)')
    BY <2>1, <2>2, FS_Subset
  <2>6. /\ Cardinality(At(Issuing)') \in Nat /\ Cardinality(At(Owing)') \in Nat
        /\ Cardinality(At({"provider"})') \in Nat
    BY <2>1, FS_CardinalityType
  <2>7. Size(Issuing \cup Owing)'
          = Cardinality(At(Issuing)') + Cardinality(At(Owing)')
    <3>1. Size(Issuing \cup Owing)' = Cardinality(At(Issuing)' \cup At(Owing)')
      BY <2>2 DEF Size
    <3>2. QED
      BY <2>3, <2>4, <2>6, <3>1
  <2>8. /\ Size(Issuing)' = Cardinality(At(Issuing)')
        /\ Size(Owing)' = Cardinality(At(Owing)')
        /\ Size({"provider"})' = Cardinality(At({"provider"})')
    BY DEF Size
  <2>9. QED
    BY <2>5, <2>6, <2>7, <2>8
<1>2. /\ issued \in Nat /\ unrecorded \in Nat /\ window \in Nat
      /\ earlier \in Nat /\ recorded \in BOOLEAN
      /\ issued' \in Nat /\ unrecorded' \in Nat /\ window' \in Nat
      /\ earlier' \in Nat
      /\ stage \in [Refunders -> {"idle", "request"} \cup Issuing \cup Owing]
  BY DEF RefundTypeOK
<1>3. CASE UNCHANGED stage /\ UNCHANGED recorded /\ issued' = issued
           /\ unrecorded' = unrecorded
  <2>1. /\ Size(Issuing)' = Size(Issuing) /\ Size(Owing)' = Size(Owing)
        /\ Size({"provider"})' = Size({"provider"})
        /\ Size(Issuing \cup Owing)' = Size(Issuing \cup Owing)
    BY <1>3, StagesStay
  <2>3. CASE UNCHANGED <<purchase, window, earlier>>
    BY <1>3, <2>1, <2>3 DEF WindowCounts, IssuedCounted
  <2>4. CASE Fulfil
    <3>1. CASE purchase # "completed" /\ ~recorded
      <4>1. /\ earlier' = earlier + window /\ purchase' = "completed"
            /\ window' = Size(Issuing \cup Owing)
        BY <2>4, <3>1, UndecidedSize DEF Fulfil
      <4>2. issued + Size(Issuing) <= unrecorded + window + earlier
        BY <3>1 DEF IssuedCounted
      <4>3. QED
        BY <1>2, <1>3, <2>1, <3>1, <4>1, <4>2, SizeSums
           DEF WindowCounts, IssuedCounted
    <3>2. CASE ~(purchase # "completed" /\ ~recorded)
      <4>1. UNCHANGED <<earlier, window>> /\ purchase' = "completed"
        BY <2>4, <3>2 DEF Fulfil
      <4>2. QED
        BY <1>3, <2>1, <3>2, <4>1 DEF WindowCounts, IssuedCounted
    <3>3. QED
      BY <3>1, <3>2
  <2>5. CASE MarkFailed
    <3>1. UNCHANGED <<earlier, window>> /\ purchase' = "failed"
      BY <2>5 DEF MarkFailed, refundHistory
    <3>2. WindowCounts'
      BY <1>3, <2>1, <3>1 DEF WindowCounts
    <3>3. ~recorded => issued + Size(Issuing) <= unrecorded + window + earlier
      BY <1>2, SizeSums DEF IssuedCounted, WindowCounts
    <3>4. QED
      BY <1>3, <2>1, <3>1, <3>2, <3>3 DEF IssuedCounted
  <2>6. QED
    <3>1. CASE RecordPayment \/ ReadFailing \/ UNCHANGED refundVars
      BY <2>3, <3>1 DEF RecordPayment, ReadFailing, refundVars, refundHistory,
         purchaseVars
    <3>2. ASSUME NEW x \in Refunders,
                 RecordRequest(x) \/ FindExisting(x) \/ CreateRefund(x)
                 \/ ClosePurchase(x) \/ RefundFails(x)
                 \/ \E t \in Kinds : ReadPurchase(x, t)
          PROVE  FALSE
      <4>1. \E to \in {"idle", "request"} \cup Issuing \cup Owing :
               to # stage[x] /\ stage' = [stage EXCEPT ![x] = to]
        BY <3>2, Stages DEF RecordRequest, FindExisting, CreateRefund,
           ClosePurchase, RefundFails, ReadPurchase, Turns, Ends
      <4>2. QED
        BY <1>2, <1>3, <4>1
    <3>3. QED
      BY <2>4, <2>5, <3>1, <3>2 DEF RefundNext
<1>4. ASSUME NEW x \in Refunders, NEW t \in Kinds, ReadPurchase(x, t)
      PROVE  WindowCounts' /\ IssuedCounted'
  <2>1. PICK to : to = IF t = "request" THEN "request" ELSE "existing"
    OBVIOUS
  <2>2. stage' = [stage EXCEPT ![x] = to] /\ stage[x] = "idle"
    BY <1>4, <2>1 DEF ReadPurchase
  <2>3. /\ stage[x] \notin Issuing /\ stage[x] \notin Owing
        /\ stage[x] \notin {"provider"} /\ to \notin Owing
        /\ to \notin {"provider"} /\ (to \in Issuing <=> t # "request")
    BY <2>1, <2>2, Stages
  <2>4. /\ Size(Issuing)' = IF t = "request" THEN Size(Issuing)
                            ELSE Size(Issuing) + 1
        /\ Size(Owing)' = Size(Owing)
        /\ Size({"provider"})' = Size({"provider"})
    BY <1>2, <2>2, <2>3, StageMoves
  <2>5. /\ UNCHANGED <<purchase, recorded, issued, unrecorded, earlier>>
        /\ purchase = "completed"
    BY <1>4 DEF ReadPurchase, purchaseVars
  <2>6. PICK n : n = Size(Issuing \cup Owing) + 1
    OBVIOUS
  <2>7. window' = IF t # "request" /\ ~recorded /\ n > window THEN n
                  ELSE window
    BY <1>4, <2>6, UndecidedSize DEF ReadPurchase
  <2>8. window' >= window /\ ((t # "request" /\ ~recorded) => window' >= n)
    BY <1>2, <2>6, <2>7, SizeSums
  <2>9. WindowCounts'
    BY <1>1, <1>2, <2>4, <2>5, <2>6, <2>8, SizeSums DEF WindowCounts
  <2>10. IssuedCounted'
    BY <1>1, <1>2, <2>4, <2>5, <2>8, SizeSums DEF IssuedCounted
  <2>11. QED
    BY <2>9, <2>10
<1>5. ASSUME NEW x \in Refunders, Ends(x), stage[x] \notin Owing,
             UNCHANGED <<purchase, recorded, window, earlier>>,
             \/ issued' = issued /\ unrecorded' = unrecorded
             \/ issued' = issued + 1 /\ unrecorded' = unrecorded + 1
      PROVE  WindowCounts' /\ IssuedCounted'
  <2>1. /\ Size(Issuing)' <= Size(Issuing) /\ Size(Owing)' = Size(Owing)
        /\ Size({"provider"})' <= Size({"provider"})
    BY <1>5, EndSizes, SizeSums
  <2>2. QED
    BY <1>1, <1>2, <1>5, <2>1, SizeSums DEF WindowCounts, IssuedCounted
<1>6. ASSUME NEW x \in Refunders, FindExisting(x)
      PROVE  WindowCounts' /\ IssuedCounted'
  <2>1. /\ UNCHANGED <<purchase, recorded, window, earlier, issued, unrecorded>>
        /\ stage[x] \in Issuing /\ stage[x] \notin Owing
        /\ stage[x] # "provider"
    BY <1>6, Stages DEF FindExisting, purchaseVars, refundHistory
  <2>2. CASE Ends(x)
    BY <1>5, <2>1, <2>2
  <2>3. CASE Turns(x, "provider") /\ ~recorded
    <3>1. stage' = [stage EXCEPT ![x] = "provider"]
      BY <2>3 DEF Turns
    <3>2. "provider" \in Issuing /\ "provider" \notin Owing
      BY Stages
    <3>3. /\ Size(Issuing)' = Size(Issuing) /\ Size(Owing)' = Size(Owing)
      BY <1>2, <2>1, <3>1, <3>2, StageMoves
    <3>4. QED
      BY <1>1, <1>2, <2>1, <2>3, <3>3, SizeSums
         DEF WindowCounts, IssuedCounted
  <2>4. QED
    BY <1>6, <2>2, <2>3 DEF FindExisting, HasRefund
<1>7. ASSUME NEW x \in Refunders, CreateRefund(x)
      PROVE  WindowCounts' /\ IssuedCounted'
  <2>1. /\ UNCHANGED <<purchase, recorded, window, earlier>>
        /\ issued' = issued + 1 /\ stage[x] = "provider"
        /\ stage[x] \in Issuing /\ stage[x] \notin Owing
    BY <1>7, Stages DEF CreateRefund, purchaseVars
  <2>2. CASE Ends(x) /\ unrecorded' = unrecorded + 1
    BY <1>5, <2>1, <2>2
  <2>3. CASE ~(Ends(x) /\ unrecorded' = unrecorded + 1)
    <3>1. PICK to \in Owing : Turns(x, to) /\ UNCHANGED unrecorded
      BY <1>7, <2>3, Stages DEF CreateRefund
    <3>2. stage' = [stage EXCEPT ![x] = to]
      BY <3>1 DEF Turns
    <3>3. to \notin Issuing /\ to \notin {"provider"}
      BY <3>1 DEF Owing, Issuing
    <3>4. /\ Size(Issuing)' = Size(Issuing) - 1
          /\ Size(Owing)' = Size(Owing) + 1
          /\ Size({"provider"})' = Size({"provider"}) - 1
      BY <1>2, <2>1, <3>1, <3>2, <3>3, StageMoves
    <3>5. QED
      BY <1>1, <1>2, <2>1, <3>1, <3>4, SizeSums
         DEF WindowCounts, IssuedCounted
  <2>4. QED
    BY <2>2, <2>3
<1>8. ASSUME NEW x \in Refunders, RecordRequest(x)
      PROVE  WindowCounts' /\ IssuedCounted'
  <2>1. /\ UNCHANGED <<purchase, window, earlier, issued, unrecorded>>
        /\ stage[x] = "request" /\ Ends(x)
        /\ recorded => recorded'
    BY <1>8 DEF RecordRequest, refundHistory
  <2>2. /\ Size(Issuing)' = Size(Issuing) /\ Size(Owing)' = Size(Owing)
        /\ Size({"provider"})' = Size({"provider"})
    BY <2>1, EndSizes, Stages
  <2>3. issued + Size({"provider"}) <= unrecorded + window + earlier
    BY <1>2, SizeSums DEF WindowCounts, IssuedCounted
  <2>4. QED
    BY <1>1, <1>2, <2>1, <2>2, <2>3, SizeSums DEF WindowCounts, IssuedCounted
<1>9. ASSUME NEW x \in Refunders, ClosePurchase(x)
      PROVE  WindowCounts' /\ IssuedCounted'
  <2>1. /\ UNCHANGED <<recorded, window, earlier, issued, unrecorded>>
        /\ Ends(x) /\ purchase' # "completed" /\ stage[x] = "mark"
        /\ stage[x] \in Owing /\ stage[x] \notin Issuing
    BY <1>9, Stages DEF ClosePurchase, refundHistory
  <2>2. /\ Size(Issuing)' = Size(Issuing) /\ Size(Owing)' = Size(Owing) - 1
        /\ Size({"provider"})' = Size({"provider"})
    BY <2>1, EndSizes
  <2>3. CASE recorded
    BY <1>1, <1>2, <2>1, <2>2, <2>3, SizeSums DEF WindowCounts, IssuedCounted
  <2>4. CASE ~recorded
    <3>1. issued + Size(Issuing) <= unrecorded + window + earlier
      BY <1>2, <2>4, SizeSums DEF WindowCounts, IssuedCounted
    <3>2. QED
      BY <1>1, <1>2, <2>1, <2>2, <2>4, <3>1, SizeSums
         DEF WindowCounts, IssuedCounted
  <2>5. QED
    BY <2>3, <2>4
<1>10. ASSUME NEW x \in Refunders, RefundFails(x)
       PROVE  WindowCounts' /\ IssuedCounted'
  <2>1. /\ UNCHANGED <<purchase, recorded, window, earlier, issued>> /\ Ends(x)
    BY <1>10 DEF RefundFails, purchaseVars
  <2>2. CASE stage[x] \notin Owing
    <3>1. unrecorded' = unrecorded
      BY <1>10, <2>2 DEF RefundFails
    <3>2. QED
      BY <1>5, <2>1, <2>2, <3>1
  <2>3. CASE stage[x] \in Owing
    <3>1. unrecorded' = unrecorded + 1
      BY <1>10, <2>3 DEF RefundFails
    <3>2. stage[x] \notin Issuing /\ stage[x] # "provider"
      BY <2>3 DEF Owing, Issuing
    <3>3. /\ Size(Issuing)' = Size(Issuing) /\ Size(Owing)' = Size(Owing) - 1
          /\ Size({"provider"})' = Size({"provider"})
      BY <2>1, <2>3, <3>2, EndSizes
    <3>4. QED
      BY <1>1, <1>2, <2>1, <3>1, <3>3, SizeSums
         DEF WindowCounts, IssuedCounted
  <2>4. QED
    BY <2>2, <2>3
<1>11. CASE Fulfil \/ RecordPayment \/ ReadFailing \/ MarkFailed
            \/ UNCHANGED refundVars
  <2>1. /\ UNCHANGED stage /\ UNCHANGED recorded /\ issued' = issued
        /\ unrecorded' = unrecorded
    BY <1>11 DEF Fulfil, RecordPayment, ReadFailing, MarkFailed, refundVars,
       refunderVars, purchaseVars, refundHistory
  <2>2. QED
    BY <1>3, <2>1
<1>12. QED
  BY <1>4, <1>6, <1>7, <1>8, <1>9, <1>10, <1>11 DEF RefundNext

(* Nothing has been asked and nothing refunded.                            *)
LEMMA RefundBegin ==
    RefundInit => RefundInductive
<1> SUFFICES ASSUME RefundInit PROVE RefundInductive
  OBVIOUS
<1>1. RefundTypeOK
  <2>1. /\ stage \in [Refunders -> {"idle", "request"} \cup Issuing \cup Owing]
        /\ kind \in [Refunders -> Kinds]
    BY DEF RefundInit, Kinds
  <2>2. failing \in BOOLEAN /\ recorded \in BOOLEAN
    BY DEF RefundInit
  <2>3. /\ {asked, refundFaults, fulfilments} \subseteq Nat
        /\ {issued, unrecorded, window, earlier} \subseteq Nat
    BY DEF RefundInit
  <2>4. /\ purchase \in {"pending", "completed", "failed"}
        /\ payment \in {"none", "row", "linked"}
    BY DEF RefundInit
  <2>5. QED
    BY <2>1, <2>2, <2>3, <2>4 DEF RefundTypeOK
<1>2. /\ At(Issuing) = {} /\ At({"provider"}) = {}
      /\ At(Issuing \cup Owing) = {}
  BY DEF RefundInit, At, Issuing, Owing
<1>3. Size(Issuing) = 0 /\ Size({"provider"}) = 0 /\ Size(Issuing \cup Owing) = 0
  BY <1>2, FS_EmptySet DEF Size
<1>4. WindowCounts /\ IssuedCounted
  BY <1>3 DEF RefundInit, WindowCounts, IssuedCounted
<1>5. QED
  BY <1>1, <1>4 DEF RefundInductive

THEOREM RefundInvariant == RefundSpec => []RefundInductive
<1>1. RefundInductive /\ [RefundNext]_refundVars => RefundInductive'
  BY RefundTypeStep, RefundCounts DEF RefundInductive
<1>2. QED
  BY <1>1, RefundBegin, PTL DEF RefundSpec

(* A purchase is refunded once for each job that had read it as open, and  *)
(* once for each refund nothing was written of (process-refund.ts).        *)
THEOREM RefundLimit == RefundSpec => []RefundsBounded
<1>1. RefundInductive => RefundsBounded
  <2> SUFFICES ASSUME RefundInductive PROVE RefundsBounded
    OBVIOUS
  <2>1. /\ issued \in Nat /\ unrecorded \in Nat /\ window \in Nat
        /\ earlier \in Nat
    BY DEF RefundInductive, RefundTypeOK
  <2>2. QED
    BY <2>1, SizeSums DEF RefundInductive, WindowCounts, IssuedCounted,
       RefundsBounded
<1>2. QED
  BY <1>1, RefundInvariant, PTL

-----------------------------------------------------------------------------
(* One outbound event.  Posts of an endpoint that are on their way.        *)
PostsTo(h) == {f \in posting : f[2] = h}

(* A post belongs to a run there has been, and one of the present run is   *)
(* to an endpoint that it has read.                                        *)
PostsOfRuns ==
    /\ \A f \in posting : /\ f[1] <= round
                          /\ job = "active" /\ f[1] = round
                                => f[2] \in deliveries
    /\ \A l \in logging : /\ l[1] <= round
                          /\ job = "active" /\ l[1] = round
                                => l[2] \in deliveries

(* A success that is to be logged, or has been, was an answer of 2xx.      *)
SuccessAccepted ==
    /\ \A l \in logging : l[3] => l[2] \in accepted
    /\ \A r \in results : r[2] => r[1] \in accepted

(* Every endpoint the run has read is in a later batch, on its way, or     *)
(* among the results.                                                      *)
RunCovers ==
    /\ job = "active" =>
          /\ steady \subseteq deliveries
          /\ \A h \in deliveries :
                \/ h \in queued
                \/ <<round, h>> \in posting
                \/ \E ok \in BOOLEAN : <<round, h, ok>> \in logging
                \/ \E ok \in BOOLEAN : <<h, ok>> \in results
    /\ DoneReachesAll

(* A run posts to an endpoint once.                                        *)
CopiesCounted ==
    \A h \in Hooks :
        /\ IsFiniteSet(PostsTo(h))
        /\ received[h] + Cardinality(PostsTo(h))
             + (IF job = "active" /\ h \in queued THEN 1 ELSE 0) <= round

(* Every run but the first follows something that went wrong in the one    *)
(* before.                                                                 *)
RoundsExplained ==
    /\ round <= 1 + troubles
    /\ job \in {"none", "lost"} => round = 0
    /\ job = "waiting" => round <= troubles
    /\ job = "active" =>
          (((\E r \in results : ~r[2])
              \/ (\E l \in logging : l[1] = round /\ ~l[3]))
           => round <= troubles)

OutboundInductive ==
    /\ OutboundTypeOK /\ PostsOfRuns /\ SuccessAccepted /\ RunCovers
    /\ CopiesCounted /\ RoundsExplained

(* What posts and log rows are made of.                                    *)
LEMMA PostTypes ==
    ASSUME OutboundTypeOK
    PROVE  /\ \A f \in posting :
                 f[1] \in Nat /\ f[2] \in Hooks /\ f = <<f[1], f[2]>>
           /\ \A l \in logging :
                 /\ l[1] \in Nat /\ l[2] \in Hooks /\ l[3] \in BOOLEAN
                 /\ l = <<l[1], l[2], l[3]>>
           /\ \A r \in results :
                 r[1] \in Hooks /\ r[2] \in BOOLEAN /\ r = <<r[1], r[2]>>
<1>1. /\ posting \subseteq Nat \X Hooks
      /\ logging \subseteq Nat \X Hooks \X BOOLEAN
      /\ results \subseteq Hooks \X BOOLEAN
  BY DEF OutboundTypeOK
<1>2. QED
  BY <1>1

(* Every step keeps the types.                                              *)
LEMMA OutboundTypeStep ==
    ASSUME OutboundTypeOK, PostsOfRuns, [OutboundNext]_outboundVars
    PROVE  OutboundTypeOK'
<1> USE OutboundAssumption
        DEF OutboundTypeOK, jobVars, runVars
<1>1. ASSUME Fire PROVE OutboundTypeOK'
  BY <1>1 DEF Fire
<1>2. ASSUME TakeDispatch PROVE OutboundTypeOK'
  BY <1>2 DEF TakeDispatch
<1>3. ASSUME EndDispatch PROVE OutboundTypeOK'
  BY <1>3 DEF EndDispatch, FailAttempt
<1>4. ASSUME WorkerDies PROVE OutboundTypeOK'
  BY <1>4 DEF WorkerDies, Trouble
<1>5. ASSUME NEW h \in Hooks, EditHook(h) PROVE OutboundTypeOK'
  BY <1>5 DEF EditHook
<1>6. ASSUME NEW batch \in SUBSET queued, NextBatch(batch)
     PROVE  OutboundTypeOK'
  BY <1>6 DEF NextBatch
<1>7. ASSUME NEW f \in posting, NEW got \in BOOLEAN, NEW ok \in BOOLEAN,
            Post(f, got, ok)
     PROVE  OutboundTypeOK'
  BY <1>7 DEF Post, Trouble
<1>8. ASSUME NEW l \in logging, LogDelivery(l) PROVE OutboundTypeOK'
  <2>1. CASE job = "active" /\ l[1] = round
    <3>1. <<l[2], l[3]>> \in deliveries \X BOOLEAN
      BY <2>1, PostTypes DEF PostsOfRuns
    <3>2. results' \subseteq deliveries \X BOOLEAN
      BY <1>8, <2>1, <3>1 DEF LogDelivery
    <3>3. QED
      BY <1>8, <3>2 DEF LogDelivery
  <2>2. CASE ~(job = "active" /\ l[1] = round)
    BY <1>8, <2>2 DEF LogDelivery
  <2>3. QED
    BY <2>1, <2>2
<1>9. ASSUME NEW l \in logging, LogFails(l) PROVE OutboundTypeOK'
  BY <1>9 DEF LogFails, Trouble, FailAttempt
<1>10. CASE UNCHANGED outboundVars
  BY <1>10 DEF outboundVars, jobVars, runVars
<1>11. QED
  BY <1>1, <1>2, <1>3, <1>4, <1>5, <1>6, <1>7, <1>8, <1>9, <1>10
     DEF OutboundNext

(* Posts stay those of their runs.                                          *)
LEMMA PostsOfRunsStep ==
    ASSUME OutboundTypeOK, PostsOfRuns, [OutboundNext]_outboundVars
    PROVE  PostsOfRuns'
<1> USE DEF OutboundTypeOK, PostsOfRuns, jobVars, runVars
<1>1. ASSUME Fire PROVE PostsOfRuns'
  BY <1>1 DEF Fire
<1>2. ASSUME TakeDispatch PROVE PostsOfRuns'
  BY <1>2 DEF TakeDispatch
<1>3. ASSUME EndDispatch PROVE PostsOfRuns'
  BY <1>3 DEF EndDispatch, FailAttempt
<1>4. ASSUME WorkerDies PROVE PostsOfRuns'
  BY <1>4 DEF WorkerDies, Trouble
<1>5. ASSUME NEW h \in Hooks, EditHook(h) PROVE PostsOfRuns'
  BY <1>5 DEF EditHook
<1>6. ASSUME NEW batch \in SUBSET queued, NextBatch(batch) PROVE PostsOfRuns'
  BY <1>6 DEF NextBatch
<1>7. ASSUME NEW f \in posting, NEW got \in BOOLEAN, NEW ok \in BOOLEAN,
            Post(f, got, ok)
     PROVE  PostsOfRuns'
  BY <1>7 DEF Post, Trouble
<1>8. ASSUME NEW l \in logging, LogDelivery(l) PROVE PostsOfRuns'
  BY <1>8 DEF LogDelivery
<1>9. ASSUME NEW l \in logging, LogFails(l) PROVE PostsOfRuns'
  BY <1>9 DEF LogFails, Trouble, FailAttempt
<1>10. CASE UNCHANGED outboundVars
  BY <1>10 DEF outboundVars, jobVars, runVars
<1>11. QED
  BY <1>1, <1>2, <1>3, <1>4, <1>5, <1>6, <1>7, <1>8, <1>9, <1>10
     DEF OutboundNext

(* A success stays an answer of 2xx.                                        *)
LEMMA SuccessAcceptedStep ==
    ASSUME OutboundTypeOK, SuccessAccepted, [OutboundNext]_outboundVars
    PROVE  SuccessAccepted'
<1> USE DEF SuccessAccepted, jobVars, runVars
<1>1. ASSUME Fire PROVE SuccessAccepted'
  BY <1>1 DEF Fire
<1>2. ASSUME TakeDispatch PROVE SuccessAccepted'
  BY <1>2 DEF TakeDispatch
<1>3. ASSUME EndDispatch PROVE SuccessAccepted'
  BY <1>3 DEF EndDispatch, FailAttempt
<1>4. ASSUME WorkerDies PROVE SuccessAccepted'
  BY <1>4 DEF WorkerDies, Trouble
<1>5. ASSUME NEW h \in Hooks, EditHook(h) PROVE SuccessAccepted'
  BY <1>5 DEF EditHook
<1>6. ASSUME NEW batch \in SUBSET queued, NextBatch(batch)
     PROVE  SuccessAccepted'
  BY <1>6 DEF NextBatch
<1>7. ASSUME NEW f \in posting, NEW got \in BOOLEAN, NEW ok \in BOOLEAN,
            Post(f, got, ok)
     PROVE  SuccessAccepted'
  BY <1>7 DEF Post, Trouble
<1>8. ASSUME NEW l \in logging, LogDelivery(l) PROVE SuccessAccepted'
  BY <1>8 DEF LogDelivery
<1>9. ASSUME NEW l \in logging, LogFails(l) PROVE SuccessAccepted'
  BY <1>9 DEF LogFails, Trouble, FailAttempt
<1>10. CASE UNCHANGED outboundVars
  BY <1>10 DEF outboundVars, jobVars, runVars
<1>11. QED
  BY <1>1, <1>2, <1>3, <1>4, <1>5, <1>6, <1>7, <1>8, <1>9, <1>10
     DEF OutboundNext

(* Where an endpoint of the run may be.                                    *)
Seen(h) == \/ <<round, h>> \in posting
           \/ \E ok \in BOOLEAN : <<round, h, ok>> \in logging
           \/ \E ok \in BOOLEAN : <<h, ok>> \in results

LEMMA CoversStay ==
    ASSUME OutboundTypeOK, RunCovers,
           UNCHANGED <<job, round, deliveries, queued, steady>>,
           accepted \subseteq accepted',
           \A h \in Hooks : job = "active" /\ Seen(h) => Seen(h)'
    PROVE  RunCovers'
<1>1. DoneReachesAll'
  BY DEF RunCovers, DoneReachesAll
<1>2. ASSUME job = "active" PROVE \A h \in deliveries : h \in queued \/ Seen(h)'
  BY <1>2 DEF RunCovers, Seen, OutboundTypeOK
<1>3. ASSUME job = "active", NEW h \in deliveries'
      PROVE  \/ h \in queued'
             \/ <<round', h>> \in posting'
             \/ \E ok \in BOOLEAN : <<round', h, ok>> \in logging'
             \/ \E ok \in BOOLEAN : <<h, ok>> \in results'
  BY <1>2, <1>3 DEF Seen
<1>4. QED
  BY <1>1, <1>3 DEF RunCovers

(* The run loses sight of no endpoint.                                      *)
LEMMA RunCoversStep ==
    ASSUME OutboundTypeOK, SuccessAccepted, RunCovers,
           [OutboundNext]_outboundVars
    PROVE  RunCovers'
<1> USE DEF OutboundTypeOK, RunCovers, DoneReachesAll, jobVars, runVars
<1>1. ASSUME Fire PROVE RunCovers'
  BY <1>1 DEF Fire
<1>2. ASSUME TakeDispatch PROVE RunCovers'
  BY <1>2 DEF TakeDispatch
<1>3. ASSUME EndDispatch PROVE RunCovers'
  <2>1. CASE Failed(results)
    BY <1>3, <2>1 DEF EndDispatch, FailAttempt
  <2>2. CASE ~Failed(results)
    <3>1. steady \subseteq deliveries /\ queued = {}
      BY <1>3 DEF EndDispatch
    <3>2. ASSUME NEW h \in deliveries PROVE h \in accepted
      <4>1. <<round, h>> \notin posting
        BY <1>3 DEF EndDispatch, Busy
      <4>2. \A ok \in BOOLEAN : <<round, h, ok>> \notin logging
        BY <1>3 DEF EndDispatch, Busy
      <4>3. PICK ok \in BOOLEAN : <<h, ok>> \in results
        BY <1>3, <3>1, <4>1, <4>2 DEF EndDispatch
      <4>4. ok
        BY <2>2, <4>3 DEF Failed
      <4>5. QED
        BY <4>3, <4>4 DEF SuccessAccepted
    <3>3. job' = "done" /\ steady' = steady /\ accepted' = accepted
      BY <1>3, <2>2 DEF EndDispatch
    <3>4. QED
      BY <3>1, <3>2, <3>3
  <2>3. QED
    BY <2>1, <2>2
<1>4. ASSUME WorkerDies PROVE RunCovers'
  BY <1>4 DEF WorkerDies, Trouble
<1>5. ASSUME NEW h \in Hooks, EditHook(h) PROVE RunCovers'
  BY <1>5 DEF EditHook
<1>6. ASSUME NEW batch \in SUBSET queued, NextBatch(batch) PROVE RunCovers'
  BY <1>6 DEF NextBatch
<1>7. ASSUME NEW f \in posting, NEW got \in BOOLEAN, NEW ok \in BOOLEAN,
            Post(f, got, ok)
     PROVE  RunCovers'
  <2>1. <<f[1], f[2], ok>> \in logging' /\ f = <<f[1], f[2]>>
    BY <1>7, PostTypes DEF Post
  <2>2. /\ posting' = posting \ {f} /\ logging \subseteq logging'
        /\ accepted \subseteq accepted'
        /\ UNCHANGED <<job, round, deliveries, queued, results, steady>>
    BY <1>7 DEF Post
  <2>3. \A h \in Hooks : Seen(h) => Seen(h)'
    <3> SUFFICES ASSUME NEW h \in Hooks, Seen(h) PROVE Seen(h)'
      OBVIOUS
    <3>1. CASE f = <<round, h>>
      <4>1. f[1] = round /\ f[2] = h
        BY <3>1
      <4>2. QED
        BY <2>1, <2>2, <4>1 DEF Seen
    <3>2. CASE f # <<round, h>>
      BY <2>2, <3>2 DEF Seen
    <3>3. QED
      BY <3>1, <3>2
  <2>4. QED
    BY <2>2, <2>3, CoversStay
<1>8. ASSUME NEW l \in logging, LogDelivery(l) PROVE RunCovers'
  <2>1. l = <<l[1], l[2], l[3]>> /\ l[3] \in BOOLEAN
    BY PostTypes
  <2>2. job = "active" /\ l[1] = round => <<l[2], l[3]>> \in results'
    BY <1>8 DEF LogDelivery
  <2>3. /\ logging' = logging \ {l} /\ results \subseteq results'
        /\ UNCHANGED <<job, round, deliveries, queued, posting, steady,
                       accepted>>
    BY <1>8 DEF LogDelivery
  <2>4. \A h \in Hooks : job = "active" /\ Seen(h) => Seen(h)'
    <3> SUFFICES ASSUME NEW h \in Hooks, job = "active", Seen(h)
                 PROVE  Seen(h)'
      OBVIOUS
    <3>1. CASE \E ok \in BOOLEAN : l = <<round, h, ok>>
      <4>1. l[1] = round /\ l[2] = h
        BY <3>1
      <4>2. QED
        BY <2>1, <2>2, <4>1 DEF Seen
    <3>2. CASE ~ \E ok \in BOOLEAN : l = <<round, h, ok>>
      BY <2>3, <3>2 DEF Seen
    <3>3. QED
      BY <3>1, <3>2
  <2>5. QED
    BY <2>3, <2>4, CoversStay
<1>9. ASSUME NEW l \in logging, LogFails(l) PROVE RunCovers'
  <2>1. CASE job = "active" /\ l[1] = round
    BY <1>9, <2>1 DEF LogFails, FailAttempt
  <2>2. CASE ~(job = "active" /\ l[1] = round)
    <3>1. /\ logging' = logging \ {l}
          /\ UNCHANGED <<job, round, deliveries, queued, results, posting,
                         steady, accepted>>
      BY <1>9, <2>2 DEF LogFails
    <3>2. \A h \in Hooks : job = "active" /\ Seen(h) => Seen(h)'
      <4> SUFFICES ASSUME NEW h \in Hooks, job = "active", Seen(h)
                   PROVE  Seen(h)'
        OBVIOUS
      <4>1. \A ok \in BOOLEAN : l # <<round, h, ok>>
        BY <2>2
      <4>2. QED
        BY <3>1, <4>1 DEF Seen
    <3>3. QED
      BY <3>1, <3>2, CoversStay
  <2>3. QED
    BY <2>1, <2>2
<1>10. CASE UNCHANGED outboundVars
  BY <1>10 DEF outboundVars, jobVars, runVars
<1>11. QED
  BY <1>1, <1>2, <1>3, <1>4, <1>5, <1>6, <1>7, <1>8, <1>9, <1>10
     DEF OutboundNext

(* An endpoint with no post more and no copy more keeps its bound.         *)
LEMMA CopiesStay ==
    ASSUME OutboundTypeOK, OutboundTypeOK', CopiesCounted, NEW h \in Hooks,
           received'[h] = received[h], PostsTo(h)' \subseteq PostsTo(h),
           \/ round' = round
              /\ (job' = "active" /\ h \in queued'
                    => job = "active" /\ h \in queued)
           \/ round' = round + 1
    PROVE  /\ IsFiniteSet(PostsTo(h)')
           /\ received'[h] + Cardinality(PostsTo(h)')
                + (IF job' = "active" /\ h \in queued' THEN 1 ELSE 0) <= round'
<1>1. /\ IsFiniteSet(PostsTo(h))
      /\ received[h] + Cardinality(PostsTo(h))
           + (IF job = "active" /\ h \in queued THEN 1 ELSE 0) <= round
  BY DEF CopiesCounted
<1>2. /\ IsFiniteSet(PostsTo(h)')
      /\ Cardinality(PostsTo(h)') <= Cardinality(PostsTo(h))
  BY <1>1, FS_Subset
<1>3. /\ Cardinality(PostsTo(h)) \in Nat /\ Cardinality(PostsTo(h)') \in Nat
  BY <1>1, <1>2, FS_CardinalityType
<1>4. received[h] \in Nat /\ round \in Nat
  BY DEF OutboundTypeOK
<1>5. QED
  BY <1>1, <1>2, <1>3, <1>4

(* Copies stay within the runs.                                             *)
LEMMA CopiesCountedStep ==
    ASSUME OutboundTypeOK, OutboundTypeOK', CopiesCounted,
           [OutboundNext]_outboundVars
    PROVE  CopiesCounted'
<1> USE DEF OutboundTypeOK, jobVars, runVars
<1>1. ASSUME Fire PROVE CopiesCounted'
  <2>1. /\ received' = received
        /\ \A h \in Hooks : PostsTo(h)' \subseteq PostsTo(h)
        /\ \/ round' = round
              /\ \A h \in Hooks : job' = "active" /\ h \in queued'
                                  => job = "active" /\ h \in queued
           \/ round' = round + 1
    BY <1>1 DEF Fire, PostsTo
  <2>2. QED
    BY <2>1, CopiesStay DEF CopiesCounted
<1>2. ASSUME TakeDispatch PROVE CopiesCounted'
  <2>1. /\ received' = received
        /\ \A h \in Hooks : PostsTo(h)' \subseteq PostsTo(h)
        /\ \/ round' = round
              /\ \A h \in Hooks : job' = "active" /\ h \in queued'
                                  => job = "active" /\ h \in queued
           \/ round' = round + 1
    BY <1>2 DEF TakeDispatch, PostsTo
  <2>2. QED
    BY <2>1, CopiesStay DEF CopiesCounted
<1>3. ASSUME EndDispatch PROVE CopiesCounted'
  <2>1. /\ received' = received
        /\ \A h \in Hooks : PostsTo(h)' \subseteq PostsTo(h)
        /\ \/ round' = round
              /\ \A h \in Hooks : job' = "active" /\ h \in queued'
                                  => job = "active" /\ h \in queued
           \/ round' = round + 1
    BY <1>3 DEF EndDispatch, FailAttempt, PostsTo
  <2>2. QED
    BY <2>1, CopiesStay DEF CopiesCounted
<1>4. ASSUME WorkerDies PROVE CopiesCounted'
  <2>1. /\ received' = received
        /\ \A h \in Hooks : PostsTo(h)' \subseteq PostsTo(h)
        /\ \/ round' = round
              /\ \A h \in Hooks : job' = "active" /\ h \in queued'
                                  => job = "active" /\ h \in queued
           \/ round' = round + 1
    BY <1>4 DEF WorkerDies, PostsTo
  <2>2. QED
    BY <2>1, CopiesStay DEF CopiesCounted
<1>5. ASSUME NEW h \in Hooks, EditHook(h) PROVE CopiesCounted'
  <2>1. /\ received' = received /\ round' = round
        /\ \A k \in Hooks : PostsTo(k)' \subseteq PostsTo(k)
        /\ \A k \in Hooks : job' = "active" /\ k \in queued'
                            => job = "active" /\ k \in queued
    BY <1>5 DEF EditHook, PostsTo
  <2>2. QED
    BY <2>1, CopiesStay DEF CopiesCounted
<1>6. ASSUME NEW batch \in SUBSET queued, NextBatch(batch) PROVE CopiesCounted'
  <2> SUFFICES ASSUME NEW h \in Hooks
               PROVE  /\ IsFiniteSet(PostsTo(h)')
                      /\ received'[h] + Cardinality(PostsTo(h)')
                           + (IF job' = "active" /\ h \in queued'
                              THEN 1 ELSE 0) <= round'
    BY DEF CopiesCounted
  <2>1. /\ job = "active" /\ queued' = queued \ batch /\ batch \subseteq queued
        /\ posting' = posting \cup {<<round, k>> : k \in batch}
        /\ UNCHANGED <<job, round, received>>
    BY <1>6 DEF NextBatch
  <2>2. CASE h \notin batch
    <3>1. PostsTo(h)' \subseteq PostsTo(h)
      BY <2>1, <2>2 DEF PostsTo
    <3>2. QED
      BY <2>1, <3>1, CopiesStay
  <2>3. CASE h \in batch
    <3>1. PICK X : X = PostsTo(h)
      OBVIOUS
    <3>2. PostsTo(h)' = X \cup {<<round, h>>}
      BY <2>1, <2>3, <3>1 DEF PostsTo
    <3>3. IsFiniteSet(X) /\ received[h] + Cardinality(X) + 1 <= round
      BY <2>1, <2>3, <3>1 DEF CopiesCounted
    <3>4. /\ IsFiniteSet(X \cup {<<round, h>>}) /\ Cardinality(X) \in Nat
          /\ Cardinality(X \cup {<<round, h>>}) \in Nat
          /\ Cardinality(X \cup {<<round, h>>}) <= Cardinality(X) + 1
      <4>1. PICK f : f = <<round, h>>
        OBVIOUS
      <4>2. /\ IsFiniteSet(X \cup {f}) /\ Cardinality(X) \in Nat
            /\ Cardinality(X \cup {f}) \in Nat
            /\ Cardinality(X \cup {f}) = IF f \in X THEN Cardinality(X)
                                         ELSE Cardinality(X) + 1
        BY <3>3, OneMore
      <4>3. Cardinality(X \cup {f}) <= Cardinality(X) + 1
        BY <4>2
      <4>4. QED
        BY <4>1, <4>2, <4>3
    <3>5. h \notin queued' /\ received[h] \in Nat /\ round \in Nat
      BY <2>1, <2>3
    <3>6. QED
      BY <2>1, <3>2, <3>3, <3>4, <3>5
  <2>4. QED
    BY <2>2, <2>3
<1>7. ASSUME NEW f \in posting, NEW got \in BOOLEAN, NEW ok \in BOOLEAN,
            Post(f, got, ok)
     PROVE  CopiesCounted'
  <2> SUFFICES ASSUME NEW h \in Hooks
               PROVE  /\ IsFiniteSet(PostsTo(h)')
                      /\ received'[h] + Cardinality(PostsTo(h)')
                           + (IF job' = "active" /\ h \in queued'
                              THEN 1 ELSE 0) <= round'
    BY DEF CopiesCounted
  <2>1. /\ posting' = posting \ {f} /\ f \in posting /\ f[2] \in Hooks
        /\ received' = [received EXCEPT ![f[2]] = IF got THEN @ + 1 ELSE @]
        /\ UNCHANGED <<job, round, queued>>
    BY <1>7, PostTypes DEF Post
  <2>2. CASE h # f[2]
    <3>1. PostsTo(h)' \subseteq PostsTo(h) /\ received'[h] = received[h]
      BY <2>1, <2>2 DEF PostsTo
    <3>2. QED
      BY <2>1, <3>1, CopiesStay
  <2>3. CASE h = f[2]
    <3>1. PICK X : X = PostsTo(h)
      OBVIOUS
    <3>2. PostsTo(h)' = X \ {f} /\ f \in X
      BY <2>1, <2>3, <3>1 DEF PostsTo
    <3>3. /\ IsFiniteSet(X)
          /\ received[h] + Cardinality(X)
               + (IF job = "active" /\ h \in queued THEN 1 ELSE 0) <= round
      BY <3>1 DEF CopiesCounted
    <3>4. /\ IsFiniteSet(X \ {f}) /\ Cardinality(X) \in Nat
          /\ Cardinality(X \ {f}) \in Nat
          /\ Cardinality(X \ {f}) = Cardinality(X) - 1
      BY <3>2, <3>3, OneMore
    <3>5. /\ received'[h] <= received[h] + 1 /\ received'[h] \in Nat
          /\ received[h] \in Nat /\ round \in Nat
      BY <2>1, <2>3
    <3>6. QED
      BY <2>1, <3>2, <3>3, <3>4, <3>5
  <2>4. QED
    BY <2>2, <2>3
<1>8. ASSUME NEW l \in logging, LogDelivery(l) PROVE CopiesCounted'
  <2>1. /\ received' = received
        /\ \A h \in Hooks : PostsTo(h)' \subseteq PostsTo(h)
        /\ \/ round' = round
              /\ \A h \in Hooks : job' = "active" /\ h \in queued'
                                  => job = "active" /\ h \in queued
           \/ round' = round + 1
    BY <1>8 DEF LogDelivery, PostsTo
  <2>2. QED
    BY <2>1, CopiesStay DEF CopiesCounted
<1>9. ASSUME NEW l \in logging, LogFails(l) PROVE CopiesCounted'
  <2>1. /\ received' = received
        /\ \A h \in Hooks : PostsTo(h)' \subseteq PostsTo(h)
        /\ \/ round' = round
              /\ \A h \in Hooks : job' = "active" /\ h \in queued'
                                  => job = "active" /\ h \in queued
           \/ round' = round + 1
    BY <1>9 DEF LogFails, FailAttempt, PostsTo
  <2>2. QED
    BY <2>1, CopiesStay DEF CopiesCounted
<1>10. CASE UNCHANGED outboundVars
  <2>1. /\ received' = received
        /\ \A h \in Hooks : PostsTo(h)' \subseteq PostsTo(h)
        /\ \/ round' = round
              /\ \A h \in Hooks : job' = "active" /\ h \in queued'
                                  => job = "active" /\ h \in queued
           \/ round' = round + 1
    BY <1>10 DEF outboundVars, PostsTo
  <2>2. QED
    BY <2>1, CopiesStay DEF CopiesCounted
<1>11. QED
  BY <1>1, <1>2, <1>3, <1>4, <1>5, <1>6, <1>7, <1>8, <1>9, <1>10
     DEF OutboundNext

(* Runs stay explained.                                                     *)
LEMMA RoundsExplainedStep ==
    ASSUME OutboundTypeOK, PostsOfRuns, RoundsExplained,
           [OutboundNext]_outboundVars
    PROVE  RoundsExplained'
<1> USE DEF OutboundTypeOK, RoundsExplained, jobVars, runVars
<1>1. ASSUME Fire PROVE RoundsExplained'
  BY <1>1 DEF Fire
<1>2. ASSUME TakeDispatch PROVE RoundsExplained'
  <2>1. /\ round' = round + 1 /\ round <= troubles /\ results' = {}
        /\ UNCHANGED <<logging, troubles>> /\ job' \in {"done", "active"}
    BY <1>2 DEF TakeDispatch
  <2>2. \A l \in logging' : l[1] # round'
    BY <2>1, PostTypes DEF PostsOfRuns
  <2>3. QED
    BY <2>1, <2>2
<1>3. ASSUME EndDispatch PROVE RoundsExplained'
  <2>1. UNCHANGED <<round, troubles>> /\ job' \in {"done", "waiting", "failed"}
    BY <1>3 DEF EndDispatch, FailAttempt
  <2>2. job' = "waiting" => Failed(results)
    BY <1>3 DEF EndDispatch
  <2>3. job' = "waiting" => round <= troubles
    BY <1>3, <2>2 DEF EndDispatch, Failed
  <2>4. QED
    BY <2>1, <2>3
<1>4. ASSUME WorkerDies PROVE RoundsExplained'
  BY <1>4 DEF WorkerDies, Trouble
<1>5. ASSUME NEW h \in Hooks, EditHook(h) PROVE RoundsExplained'
  BY <1>5 DEF EditHook
<1>6. ASSUME NEW batch \in SUBSET queued, NextBatch(batch)
     PROVE  RoundsExplained'
  BY <1>6 DEF NextBatch
<1>7. ASSUME NEW f \in posting, NEW got \in BOOLEAN, NEW ok \in BOOLEAN,
            Post(f, got, ok)
     PROVE  RoundsExplained'
  BY <1>7 DEF Post, Trouble
<1>8. ASSUME NEW l \in logging, LogDelivery(l) PROVE RoundsExplained'
  BY <1>8 DEF LogDelivery
<1>9. ASSUME NEW l \in logging, LogFails(l) PROVE RoundsExplained'
  BY <1>9 DEF LogFails, Trouble, FailAttempt
<1>10. CASE UNCHANGED outboundVars
  BY <1>10 DEF outboundVars, jobVars, runVars
<1>11. QED
  BY <1>1, <1>2, <1>3, <1>4, <1>5, <1>6, <1>7, <1>8, <1>9, <1>10
     DEF OutboundNext

(* The event has not been fired.                                           *)
LEMMA OutboundBegin ==
    OutboundInit => OutboundInductive
<1> SUFFICES ASSUME OutboundInit PROVE OutboundInductive
  OBVIOUS
<1>1. OutboundTypeOK /\ PostsOfRuns /\ SuccessAccepted /\ RunCovers
  BY DEF OutboundInit, OutboundTypeOK, PostsOfRuns, SuccessAccepted,
     RunCovers, DoneReachesAll
<1>2. RoundsExplained
  BY DEF OutboundInit, RoundsExplained
<1>3. CopiesCounted
  <2>1. \A h \in Hooks : PostsTo(h) = {}
    BY DEF OutboundInit, PostsTo
  <2>2. \A h \in Hooks : IsFiniteSet(PostsTo(h)) /\ Cardinality(PostsTo(h)) = 0
    BY <2>1, FS_EmptySet
  <2>3. round = 0 /\ job = "none" /\ \A h \in Hooks : received[h] = 0
    BY DEF OutboundInit
  <2>4. QED
    BY <2>2, <2>3 DEF CopiesCounted
<1>4. QED
  BY <1>1, <1>2, <1>3 DEF OutboundInductive

THEOREM OutboundInvariant == OutboundSpec => []OutboundInductive
<1>1. OutboundInductive /\ [OutboundNext]_outboundVars => OutboundInductive'
  BY OutboundTypeStep, PostsOfRunsStep, SuccessAcceptedStep, RunCoversStep,
     CopiesCountedStep, RoundsExplainedStep DEF OutboundInductive
<1>2. QED
  BY <1>1, OutboundBegin, PTL DEF OutboundSpec

(* A dispatch that is done has reached every endpoint that was listening   *)
(* all along (dispatch-outbound-webhook.ts).                               *)
THEOREM DispatchReaches == OutboundSpec => []DoneReachesAll
BY OutboundInvariant, PTL DEF OutboundInductive, RunCovers

(* Another copy of the event follows something that went wrong.            *)
THEOREM CopiesLimit == OutboundSpec => []CopiesExplained
<1>1. OutboundInductive => CopiesExplained
  <2> SUFFICES ASSUME OutboundInductive, NEW h \in Hooks
               PROVE  received[h] <= 1 + troubles
    BY DEF CopiesExplained
  <2>1. IsFiniteSet(PostsTo(h)) /\ Cardinality(PostsTo(h)) \in Nat
    BY FS_CardinalityType DEF OutboundInductive, CopiesCounted
  <2>2. received[h] \in Nat /\ round \in Nat /\ troubles \in Nat
    BY DEF OutboundInductive, OutboundTypeOK
  <2>3. received[h] + Cardinality(PostsTo(h))
          + (IF job = "active" /\ h \in queued THEN 1 ELSE 0) <= round
    BY DEF OutboundInductive, CopiesCounted
  <2>4. received[h] <= round
    BY <2>1, <2>2, <2>3
  <2>5. QED
    BY <2>2, <2>4 DEF OutboundInductive, RoundsExplained
<1>2. QED
  BY <1>1, OutboundInvariant, PTL

-----------------------------------------------------------------------------
(* Plan synchronisation.  Runs that have made the price, and are about to  *)
(* write its reference.                                                    *)
Making(x) == {r \in Syncs : /\ phase[r] = "reference"
                            /\ price[r] = x[1] /\ provider[r] = x[2]}
Waits(x) == Holders(x) \ Making(x)

AtProvider == {"refs", "product", "prices"} \cup AtPrice

(* What a run has at hand, by its phase.                                   *)
RunsLinked ==
    \A r \in Syncs :
        /\ phase[r] \in AtProvider => provider[r] \in Providers
        /\ phase[r] \notin AtProvider =>
              provider[r] = NoProvider /\ missing[r] = {} /\ unread[r] = {}
        /\ phase[r] \in AtProvider \ {"refs"} => unread[r] = {}
        /\ phase[r] = "reference" => price[r] \in missing[r]

(* A price without a reference was made by runs that failed to write one,  *)
(* or are about to; with a reference, only runs that had found none before *)
(* still make it.                                                          *)
PairCounted(x) ==
    /\ Cardinality(Holders(x)) <= overlap[x]
    /\ x \notin refs =>
          created[x] <= orphaned[x] + Cardinality(Making(x))
    /\ x \in refs =>
          created[x] + Cardinality(Waits(x)) <= overlap[x] + orphaned[x]

PairsCounted == \A x \in Pairs : PairCounted(x)

(* What a run was to sync is still ahead of it, has a reference, or has    *)
(* failed.                                                                 *)
Accounted(r, p, q) ==
    \/ q \in remaining[r] \/ q \in failed[r]
    \/ <<p, q>> \in refs \/ <<p, q>> \in swallowed[r]
    \/ q = provider[r] /\ (p \in unread[r] \/ p \in missing[r])

SyncCovers ==
    /\ \A r \in Syncs : phase[r] \notin {"idle", "providers"} =>
          \A p \in priceList[r], q \in visited[r] : Accounted(r, p, q)
    /\ SuccessLeavesRefs

PlanInductive == PlanTypeOK /\ RunsLinked /\ PairsCounted /\ SyncCovers

LEMMA HoldersFinite ==
    ASSUME NEW x
    PROVE  /\ Holders(x) \subseteq Syncs /\ IsFiniteSet(Holders(x))
           /\ Cardinality(Holders(x)) \in Nat
<1>1. Holders(x) \subseteq Syncs
  BY DEF Holders
<1>2. IsFiniteSet(Holders(x))
  BY <1>1, FS_Subset, SyncAssumption
<1>3. Cardinality(Holders(x)) \in Nat
  BY <1>2, FS_CardinalityType
<1>4. QED
  BY <1>1, <1>2, <1>3

(* A pair is its price and its provider.                                   *)
LEMMA PairsDiffer ==
    /\ \A x \in Pairs : x[1] \in Prices /\ x[2] \in Providers
    /\ \A x, y \in Pairs : x[1] = y[1] /\ x[2] = y[2] => x = y
BY DEF Pairs

(* The pair that a run is about.                                           *)
LEMMA PairTypes ==
    ASSUME PlanTypeOK, RunsLinked, NEW r \in Syncs, phase[r] \in AtProvider
    PROVE  /\ \A p \in Prices : <<p, provider[r]>> \in Pairs
           /\ phase[r] = "reference" =>
                 /\ price[r] \in Prices
                 /\ <<price[r], provider[r]>> \in Pairs
<1>1. provider[r] \in Providers
  BY DEF RunsLinked
<1>2. phase[r] = "reference" => price[r] \in Prices
  BY DEF RunsLinked, PlanTypeOK
<1>3. QED
  BY <1>1, <1>2 DEF Pairs

(* A run that is forgotten, or leaves a provider, keeps the types.         *)
LEMMA ForgetTypes ==
    ASSUME PlanTypeOK, NEW r \in Syncs, ForgetRun(r)
    PROVE  /\ phase' \in [Syncs -> {"idle", "providers", "next", "refs", "product",
                                   "prices"} \cup AtPrice]
           /\ retry' \in [Syncs -> 0 .. MAX_RETRIES]
           /\ priceList' \in [Syncs -> SUBSET Prices]
           /\ remaining' \in [Syncs -> SUBSET Providers]
           /\ provider' \in [Syncs -> Providers \cup {NoProvider}]
           /\ unread' \in [Syncs -> SUBSET Prices]
           /\ missing' \in [Syncs -> SUBSET Prices]
           /\ price' \in [Syncs -> Prices \cup {NoPrice}]
           /\ synced' \in [Syncs -> BOOLEAN]
           /\ failed' \in [Syncs -> SUBSET Providers]
           /\ swallowed' \in [Syncs -> SUBSET Pairs]
           /\ visited' \in [Syncs -> SUBSET Providers]
<1> USE SyncAssumption
        DEF PlanTypeOK, AtPrice, runState, syncHistory
<1>1. phase' \in [Syncs -> {"idle", "providers", "next", "refs", "product",
                                  "prices"} \cup AtPrice]
  BY DEF ForgetRun
<1>2. retry' \in [Syncs -> 0 .. MAX_RETRIES]
  BY DEF ForgetRun
<1>3. priceList' \in [Syncs -> SUBSET Prices]
  BY DEF ForgetRun
<1>4. remaining' \in [Syncs -> SUBSET Providers]
  BY DEF ForgetRun
<1>5. provider' \in [Syncs -> Providers \cup {NoProvider}]
  BY DEF ForgetRun
<1>6. unread' \in [Syncs -> SUBSET Prices]
  BY DEF ForgetRun
<1>7. missing' \in [Syncs -> SUBSET Prices]
  BY DEF ForgetRun
<1>8. price' \in [Syncs -> Prices \cup {NoPrice}]
  BY DEF ForgetRun
<1>9. synced' \in [Syncs -> BOOLEAN]
  BY DEF ForgetRun
<1>10. failed' \in [Syncs -> SUBSET Providers]
  BY DEF ForgetRun
<1>11. swallowed' \in [Syncs -> SUBSET Pairs]
  BY DEF ForgetRun
<1>12. visited' \in [Syncs -> SUBSET Providers]
  BY DEF ForgetRun
<1>13. QED
  BY <1>1, <1>2, <1>3, <1>4, <1>5, <1>6, <1>7, <1>8, <1>9, <1>10, <1>11, <1>12

LEMMA LeaveTypes ==
    ASSUME PlanTypeOK, RunsLinked, NEW r \in Syncs, NEW ok \in BOOLEAN,
           phase[r] \in AtProvider, LeaveProvider(r, ok)
    PROVE  /\ phase' \in [Syncs -> {"idle", "providers", "next", "refs", "product",
                                   "prices"} \cup AtPrice]
           /\ provider' \in [Syncs -> Providers \cup {NoProvider}]
           /\ missing' \in [Syncs -> SUBSET Prices]
           /\ unread' \in [Syncs -> SUBSET Prices]
           /\ failed' \in [Syncs -> SUBSET Providers]
           /\ retry' \in [Syncs -> 0 .. MAX_RETRIES]
           /\ priceList' \in [Syncs -> SUBSET Prices]
           /\ remaining' \in [Syncs -> SUBSET Providers]
           /\ price' \in [Syncs -> Prices \cup {NoPrice}]
           /\ synced' \in [Syncs -> BOOLEAN]
<1> USE SyncAssumption
        DEF PlanTypeOK, AtPrice, runState, syncHistory
<1>1. phase' \in [Syncs -> {"idle", "providers", "next", "refs", "product",
                                  "prices"} \cup AtPrice]
  BY DEF LeaveProvider
<1>2. provider' \in [Syncs -> Providers \cup {NoProvider}]
  BY DEF LeaveProvider
<1>3. missing' \in [Syncs -> SUBSET Prices]
  BY DEF LeaveProvider
<1>4. unread' \in [Syncs -> SUBSET Prices]
  BY DEF LeaveProvider
<1>5. failed' \in [Syncs -> SUBSET Providers]
  BY DEF LeaveProvider, RunsLinked
<1>6. retry' \in [Syncs -> 0 .. MAX_RETRIES]
  BY DEF LeaveProvider
<1>7. priceList' \in [Syncs -> SUBSET Prices]
  BY DEF LeaveProvider
<1>8. remaining' \in [Syncs -> SUBSET Providers]
  BY DEF LeaveProvider
<1>9. price' \in [Syncs -> Prices \cup {NoPrice}]
  BY DEF LeaveProvider
<1>10. synced' \in [Syncs -> BOOLEAN]
  BY DEF LeaveProvider
<1>11. QED
  BY <1>1, <1>2, <1>3, <1>4, <1>5, <1>6, <1>7, <1>8, <1>9, <1>10

(* Every step keeps the types.                                              *)
LEMMA PlanTypeStep ==
    ASSUME PlanTypeOK, RunsLinked, [PlanNext]_planVars
    PROVE  PlanTypeOK'
<1> USE SyncAssumption
        DEF PlanTypeOK, AtPrice, runState, syncHistory
<1>1. ASSUME EditPlan PROVE PlanTypeOK'
  BY <1>1 DEF EditPlan
<1>2. ASSUME NEW r \in Syncs, NEW n \in 0 .. MAX_RETRIES, TakeSync(r, n)
     PROVE  PlanTypeOK'
  <2>1. jobs' \in [0 .. MAX_RETRIES -> Nat]
    BY <1>2 DEF TakeSync
  <2>2. phase' \in [Syncs -> {"idle", "providers", "next", "refs", "product",
                                    "prices"} \cup AtPrice]
    BY <1>2 DEF TakeSync
  <2>3. retry' \in [Syncs -> 0 .. MAX_RETRIES]
    BY <1>2 DEF TakeSync
  <2>4. priceList' \in [Syncs -> SUBSET Prices]
    BY <1>2 DEF TakeSync
  <2>5. QED
    BY <1>2, <2>1, <2>2, <2>3, <2>4 DEF TakeSync
<1>3. ASSUME NEW r \in Syncs, ReadProviders(r) PROVE PlanTypeOK'
  BY <1>3 DEF ReadProviders, Moves
<1>4. ASSUME NEW r \in Syncs, NEW q \in Providers, NextProvider(r, q)
     PROVE  PlanTypeOK'
  BY <1>4 DEF NextProvider, Moves
<1>5. ASSUME NEW r \in Syncs, NEW p \in Prices, ReadRef(r, p) PROVE PlanTypeOK'
  <2>1. PICK y \in Pairs : y = <<p, provider[r]>>
    BY <1>5, PairTypes DEF ReadRef, AtProvider
  <2>2. PICK n \in Nat : n = Cardinality(Holders(y)) + 1
    BY HoldersFinite
  <2>3. unread' \in [Syncs -> SUBSET Prices]
    BY <1>5 DEF ReadRef
  <2>4. missing' = missing \/ missing' = [missing EXCEPT ![r] = @ \cup {p}]
    BY <1>5 DEF ReadRef
  <2>5. missing' \in [Syncs -> SUBSET Prices]
    <3>1. CASE missing' = missing
      BY <3>1
    <3>2. CASE missing' = [missing EXCEPT ![r] = @ \cup {p}]
      <4>1. missing[r] \cup {p} \in SUBSET Prices
        OBVIOUS
      <4>2. QED
        BY <3>2, <4>1
    <3>3. QED
      BY <2>4, <3>1, <3>2
  <2>6. \/ overlap' = overlap
        \/ overlap' = [overlap EXCEPT ![y] = IF n > @ THEN n ELSE @]
    BY <1>5, <2>1, <2>2 DEF ReadRef
  <2>7. overlap' \in [Pairs -> Nat]
    BY <2>6
  <2>8. QED
    BY <1>5, <2>3, <2>5, <2>7 DEF ReadRef
<1>6. ASSUME NEW r \in Syncs, NEW p \in Prices, CreatePrice(r, p)
     PROVE  PlanTypeOK'
  <2>1. PICK y \in Pairs : y = <<p, provider[r]>>
    BY <1>6, PairTypes DEF CreatePrice, AtProvider
  <2>2. CASE /\ phase' = [phase EXCEPT ![r] = "reference"]
             /\ price' = [price EXCEPT ![r] = p]
             /\ created' = [created EXCEPT ![y] = @ + 1]
             /\ UNCHANGED <<missing, swallowed, syncFaults>>
    <3>1. created' \in [Pairs -> Nat]
      BY <2>2
    <3>2. phase' \in [Syncs -> {"idle", "providers", "next", "refs", "product",
                               "prices"} \cup AtPrice]
      BY <2>2
    <3>3. price' \in [Syncs -> Prices \cup {NoPrice}]
      BY <2>2
    <3>4. QED
      BY <1>6, <2>2, <3>1, <3>2, <3>3 DEF CreatePrice
  <2>3. CASE /\ missing' = [missing EXCEPT ![r] = @ \ {p}]
             /\ swallowed' = [swallowed EXCEPT ![r] = @ \cup {y}]
             /\ syncFaults' = syncFaults + 1
             /\ UNCHANGED <<phase, price, created>>
    <3>1. missing' \in [Syncs -> SUBSET Prices]
      BY <2>3
    <3>2. swallowed' \in [Syncs -> SUBSET Pairs]
      BY <2>3
    <3>3. syncFaults' \in Nat
      BY <2>3
    <3>4. QED
      BY <1>6, <2>3, <3>1, <3>2, <3>3 DEF CreatePrice
  <2>4. QED
    BY <1>6, <2>1, <2>2, <2>3 DEF CreatePrice, SyncFault
<1>7. ASSUME NEW r \in Syncs, RefsRead(r) PROVE PlanTypeOK'
  <2>1. CASE missing[r] = {}
    <3>1. LeaveProvider(r, TRUE) /\ phase[r] \in AtProvider
      BY <1>7, <2>1 DEF RefsRead, AtProvider
    <3>2. QED
      BY <1>7, <3>1, LeaveTypes DEF RefsRead
  <2>2. CASE missing[r] # {}
    BY <1>7, <2>2 DEF RefsRead
  <2>3. QED
    BY <2>1, <2>2
<1>8. ASSUME NEW r \in Syncs, CreateProduct(r) PROVE PlanTypeOK'
  <2>1. syncFaults' \in Nat
    BY <1>8 DEF CreateProduct, SyncFault
  <2>2. CASE LeaveProvider(r, FALSE)
    <3>1. phase[r] \in AtProvider
      BY <1>8 DEF CreateProduct, Moves, AtProvider
    <3>2. QED
      BY <1>8, <2>1, <2>2, <3>1, LeaveTypes DEF CreateProduct
  <2>3. CASE ~LeaveProvider(r, FALSE)
    BY <1>8, <2>3 DEF CreateProduct, Moves, ProductFailed
  <2>4. QED
    BY <2>2, <2>3
<1>9. ASSUME NEW r \in Syncs, SaveRef(r) PROVE PlanTypeOK'
  <2>1. PICK y \in Pairs : y = <<price[r], provider[r]>>
    BY <1>9, PairTypes DEF SaveRef, AtProvider
  <2>2. missing' \in [Syncs -> SUBSET Prices]
    BY <1>9 DEF SaveRef
  <2>3. CASE /\ phase' = [phase EXCEPT ![r] = "legacy"]
             /\ refs' = refs \cup {y}
             /\ UNCHANGED <<price, swallowed, orphaned, syncFaults>>
    <3>1. phase' \in [Syncs -> {"idle", "providers", "next", "refs", "product",
                               "prices"} \cup AtPrice]
      BY <2>3
    <3>2. refs' \subseteq Pairs
      BY <2>3
    <3>3. QED
      BY <1>9, <2>2, <2>3, <3>1, <3>2 DEF SaveRef
  <2>4. CASE /\ syncFaults' = syncFaults + 1
             /\ phase' = [phase EXCEPT ![r] = "prices"]
             /\ price' = [price EXCEPT ![r] = NoPrice]
             /\ swallowed' = [swallowed EXCEPT ![r] = @ \cup {y}]
             /\ orphaned' = [orphaned EXCEPT ![y] = @ + 1]
             /\ UNCHANGED refs
    <3>1. phase' \in [Syncs -> {"idle", "providers", "next", "refs", "product",
                               "prices"} \cup AtPrice]
      BY <2>4
    <3>2. price' \in [Syncs -> Prices \cup {NoPrice}]
      BY <2>4
    <3>3. swallowed' \in [Syncs -> SUBSET Pairs]
      BY <2>4
    <3>4. orphaned' \in [Pairs -> Nat]
      BY <2>4
    <3>5. syncFaults' \in Nat
      BY <2>4
    <3>6. QED
      BY <1>9, <2>2, <2>4, <3>1, <3>2, <3>3, <3>4, <3>5 DEF SaveRef
  <2>5. QED
    BY <1>9, <2>1, <2>3, <2>4 DEF SaveRef, SyncFault
<1>10. ASSUME NEW r \in Syncs, UpdateLegacy(r) PROVE PlanTypeOK'
  <2>1. phase' \in [Syncs -> {"idle", "providers", "next", "refs", "product",
                                    "prices"} \cup AtPrice]
    BY <1>10 DEF UpdateLegacy, Moves, SyncFault
  <2>2. price' \in [Syncs -> Prices \cup {NoPrice}]
    BY <1>10 DEF UpdateLegacy, Moves, SyncFault
  <2>3. synced' \in [Syncs -> BOOLEAN]
    BY <1>10 DEF UpdateLegacy, Moves, SyncFault
  <2>4. syncFaults' \in Nat
    BY <1>10 DEF UpdateLegacy, Moves, SyncFault
  <2>5. QED
    BY <1>10, <2>1, <2>2, <2>3, <2>4 DEF UpdateLegacy
<1>11. ASSUME NEW r \in Syncs, ProviderDone(r) PROVE PlanTypeOK'
  <2>1. /\ LeaveProvider(r, synced[r]) /\ phase[r] \in AtProvider
        /\ synced[r] \in BOOLEAN
    BY <1>11 DEF ProviderDone, AtProvider
  <2>2. QED
    BY <1>11, <2>1, LeaveTypes DEF ProviderDone
<1>12. ASSUME NEW r \in Syncs, SyncDone(r) PROVE PlanTypeOK'
  <2>1. jobs' \in [0 .. MAX_RETRIES -> Nat]
    BY <1>12 DEF SyncDone
  <2>2. reported' \subseteq Pairs
    BY <1>12 DEF SyncDone, Pairs
  <2>3. ForgetRun(r)
    BY <1>12 DEF SyncDone
  <2>4. QED
    BY <1>12, <2>1, <2>2, <2>3, ForgetTypes DEF SyncDone
<1>13. ASSUME NEW r \in Syncs, SyncDies(r) PROVE PlanTypeOK'
  <2>1. jobs' \in [0 .. MAX_RETRIES -> Nat]
    BY <1>13 DEF SyncDies
  <2>2. orphaned' \in [Pairs -> Nat]
    <3>1. CASE phase[r] = "reference"
      <4>1. PICK y \in Pairs : y = <<price[r], provider[r]>>
        BY <3>1, PairTypes DEF AtProvider
      <4>2. orphaned' = [orphaned EXCEPT ![y] = @ + 1]
        BY <1>13, <3>1, <4>1 DEF SyncDies
      <4>3. QED
        BY <4>2
    <3>2. CASE phase[r] # "reference"
      BY <1>13, <3>2 DEF SyncDies
    <3>3. QED
      BY <3>1, <3>2
  <2>3. syncFaults' \in Nat
    BY <1>13 DEF SyncDies, SyncFault
  <2>4. ForgetRun(r)
    BY <1>13 DEF SyncDies
  <2>5. QED
    BY <1>13, <2>1, <2>2, <2>3, <2>4, ForgetTypes DEF SyncDies
<1>14. CASE UNCHANGED planVars
  BY <1>14 DEF planVars, runState, syncHistory
<1>15. QED
  BY <1>1, <1>2, <1>3, <1>4, <1>5, <1>6, <1>7, <1>8, <1>9, <1>10, <1>11, <1>12,
     <1>13, <1>14
     DEF PlanNext

(* Runs keep what their phase needs.                                        *)
LEMMA RunsLinkedStep ==
    ASSUME PlanTypeOK, RunsLinked, [PlanNext]_planVars
    PROVE  RunsLinked'
<1> USE SyncAssumption
        DEF PlanTypeOK, RunsLinked, AtProvider, AtPrice, runState, syncHistory
<1>1. ASSUME EditPlan PROVE RunsLinked'
  BY <1>1 DEF EditPlan
<1>2. ASSUME NEW r \in Syncs, NEW n \in 0 .. MAX_RETRIES, TakeSync(r, n)
     PROVE  RunsLinked'
  BY <1>2 DEF TakeSync
<1>3. ASSUME NEW r \in Syncs, ReadProviders(r) PROVE RunsLinked'
  BY <1>3 DEF ReadProviders, Moves
<1>4. ASSUME NEW r \in Syncs, NEW q \in Providers, NextProvider(r, q)
     PROVE  RunsLinked'
  BY <1>4 DEF NextProvider, Moves
<1>5. ASSUME NEW r \in Syncs, NEW p \in Prices, ReadRef(r, p) PROVE RunsLinked'
  BY <1>5 DEF ReadRef, HasRef
<1>6. ASSUME NEW r \in Syncs, NEW p \in Prices, CreatePrice(r, p)
     PROVE  RunsLinked'
  <2>1. phase[r] = "prices" /\ p \in missing[r] /\ UNCHANGED <<provider, unread>>
    BY <1>6 DEF CreatePrice
  <2>2. CASE /\ phase' = [phase EXCEPT ![r] = "reference"]
             /\ price' = [price EXCEPT ![r] = p]
             /\ UNCHANGED missing
    BY <2>1, <2>2
  <2>3. CASE /\ missing' = [missing EXCEPT ![r] = @ \ {p}]
             /\ UNCHANGED <<phase, price>>
    BY <2>1, <2>3
  <2>4. QED
    BY <1>6, <2>2, <2>3 DEF CreatePrice
<1>7. ASSUME NEW r \in Syncs, RefsRead(r) PROVE RunsLinked'
  BY <1>7 DEF RefsRead, LeaveProvider
<1>8. ASSUME NEW r \in Syncs, CreateProduct(r) PROVE RunsLinked'
  <2>1. CASE LeaveProvider(r, FALSE)
    BY <2>1 DEF LeaveProvider
  <2>2. CASE /\ phase[r] = "product" /\ phase' = [phase EXCEPT ![r] = "prices"]
             /\ UNCHANGED <<provider, unread, missing, price>>
    BY <2>2
  <2>3. QED
    BY <1>8, <2>1, <2>2 DEF CreateProduct, Moves, ProductFailed
<1>9. ASSUME NEW r \in Syncs, SaveRef(r) PROVE RunsLinked'
  BY <1>9 DEF SaveRef, SyncFault
<1>10. ASSUME NEW r \in Syncs, UpdateLegacy(r) PROVE RunsLinked'
  BY <1>10 DEF UpdateLegacy, Moves, SyncFault
<1>11. ASSUME NEW r \in Syncs, ProviderDone(r) PROVE RunsLinked'
  BY <1>11 DEF ProviderDone, LeaveProvider
<1>12. ASSUME NEW r \in Syncs, SyncDone(r) PROVE RunsLinked'
  BY <1>12 DEF SyncDone, ForgetRun
<1>13. ASSUME NEW r \in Syncs, SyncDies(r) PROVE RunsLinked'
  BY <1>13 DEF SyncDies, ForgetRun, SyncFault
<1>14. CASE UNCHANGED planVars
  BY <1>14 DEF planVars, runState, syncHistory
<1>15. QED
  BY <1>1, <1>2, <1>3, <1>4, <1>5, <1>6, <1>7, <1>8, <1>9, <1>10, <1>11, <1>12,
     <1>13, <1>14
     DEF PlanNext

(* Other runs are where they were.                                         *)
OthersStay(r) ==
    \A o \in Syncs \ {r} :
        /\ phase'[o] = phase[o] /\ priceList'[o] = priceList[o]
        /\ visited'[o] = visited[o] /\ remaining'[o] = remaining[o]
        /\ failed'[o] = failed[o] /\ swallowed'[o] = swallowed[o]
        /\ provider'[o] = provider[o] /\ unread'[o] = unread[o]
        /\ missing'[o] = missing[o]

LEMMA CoversOthers ==
    ASSUME SyncCovers, NEW r \in Syncs, OthersStay(r),
           reported' \subseteq refs', refs \subseteq refs',
           \/ phase'[r] \in {"idle", "providers"}
           \/ \A p \in priceList'[r], q \in visited'[r] : Accounted(r, p, q)'
    PROVE  SyncCovers'
<1>1. ASSUME NEW o \in Syncs, phase'[o] \notin {"idle", "providers"},
             NEW p \in priceList'[o], NEW q \in visited'[o]
      PROVE  Accounted(o, p, q)'
  <2>1. CASE o = r
    BY <1>1, <2>1
  <2>2. CASE o # r
    <3>1. Accounted(o, p, q)
      BY <1>1, <2>2 DEF SyncCovers, OthersStay
    <3>2. QED
      BY <2>2, <3>1 DEF Accounted, OthersStay
  <2>3. QED
    BY <2>1, <2>2
<1>2. QED
  BY <1>1 DEF SyncCovers, SuccessLeavesRefs

LEMMA CoversAtLeave ==
    ASSUME PlanTypeOK, SyncCovers, NEW r \in Syncs, NEW ok \in BOOLEAN,
           phase[r] \in AtProvider, LeaveProvider(r, ok),
           ok => missing[r] = {} /\ unread[r] = {},
           UNCHANGED <<refs, visited, swallowed, reported>>
    PROVE  SyncCovers'
<1>1. OthersStay(r)
  BY DEF PlanTypeOK, LeaveProvider, OthersStay
<1>2. /\ priceList' = priceList /\ remaining' = remaining
      /\ failed[r] \subseteq failed'[r]
  BY DEF PlanTypeOK, LeaveProvider
<1>3. ok \/ provider[r] \in failed'[r]
  BY DEF PlanTypeOK, LeaveProvider
<1>4. reported \subseteq refs
  BY DEF SyncCovers, SuccessLeavesRefs
<1>5. ASSUME NEW p \in priceList'[r], NEW q \in visited'[r]
      PROVE  Accounted(r, p, q)'
  <2>1. Accounted(r, p, q)
    BY <1>2, <1>5 DEF SyncCovers, AtProvider, AtPrice
  <2>2. CASE q = provider[r] /\ (p \in unread[r] \/ p \in missing[r])
    BY <1>3, <2>2 DEF Accounted
  <2>3. CASE ~(q = provider[r] /\ (p \in unread[r] \/ p \in missing[r]))
    BY <1>2, <2>1, <2>3 DEF Accounted
  <2>4. QED
    BY <2>2, <2>3
<1>6. QED
  BY <1>1, <1>4, <1>5, CoversOthers

(* A run loses sight of no pair.                                            *)
LEMMA SyncCoversStep ==
    ASSUME PlanTypeOK, RunsLinked, SyncCovers, [PlanNext]_planVars
    PROVE  SyncCovers'
<1> USE SyncAssumption
        DEF PlanTypeOK, runState, syncHistory
<1>1. ASSUME EditPlan PROVE SyncCovers'
  BY <1>1 DEF EditPlan, SyncCovers, SuccessLeavesRefs, Accounted
<1>2. ASSUME NEW r \in Syncs, NEW n \in 0 .. MAX_RETRIES, TakeSync(r, n)
     PROVE  SyncCovers'
  <2>1. OthersStay(r)
    BY <1>2 DEF OthersStay, TakeSync
  <2>2. reported' \subseteq refs' /\ refs \subseteq refs'
    BY <1>2 DEF SyncCovers, SuccessLeavesRefs, TakeSync
  <2>3. phase'[r] \in {"idle", "providers"}
    BY <1>2 DEF TakeSync
  <2>4. QED
    BY <2>1, <2>2, <2>3, CoversOthers
<1>3. ASSUME NEW r \in Syncs, ReadProviders(r) PROVE SyncCovers'
  <2>1. OthersStay(r)
    BY <1>3 DEF OthersStay, ReadProviders, Moves
  <2>2. reported' \subseteq refs' /\ refs \subseteq refs'
    BY <1>3 DEF SyncCovers, SuccessLeavesRefs, ReadProviders
  <2>3. ASSUME NEW a \in priceList'[r], NEW b \in visited'[r]
        PROVE  Accounted(r, a, b)'
    BY <1>3, <2>3 DEF Accounted, ReadProviders
  <2>4. QED
    BY <2>1, <2>2, <2>3, CoversOthers
<1>4. ASSUME NEW r \in Syncs, NEW q \in Providers, NextProvider(r, q)
     PROVE  SyncCovers'
  <2>1. OthersStay(r)
    BY <1>4 DEF OthersStay, NextProvider, Moves
  <2>2. reported' \subseteq refs' /\ refs \subseteq refs'
    BY <1>4 DEF SyncCovers, SuccessLeavesRefs, NextProvider
  <2>3. ASSUME NEW a \in priceList'[r], NEW b \in visited'[r]
        PROVE  Accounted(r, a, b)'
    <3>1. /\ phase[r] = "next" /\ priceList' = priceList /\ visited' = visited
          /\ failed' = failed /\ refs' = refs /\ swallowed' = swallowed
          /\ remaining'[r] = remaining[r] \ {q}
          /\ provider'[r] = q /\ unread'[r] = priceList[r]
      BY <1>4 DEF NextProvider, Moves, syncHistory
    <3>2. unread[r] = {} /\ missing[r] = {}
      BY <3>1 DEF RunsLinked, AtProvider, AtPrice
    <3>3. Accounted(r, a, b)
      BY <2>3, <3>1 DEF SyncCovers
    <3>4. QED
      BY <2>3, <3>1, <3>2, <3>3 DEF Accounted
  <2>4. QED
    BY <2>1, <2>2, <2>3, CoversOthers
<1>5. ASSUME NEW r \in Syncs, NEW p \in Prices, ReadRef(r, p) PROVE SyncCovers'
  <2>1. OthersStay(r)
    BY <1>5 DEF OthersStay, ReadRef, HasRef
  <2>2. reported' \subseteq refs' /\ refs \subseteq refs'
    BY <1>5 DEF SyncCovers, SuccessLeavesRefs, ReadRef
  <2>3. ASSUME NEW a \in priceList'[r], NEW b \in visited'[r]
        PROVE  Accounted(r, a, b)'
    <3>1. Accounted(r, a, b)
      BY <1>5, <2>3 DEF SyncCovers, ReadRef, AtPrice
    <3>2. /\ remaining' = remaining /\ failed' = failed /\ refs' = refs
          /\ swallowed' = swallowed /\ provider' = provider
          /\ unread'[r] = unread[r] \ {p} /\ missing[r] \subseteq missing'[r]
      BY <1>5 DEF ReadRef, HasRef
    <3>3. <<p, provider[r]>> \in refs \/ p \in missing'[r]
      BY <1>5 DEF ReadRef, HasRef
    <3>4. QED
      BY <3>1, <3>2, <3>3 DEF Accounted
  <2>4. QED
    BY <2>1, <2>2, <2>3, CoversOthers
<1>6. ASSUME NEW r \in Syncs, NEW p \in Prices, CreatePrice(r, p)
     PROVE  SyncCovers'
  <2>1. OthersStay(r)
    BY <1>6 DEF OthersStay, CreatePrice
  <2>2. reported' \subseteq refs' /\ refs \subseteq refs'
    BY <1>6 DEF SyncCovers, SuccessLeavesRefs, CreatePrice
  <2>3. ASSUME NEW a \in priceList'[r], NEW b \in visited'[r]
        PROVE  Accounted(r, a, b)'
    <3>1. Accounted(r, a, b)
      BY <1>6, <2>3 DEF SyncCovers, CreatePrice, AtPrice
    <3>2. /\ remaining' = remaining /\ failed' = failed /\ refs' = refs
          /\ unread' = unread /\ provider' = provider
          /\ swallowed[r] \subseteq swallowed'[r]
      BY <1>6 DEF CreatePrice
    <3>3. \/ missing' = missing
          \/ /\ missing'[r] = missing[r] \ {p}
             /\ <<p, provider[r]>> \in swallowed'[r]
      BY <1>6 DEF CreatePrice
    <3>4. QED
      BY <3>1, <3>2, <3>3 DEF Accounted
  <2>4. QED
    BY <2>1, <2>2, <2>3, CoversOthers
<1>7. ASSUME NEW r \in Syncs, RefsRead(r) PROVE SyncCovers'
  <2>1. CASE missing[r] = {}
    <3>1. /\ phase[r] \in AtProvider /\ LeaveProvider(r, TRUE)
          /\ unread[r] = {} /\ UNCHANGED <<refs, visited, swallowed, reported>>
      BY <1>7, <2>1 DEF RefsRead, AtProvider
    <3>2. QED
      BY <2>1, <3>1, CoversAtLeave
  <2>2. CASE missing[r] # {}
    <3>1. /\ phase[r] = "refs" /\ phase' = [phase EXCEPT ![r] = "product"]
          /\ UNCHANGED <<refs, priceList, remaining, provider, unread,
                         missing, failed, visited, swallowed, reported>>
      BY <1>7, <2>2 DEF RefsRead
    <3>2. QED
      BY <3>1 DEF SyncCovers, SuccessLeavesRefs, Accounted
  <2>3. QED
    BY <2>1, <2>2
<1>8. ASSUME NEW r \in Syncs, CreateProduct(r) PROVE SyncCovers'
  <2>1. CASE LeaveProvider(r, FALSE)
    <3>1. /\ phase[r] \in AtProvider
          /\ UNCHANGED <<refs, visited, swallowed, reported>>
      BY <1>8 DEF CreateProduct, Moves, AtProvider
    <3>2. QED
      BY <2>1, <3>1, CoversAtLeave
  <2>2. CASE /\ phase[r] = "product" /\ phase' = [phase EXCEPT ![r] = "prices"]
             /\ UNCHANGED <<priceList, remaining, provider, unread, missing,
                            failed>>
    <3>1. UNCHANGED <<refs, visited, swallowed, reported>>
      BY <1>8 DEF CreateProduct
    <3>2. QED
      BY <2>2, <3>1 DEF SyncCovers, SuccessLeavesRefs, Accounted
  <2>3. QED
    BY <1>8, <2>1, <2>2 DEF CreateProduct, Moves, ProductFailed
<1>9. ASSUME NEW r \in Syncs, SaveRef(r) PROVE SyncCovers'
  <2>1. OthersStay(r)
    BY <1>9 DEF OthersStay, SaveRef
  <2>2. reported' \subseteq refs' /\ refs \subseteq refs'
    BY <1>9 DEF SyncCovers, SuccessLeavesRefs, SaveRef
  <2>3. ASSUME NEW a \in priceList'[r], NEW b \in visited'[r]
        PROVE  Accounted(r, a, b)'
    <3>1. Accounted(r, a, b)
      BY <1>9, <2>3 DEF SyncCovers, SaveRef, AtPrice
    <3>2. /\ remaining' = remaining /\ failed' = failed /\ refs \subseteq refs'
          /\ unread' = unread /\ provider' = provider
          /\ swallowed[r] \subseteq swallowed'[r]
          /\ missing'[r] = missing[r] \ {price[r]}
      BY <1>9 DEF SaveRef
    <3>3. \/ <<price[r], provider[r]>> \in refs'
          \/ <<price[r], provider[r]>> \in swallowed'[r]
      BY <1>9 DEF SaveRef
    <3>4. QED
      BY <3>1, <3>2, <3>3 DEF Accounted
  <2>4. QED
    BY <2>1, <2>2, <2>3, CoversOthers
<1>10. ASSUME NEW r \in Syncs, UpdateLegacy(r) PROVE SyncCovers'
  <2>1. OthersStay(r)
    BY <1>10 DEF OthersStay, UpdateLegacy, Moves
  <2>2. reported' \subseteq refs' /\ refs \subseteq refs'
    BY <1>10 DEF SyncCovers, SuccessLeavesRefs, UpdateLegacy
  <2>3. ASSUME NEW a \in priceList'[r], NEW b \in visited'[r]
        PROVE  Accounted(r, a, b)'
    <3>1. Accounted(r, a, b)
      BY <1>10, <2>3 DEF SyncCovers, UpdateLegacy, Moves
    <3>2. QED
      BY <1>10, <3>1 DEF Accounted, UpdateLegacy
  <2>4. QED
    BY <2>1, <2>2, <2>3, CoversOthers
<1>11. ASSUME NEW r \in Syncs, ProviderDone(r) PROVE SyncCovers'
  <2>1. /\ phase[r] = "prices" /\ missing[r] = {} /\ LeaveProvider(r, synced[r])
        /\ UNCHANGED <<refs, visited, swallowed, reported>>
    BY <1>11 DEF ProviderDone
  <2>2. unread[r] = {} /\ phase[r] \in AtProvider
    BY <2>1 DEF RunsLinked, AtProvider
  <2>3. synced[r] \in BOOLEAN
    BY DEF PlanTypeOK
  <2>4. QED
    BY <2>1, <2>2, <2>3, CoversAtLeave
<1>12. ASSUME NEW r \in Syncs, SyncDone(r) PROVE SyncCovers'
  <2>1. OthersStay(r)
    BY <1>12 DEF OthersStay, SyncDone, ForgetRun
  <2>2. phase'[r] = "idle" /\ refs' = refs
    BY <1>12 DEF SyncDone, ForgetRun
  <2>3. reported' \subseteq refs
    <3>1. CASE failed[r] # {}
      BY <1>12, <3>1 DEF SyncDone, SyncCovers, SuccessLeavesRefs
    <3>2. CASE failed[r] = {}
      <4>1. ASSUME NEW a \in priceList[r], NEW b \in visited[r],
                   <<a, b>> \notin swallowed[r]
            PROVE  <<a, b>> \in refs
        <5>1. Accounted(r, a, b)
          BY <1>12, <4>1 DEF SyncDone, SyncCovers
        <5>2. b \notin remaining[r] /\ b \notin failed[r]
          BY <1>12, <3>2 DEF SyncDone
        <5>3. unread[r] = {} /\ missing[r] = {}
          BY <1>12 DEF SyncDone, RunsLinked, AtProvider, AtPrice
        <5>4. QED
          BY <4>1, <5>1, <5>2, <5>3 DEF Accounted
      <4>2. reported' = reported \cup
              ((priceList[r] \X visited[r]) \ swallowed[r])
        BY <1>12, <3>2 DEF SyncDone
      <4>3. ((priceList[r] \X visited[r]) \ swallowed[r]) \subseteq refs
        BY <4>1
      <4>4. QED
        BY <4>2, <4>3 DEF SyncCovers, SuccessLeavesRefs
    <3>3. QED
      BY <3>1, <3>2
  <2>4. QED
    BY <2>1, <2>2, <2>3, CoversOthers
<1>13. ASSUME NEW r \in Syncs, SyncDies(r) PROVE SyncCovers'
  <2>1. OthersStay(r)
    BY <1>13 DEF OthersStay, SyncDies, ForgetRun
  <2>2. reported' \subseteq refs' /\ refs \subseteq refs'
    BY <1>13 DEF SyncCovers, SuccessLeavesRefs, SyncDies
  <2>3. phase'[r] \in {"idle", "providers"}
    BY <1>13 DEF SyncDies, ForgetRun
  <2>4. QED
    BY <2>1, <2>2, <2>3, CoversOthers
<1>14. CASE UNCHANGED planVars
  BY <1>14 DEF planVars, runState, syncHistory, SyncCovers, SuccessLeavesRefs,
     Accounted
<1>15. QED
  BY <1>1, <1>2, <1>3, <1>4, <1>5, <1>6, <1>7, <1>8, <1>9, <1>10, <1>11, <1>12,
     <1>13, <1>14
     DEF PlanNext

-----------------------------------------------------------------------------
(* A set that only one element may have joined or left.                    *)
LEMMA SameButOne ==
    ASSUME NEW X, NEW Y, NEW r, IsFiniteSet(X), X \ {r} = Y \ {r}
    PROVE  /\ IsFiniteSet(Y) /\ Cardinality(X) \in Nat /\ Cardinality(Y) \in Nat
           /\ (r \in X <=> r \in Y) => Cardinality(Y) = Cardinality(X)
           /\ r \in X /\ r \notin Y => Cardinality(Y) = Cardinality(X) - 1
           /\ r \notin X /\ r \in Y => Cardinality(Y) = Cardinality(X) + 1
<1>1. Y = IF r \in Y THEN X \cup {r} ELSE X \ {r}
  OBVIOUS
<1>2. /\ IsFiniteSet(X \cup {r}) /\ IsFiniteSet(X \ {r})
      /\ Cardinality(X) \in Nat
      /\ Cardinality(X \cup {r}) \in Nat /\ Cardinality(X \ {r}) \in Nat
      /\ Cardinality(X \cup {r}) = IF r \in X THEN Cardinality(X)
                                   ELSE Cardinality(X) + 1
      /\ Cardinality(X \ {r}) = IF r \in X THEN Cardinality(X) - 1
                                ELSE Cardinality(X)
  BY OneMore
<1>3. CASE r \in Y
  <2>1. Y = X \cup {r}
    BY <1>1, <1>3
  <2>2. QED
    BY <1>2, <1>3, <2>1
<1>4. CASE r \notin Y
  <2>1. Y = X \ {r}
    BY <1>1, <1>4
  <2>2. QED
    BY <1>2, <1>4, <2>1
<1>5. QED
  BY <1>3, <1>4

(* Runs that hold a pair have made the price or have still to.             *)
LEMMA HoldersSplit ==
    ASSUME RunsLinked, NEW x
    PROVE  /\ IsFiniteSet(Holders(x)) /\ Making(x) \subseteq Holders(x)
           /\ Cardinality(Making(x)) \in Nat /\ Cardinality(Waits(x)) \in Nat
           /\ Cardinality(Holders(x))
                = Cardinality(Making(x)) + Cardinality(Waits(x))
<1>1. Making(x) \subseteq Holders(x)
  BY DEF RunsLinked, Making, Holders
<1>2. /\ IsFiniteSet(Holders(x)) /\ IsFiniteSet(Making(x))
      /\ IsFiniteSet(Waits(x))
  BY FS_Subset, SyncAssumption DEF Holders, Making, Waits
<1>3. Holders(x) = Making(x) \cup Waits(x) /\ Making(x) \cap Waits(x) = {}
  BY <1>1 DEF Waits
<1>4. Cardinality(Making(x) \cup Waits(x))
        = Cardinality(Making(x)) + Cardinality(Waits(x))
            - Cardinality(Making(x) \cap Waits(x))
  BY <1>2, FS_Union
<1>5. Cardinality(Making(x) \cap Waits(x)) = 0
  BY <1>3, FS_EmptySet
<1>6. Cardinality(Making(x)) \in Nat /\ Cardinality(Waits(x)) \in Nat
  BY <1>2, FS_CardinalityType
<1>7. Cardinality(Holders(x)) = Cardinality(Making(x) \cup Waits(x))
  BY <1>3
<1>8. QED
  BY <1>1, <1>2, <1>4, <1>5, <1>6, <1>7

LEMMA HoldersSplitNext ==
    ASSUME RunsLinked', NEW x
    PROVE  /\ IsFiniteSet(Holders(x)') /\ Making(x)' \subseteq Holders(x)'
           /\ Cardinality(Making(x)') \in Nat /\ Cardinality(Waits(x)') \in Nat
           /\ Cardinality(Holders(x)')
                = Cardinality(Making(x)') + Cardinality(Waits(x)')
<1>1. Making(x)' \subseteq Holders(x)'
  BY DEF RunsLinked, Making, Holders
<1>2. /\ IsFiniteSet(Holders(x)') /\ IsFiniteSet(Making(x)')
      /\ IsFiniteSet(Waits(x)')
  BY FS_Subset, SyncAssumption DEF Holders, Making, Waits
<1>3. Holders(x)' = Making(x)' \cup Waits(x)' /\ Making(x)' \cap Waits(x)' = {}
  BY <1>1 DEF Waits
<1>4. Cardinality(Making(x)' \cup Waits(x)')
        = Cardinality(Making(x)') + Cardinality(Waits(x)')
            - Cardinality(Making(x)' \cap Waits(x)')
  BY <1>2, FS_Union
<1>5. Cardinality(Making(x)' \cap Waits(x)') = 0
  BY <1>3, FS_EmptySet
<1>6. Cardinality(Making(x)') \in Nat /\ Cardinality(Waits(x)') \in Nat
  BY <1>2, FS_CardinalityType
<1>7. Cardinality(Holders(x)') = Cardinality(Making(x)' \cup Waits(x)')
  BY <1>3
<1>8. QED
  BY <1>1, <1>2, <1>4, <1>5, <1>6, <1>7

(* What a step of run r may do to the account of a pair.                   *)
LEMMA PairStep ==
    ASSUME PlanTypeOK, PlanTypeOK', RunsLinked, RunsLinked',
           NEW r \in Syncs, NEW x \in Pairs, PairCounted(x),
           Holders(x)' \ {r} = Holders(x) \ {r},
           Making(x)' \ {r} = Making(x) \ {r},
           overlap'[x] >= overlap[x],
           \* r neither makes the price nor finds it missing,
           \/ /\ r \notin Making(x) /\ r \notin Making(x)'
              /\ r \in Holders(x)' => r \in Holders(x)
              /\ created'[x] = created[x] /\ orphaned'[x] = orphaned[x]
              /\ x \in refs' <=> x \in refs
           \* or finds it missing,
           \/ /\ r \notin Making(x) /\ r \notin Making(x)'
              /\ overlap'[x] >= Cardinality(Holders(x)) + 1
              /\ created'[x] = created[x] /\ orphaned'[x] = orphaned[x]
              /\ x \notin refs /\ x \notin refs'
           \* or makes it,
           \/ /\ r \in Holders(x) /\ r \in Holders(x)'
              /\ r \notin Making(x) /\ r \in Making(x)'
              /\ created'[x] = created[x] + 1 /\ orphaned'[x] = orphaned[x]
              /\ x \in refs' <=> x \in refs
           \* or writes its reference,
           \/ /\ r \in Making(x) /\ r \notin Holders(x)'
              /\ created'[x] = created[x] /\ orphaned'[x] = orphaned[x]
              /\ x \in refs'
           \* or never will.
           \/ /\ r \in Making(x) /\ r \notin Holders(x)'
              /\ created'[x] = created[x] /\ orphaned'[x] = orphaned[x] + 1
              /\ x \in refs' <=> x \in refs
    PROVE  PairCounted(x)'
<1>1. PICK h : h = Cardinality(Holders(x))
  OBVIOUS
<1>2. PICK m : m = Cardinality(Making(x))
  OBVIOUS
<1>3. PICK hn : hn = Cardinality(Holders(x)')
  OBVIOUS
<1>4. PICK mn : mn = Cardinality(Making(x)')
  OBVIOUS
<1>5. PICK w : w = Cardinality(Waits(x))
  OBVIOUS
<1>6. PICK wn : wn = Cardinality(Waits(x)')
  OBVIOUS
<1>7. /\ h = m + w /\ m \in Nat /\ w \in Nat /\ h \in Nat
      /\ Making(x) \subseteq Holders(x)
  BY <1>1, <1>2, <1>5, HoldersSplit
<1>8. /\ hn = mn + wn /\ mn \in Nat /\ wn \in Nat /\ hn \in Nat
      /\ Making(x)' \subseteq Holders(x)'
  BY <1>3, <1>4, <1>6, HoldersSplitNext
<1>9. /\ (r \in Holders(x) <=> r \in Holders(x)') => hn = h
      /\ r \in Holders(x) /\ r \notin Holders(x)' => hn = h - 1
      /\ r \notin Holders(x) /\ r \in Holders(x)' => hn = h + 1
  BY <1>1, <1>3, HoldersSplit, SameButOne
<1>10. /\ (r \in Making(x) <=> r \in Making(x)') => mn = m
       /\ r \in Making(x) /\ r \notin Making(x)' => mn = m - 1
       /\ r \notin Making(x) /\ r \in Making(x)' => mn = m + 1
  <2>1. IsFiniteSet(Making(x))
    BY FS_Subset, HoldersSplit
  <2>2. QED
    BY <1>2, <1>4, <2>1, SameButOne
<1>11. /\ created[x] \in Nat /\ overlap[x] \in Nat /\ orphaned[x] \in Nat
       /\ created'[x] \in Nat /\ overlap'[x] \in Nat /\ orphaned'[x] \in Nat
  BY DEF PlanTypeOK
<1>12. /\ h <= overlap[x]
       /\ x \notin refs => created[x] <= orphaned[x] + m
       /\ x \in refs => created[x] + w <= overlap[x] + orphaned[x]
  BY <1>1, <1>2, <1>5 DEF PairCounted
<1>13. /\ hn <= overlap'[x]
       /\ x \notin refs' => created'[x] <= orphaned'[x] + mn
       /\ x \in refs' => created'[x] + wn <= overlap'[x] + orphaned'[x]
  <2>1. CASE /\ r \notin Making(x) /\ r \notin Making(x)'
             /\ r \in Holders(x)' => r \in Holders(x)
             /\ created'[x] = created[x] /\ orphaned'[x] = orphaned[x]
             /\ x \in refs' <=> x \in refs
    BY <1>7, <1>8, <1>9, <1>10, <1>11, <1>12, <2>1
  <2>2. CASE /\ r \notin Making(x) /\ r \notin Making(x)'
             /\ overlap'[x] >= Cardinality(Holders(x)) + 1
             /\ created'[x] = created[x] /\ orphaned'[x] = orphaned[x]
             /\ x \notin refs /\ x \notin refs'
    BY <1>1, <1>7, <1>8, <1>9, <1>10, <1>11, <1>12, <2>2
  <2>3. CASE /\ r \in Holders(x) /\ r \in Holders(x)'
             /\ r \notin Making(x) /\ r \in Making(x)'
             /\ created'[x] = created[x] + 1 /\ orphaned'[x] = orphaned[x]
             /\ x \in refs' <=> x \in refs
    BY <1>7, <1>8, <1>9, <1>10, <1>11, <1>12, <2>3
  <2>4. CASE /\ r \in Making(x) /\ r \notin Holders(x)'
             /\ created'[x] = created[x] /\ orphaned'[x] = orphaned[x]
             /\ x \in refs'
    BY <1>7, <1>8, <1>9, <1>10, <1>11, <1>12, <2>4
  <2>5. CASE /\ r \in Making(x) /\ r \notin Holders(x)'
             /\ created'[x] = created[x] /\ orphaned'[x] = orphaned[x] + 1
             /\ x \in refs' <=> x \in refs
    BY <1>7, <1>8, <1>9, <1>10, <1>11, <1>12, <2>5
  <2>6. QED
    BY <2>1, <2>2, <2>3, <2>4, <2>5
<1>14. QED
  BY <1>3, <1>4, <1>6, <1>13 DEF PairCounted

(* A step that leaves every run at its pair.                               *)
LEMMA PairsStay ==
    ASSUME PairsCounted,
           UNCHANGED <<refs, provider, missing, created, overlap, orphaned>>,
           \A x \in Pairs : Making(x)' = Making(x)
    PROVE  PairsCounted'
<1> SUFFICES ASSUME NEW x \in Pairs PROVE PairCounted(x)'
  BY DEF PairsCounted
<1>1. Holders(x)' = Holders(x)
  BY DEF Holders
<1>2. Waits(x)' = Waits(x)
  BY <1>1 DEF Waits
<1>3. QED
  BY <1>1, <1>2 DEF PairsCounted, PairCounted

(* A step of a run that makes nothing and only gives up what it holds.     *)
LEMMA PairsFall ==
    ASSUME PlanTypeOK, PlanTypeOK', RunsLinked, RunsLinked', PairsCounted,
           NEW r \in Syncs, phase[r] # "reference", phase'[r] # "reference",
           \A o \in Syncs \ {r} : /\ phase'[o] = phase[o] /\ price'[o] = price[o]
                                  /\ provider'[o] = provider[o]
                                  /\ missing'[o] = missing[o],
           \/ missing'[r] = {}
           \/ /\ provider'[r] = provider[r]
              /\ missing'[r] \subseteq missing[r],
           UNCHANGED <<refs, created, overlap, orphaned>>
    PROVE  PairsCounted'
<1> SUFFICES ASSUME NEW x \in Pairs PROVE PairCounted(x)'
  BY DEF PairsCounted
<1>1. /\ Holders(x)' \ {r} = Holders(x) \ {r}
      /\ Making(x)' \ {r} = Making(x) \ {r}
      /\ r \notin Making(x) /\ r \notin Making(x)'
      /\ r \in Holders(x)' => r \in Holders(x)
  BY DEF Holders, Making
<1>2. overlap'[x] >= overlap[x]
  BY DEF PlanTypeOK
<1>3. PairCounted(x)
  BY DEF PairsCounted
<1>4. QED
  BY <1>1, <1>2, <1>3, PairStep

LEMMA PairsAtLeave ==
    ASSUME PlanTypeOK, PlanTypeOK', RunsLinked, RunsLinked', PairsCounted,
           NEW r \in Syncs, NEW ok, LeaveProvider(r, ok),
           phase[r] # "reference", UNCHANGED <<refs, created, overlap, orphaned>>
    PROVE  PairsCounted'
<1>1. /\ phase' = [phase EXCEPT ![r] = "next"]
      /\ provider' = [provider EXCEPT ![r] = NoProvider]
      /\ missing' = [missing EXCEPT ![r] = {}] /\ price' = price
  BY DEF LeaveProvider
<1>2. phase'[r] # "reference" /\ missing'[r] = {}
  BY <1>1 DEF PlanTypeOK
<1>3. \A o \in Syncs \ {r} : /\ phase'[o] = phase[o] /\ price'[o] = price[o]
                             /\ provider'[o] = provider[o]
                             /\ missing'[o] = missing[o]
  BY <1>1 DEF PlanTypeOK
<1>4. QED
  BY <1>2, <1>3, PairsFall

(* Every pair stays accounted for.                                          *)
LEMMA PairsCountedStep ==
    ASSUME PlanTypeOK, PlanTypeOK', RunsLinked, RunsLinked', PairsCounted,
           [PlanNext]_planVars
    PROVE  PairsCounted'
<1> USE SyncAssumption
        DEF PlanTypeOK, runState, syncHistory
<1>1. ASSUME EditPlan PROVE PairsCounted'
  <2>1. \A x \in Pairs : Making(x)' = Making(x)
    BY <1>1 DEF EditPlan, Making
  <2>2. QED
    BY <1>1, <2>1, PairsStay DEF EditPlan
<1>2. ASSUME NEW r \in Syncs, NEW n \in 0 .. MAX_RETRIES, TakeSync(r, n)
     PROVE  PairsCounted'
  <2>1. \/ phase' = phase
        \/ phase[r] = "idle" /\ phase' = [phase EXCEPT ![r] = "providers"]
    BY <1>2 DEF TakeSync
  <2>2. price' = price /\ provider' = provider
    BY <1>2 DEF TakeSync
  <2>3. \A x \in Pairs : Making(x)' = Making(x)
    BY <2>1, <2>2 DEF Making
  <2>4. QED
    BY <1>2, <2>3, PairsStay DEF TakeSync
<1>3. ASSUME NEW r \in Syncs, ReadProviders(r) PROVE PairsCounted'
  <2>1. \A x \in Pairs : Making(x)' = Making(x)
    BY <1>3 DEF ReadProviders, Moves, Making
  <2>2. QED
    BY <1>3, <2>1, PairsStay DEF ReadProviders
<1>4. ASSUME NEW r \in Syncs, NEW q \in Providers, NextProvider(r, q)
     PROVE  PairsCounted'
  BY <1>4, PairsFall
     DEF NextProvider, Moves, RunsLinked, AtProvider, AtPrice
<1>5. ASSUME NEW r \in Syncs, NEW p \in Prices, ReadRef(r, p)
     PROVE  PairsCounted'
  <2>1. phase[r] = "refs" /\ <<p, provider[r]>> \in Pairs
    BY <1>5, PairTypes DEF ReadRef, AtProvider
  <2>2. CASE <<p, provider[r]>> \in refs
    BY <1>5, <2>1, <2>2, PairsFall DEF ReadRef, HasRef
  <2>3. CASE <<p, provider[r]>> \notin refs
    <3> SUFFICES ASSUME NEW x \in Pairs PROVE PairCounted(x)'
      BY DEF PairsCounted
    <3>1. PICK y \in Pairs : y = <<p, provider[r]>>
      BY <2>1
    <3>2. PICK n : n = Cardinality(Holders(y)) + 1
      OBVIOUS
    <3>3. /\ missing' = [missing EXCEPT ![r] = @ \cup {p}]
          /\ overlap' = [overlap EXCEPT ![y] = IF n > @ THEN n ELSE @]
          /\ UNCHANGED <<refs, phase, price, provider, created, orphaned>>
      BY <1>5, <2>3, <3>1, <3>2 DEF ReadRef, HasRef
    <3>4. /\ Holders(x)' \ {r} = Holders(x) \ {r}
          /\ Making(x)' \ {r} = Making(x) \ {r}
          /\ r \notin Making(x) /\ r \notin Making(x)'
          /\ x # y => (r \in Holders(x)' => r \in Holders(x))
      <4>1. y[1] = p /\ y[2] = provider[r]
        BY <3>1
      <4>2. Making(x)' = Making(x) /\ r \notin Making(x)
        BY <2>1, <3>3 DEF Making
      <4>3. Holders(x)' \ {r} = Holders(x) \ {r}
        BY <3>3 DEF Holders
      <4>4. ASSUME x # y, r \in Holders(x)' PROVE r \in Holders(x)
        <5>1. x[1] \in missing[r] \cup {p} /\ provider[r] = x[2]
          BY <3>3, <4>4 DEF Holders
        <5>2. x[1] # p
          BY <4>1, <4>4, <5>1, PairsDiffer
        <5>3. QED
          BY <5>1, <5>2 DEF Holders
      <4>5. QED
        BY <4>2, <4>3, <4>4
    <3>5. n \in Nat
      <4>1. Cardinality(Holders(y)) \in Nat
        BY HoldersFinite
      <4>2. PICK c \in Nat : c = Cardinality(Holders(y))
        BY <4>1
      <4>3. n = c + 1
        BY <3>2, <4>2
      <4>4. QED
        BY <4>3
    <3>6. /\ overlap'[x] >= overlap[x]
          /\ x = y => overlap'[x] >= Cardinality(Holders(x)) + 1
      <4>1. overlap[x] \in Nat /\ overlap'[x] \in Nat
        OBVIOUS
      <4>2. CASE x = y
        <5>1. overlap'[x] = IF n > overlap[x] THEN n ELSE overlap[x]
          BY <3>3, <4>2
        <5>2. ASSUME NEW u \in Nat, NEW v \in Nat
              PROVE  LET w == IF u > v THEN u ELSE v IN w >= u /\ w >= v
          OBVIOUS
        <5>3. overlap'[x] >= overlap[x] /\ overlap'[x] >= n
          BY <3>5, <4>1, <5>1, <5>2
        <5>4. QED
          BY <3>2, <4>2, <5>3
      <4>3. CASE x # y
        <5>1. overlap'[x] = overlap[x]
          BY <3>3, <4>3
        <5>2. QED
          BY <4>1, <4>3, <5>1
      <4>4. QED
        BY <4>2, <4>3
    <3>7. PairCounted(x)
      BY DEF PairsCounted
    <3>8. QED
      BY <2>3, <3>1, <3>3, <3>4, <3>6, <3>7, PairStep
  <2>4. QED
    BY <2>2, <2>3
<1>6. ASSUME NEW r \in Syncs, NEW p \in Prices, CreatePrice(r, p)
     PROVE  PairsCounted'
  <2>1. /\ phase[r] = "prices" /\ p \in missing[r]
        /\ UNCHANGED <<refs, provider, overlap, orphaned>>
    BY <1>6 DEF CreatePrice
  <2>2. CASE /\ missing' = [missing EXCEPT ![r] = @ \ {p}]
             /\ UNCHANGED <<phase, price, created>>
    <3>1. /\ missing'[r] \subseteq missing[r]
          /\ \A o \in Syncs \ {r} : missing'[o] = missing[o]
      BY <2>2
    <3>2. QED
      BY <2>1, <2>2, <3>1, PairsFall
  <2>3. CASE /\ phase' = [phase EXCEPT ![r] = "reference"]
             /\ price' = [price EXCEPT ![r] = p]
             /\ created' = [created EXCEPT ![<<p, provider[r]>>] = @ + 1]
             /\ UNCHANGED missing
    <3> SUFFICES ASSUME NEW x \in Pairs PROVE PairCounted(x)'
      BY DEF PairsCounted
    <3>1. PICK y \in Pairs : y = <<p, provider[r]>>
      BY <2>1, PairTypes DEF AtProvider
    <3>2. y[1] = p /\ y[2] = provider[r]
      BY <3>1
    <3>3. created' = [created EXCEPT ![y] = @ + 1]
      BY <2>3, <3>1
    <3>4. Holders(x)' = Holders(x)
      BY <2>1, <2>3 DEF Holders
    <3>5. Making(x)' \ {r} = Making(x) \ {r} /\ r \notin Making(x)
      BY <2>1, <2>3 DEF Making
    <3>6. phase'[r] = "reference" /\ price'[r] = p /\ provider'[r] = provider[r]
      BY <2>1, <2>3
    <3>7. CASE x = y
      <4>1. r \in Holders(x) /\ r \in Making(x)'
        BY <2>1, <3>2, <3>6, <3>7 DEF Holders, Making
      <4>2. created'[x] = created[x] + 1
        BY <3>3, <3>7
      <4>3. PairCounted(x) /\ overlap'[x] >= overlap[x]
        BY <2>1 DEF PairsCounted
      <4>4. QED
        BY <2>1, <3>4, <3>5, <4>1, <4>2, <4>3, PairStep
    <3>8. CASE x # y
      <4>1. r \notin Making(x)'
        BY <3>2, <3>6, <3>8, PairsDiffer DEF Making
      <4>2. created'[x] = created[x]
        BY <3>3, <3>8
      <4>3. PairCounted(x) /\ overlap'[x] >= overlap[x]
        BY <2>1 DEF PairsCounted
      <4>4. QED
        BY <2>1, <3>4, <3>5, <4>1, <4>2, <4>3, PairStep
    <3>9. QED
      BY <3>7, <3>8
  <2>4. QED
    BY <1>6, <2>2, <2>3 DEF CreatePrice
<1>7. ASSUME NEW r \in Syncs, RefsRead(r) PROVE PairsCounted'
  <2>1. CASE missing[r] = {}
    <3>1. /\ phase[r] = "refs" /\ LeaveProvider(r, TRUE)
          /\ UNCHANGED <<refs, created, overlap, orphaned>>
      BY <1>7, <2>1 DEF RefsRead
    <3>2. QED
      BY <3>1, PairsAtLeave
  <2>2. CASE missing[r] # {}
    <3>1. /\ phase[r] = "refs" /\ phase' = [phase EXCEPT ![r] = "product"]
          /\ UNCHANGED <<refs, created, overlap, orphaned, price, provider,
                         missing>>
      BY <1>7, <2>2 DEF RefsRead
    <3>2. phase'[r] # "reference"
      BY <3>1
    <3>3. QED
      BY <3>1, <3>2, PairsFall
  <2>3. QED
    BY <2>1, <2>2
<1>8. ASSUME NEW r \in Syncs, CreateProduct(r) PROVE PairsCounted'
  <2>1. CASE LeaveProvider(r, FALSE)
    <3>1. /\ phase[r] # "reference"
          /\ UNCHANGED <<refs, created, overlap, orphaned>>
      BY <1>8 DEF CreateProduct, Moves
    <3>2. QED
      BY <2>1, <3>1, PairsAtLeave
  <2>2. CASE /\ phase[r] = "product" /\ phase' = [phase EXCEPT ![r] = "prices"]
             /\ UNCHANGED <<provider, missing, price>>
    <3>1. UNCHANGED <<refs, created, overlap, orphaned>>
      BY <1>8 DEF CreateProduct
    <3>2. phase'[r] # "reference" /\ phase[r] # "reference"
      BY <2>2
    <3>3. QED
      BY <2>2, <3>1, <3>2, PairsFall
  <2>3. QED
    BY <1>8, <2>1, <2>2 DEF CreateProduct, Moves, ProductFailed
<1>9. ASSUME NEW r \in Syncs, SaveRef(r) PROVE PairsCounted'
  <2> SUFFICES ASSUME NEW x \in Pairs PROVE PairCounted(x)'
    BY DEF PairsCounted
  <2>1. phase[r] = "reference" /\ price[r] \in missing[r]
    BY <1>9 DEF SaveRef, RunsLinked
  <2>2. PICK y \in Pairs : y = <<price[r], provider[r]>>
    BY <2>1, PairTypes DEF AtProvider
  <2>3. y[1] = price[r] /\ y[2] = provider[r]
    BY <2>2
  <2>4. /\ missing' = [missing EXCEPT ![r] = @ \ {price[r]}]
        /\ UNCHANGED <<provider, created, overlap>>
    BY <1>9 DEF SaveRef
  <2>5. /\ \/ phase' = [phase EXCEPT ![r] = "legacy"]
           \/ phase' = [phase EXCEPT ![r] = "prices"]
        /\ \/ price' = price
           \/ price' = [price EXCEPT ![r] = NoPrice]
    BY <1>9 DEF SaveRef
  <2>6. phase'[r] # "reference"
    BY <2>5
  <2>7. \A o \in Syncs \ {r} : phase'[o] = phase[o] /\ price'[o] = price[o]
    BY <2>5
  <2>8. Making(x)' \ {r} = Making(x) \ {r} /\ r \notin Making(x)'
    <3>1. r \notin Making(x)'
      BY <2>6 DEF Making
    <3>2. ASSUME NEW o \in Syncs \ {r}
          PROVE  o \in Making(x)' <=> o \in Making(x)
      BY <2>4, <2>7 DEF Making
    <3>3. Making(x) \subseteq Syncs /\ Making(x)' \subseteq Syncs
      BY DEF Making
    <3>4. QED
      BY <3>1, <3>2, <3>3
  <2>9. Holders(x)' \ {r} = Holders(x) \ {r}
    BY <2>4 DEF Holders
  <2>10. r \in Holders(x)' => r \in Holders(x)
    BY <2>4 DEF Holders
  <2>11. PairCounted(x) /\ created'[x] = created[x]
         /\ overlap'[x] >= overlap[x]
    BY <2>4 DEF PairsCounted
  <2>12. \/ refs' = refs \cup {y} /\ orphaned' = orphaned
         \/ refs' = refs /\ orphaned' = [orphaned EXCEPT ![y] = @ + 1]
    BY <1>9, <2>2 DEF SaveRef
  <2>13. CASE x = y
    <3>1. r \in Making(x) /\ r \notin Holders(x)'
      BY <2>1, <2>3, <2>4, <2>13 DEF Making, Holders
    <3>2. CASE refs' = refs \cup {y} /\ orphaned' = orphaned
      BY <2>8, <2>9, <2>11, <2>13, <3>1, <3>2, PairStep
    <3>3. CASE refs' = refs /\ orphaned' = [orphaned EXCEPT ![y] = @ + 1]
      <4>1. orphaned'[x] = orphaned[x] + 1
        BY <2>13, <3>3
      <4>2. QED
        BY <2>8, <2>9, <2>11, <3>1, <3>3, <4>1, PairStep
    <3>4. QED
      BY <2>12, <3>2, <3>3
  <2>14. CASE x # y
    <3>1. r \notin Making(x)
      BY <2>3, <2>14, PairsDiffer DEF Making
    <3>2. orphaned'[x] = orphaned[x] /\ (x \in refs' <=> x \in refs)
      BY <2>12, <2>14
    <3>3. QED
      BY <2>8, <2>9, <2>10, <2>11, <3>1, <3>2, PairStep
  <2>15. QED
    BY <2>13, <2>14
<1>10. ASSUME NEW r \in Syncs, UpdateLegacy(r) PROVE PairsCounted'
  <2>1. \A x \in Pairs : Making(x)' = Making(x)
    BY <1>10 DEF UpdateLegacy, Moves, Making
  <2>2. QED
    BY <1>10, <2>1, PairsStay DEF UpdateLegacy
<1>11. ASSUME NEW r \in Syncs, ProviderDone(r) PROVE PairsCounted'
  <2>1. /\ phase[r] # "reference" /\ LeaveProvider(r, synced[r])
        /\ UNCHANGED <<refs, created, overlap, orphaned>>
    BY <1>11 DEF ProviderDone
  <2>2. QED
    BY <2>1, PairsAtLeave
<1>12. ASSUME NEW r \in Syncs, SyncDone(r) PROVE PairsCounted'
  <2>1. /\ phase[r] = "next" /\ phase' = [phase EXCEPT ![r] = "idle"]
        /\ provider' = [provider EXCEPT ![r] = NoProvider]
        /\ missing' = [missing EXCEPT ![r] = {}]
        /\ price' = [price EXCEPT ![r] = NoPrice]
        /\ UNCHANGED <<refs, created, overlap, orphaned>>
    BY <1>12 DEF SyncDone, ForgetRun
  <2>2. phase[r] # "reference" /\ phase'[r] # "reference" /\ missing'[r] = {}
    BY <2>1
  <2>3. \A o \in Syncs \ {r} : /\ phase'[o] = phase[o] /\ price'[o] = price[o]
                               /\ provider'[o] = provider[o]
                               /\ missing'[o] = missing[o]
    BY <2>1
  <2>4. QED
    BY <2>1, <2>2, <2>3, PairsFall
<1>13. ASSUME NEW r \in Syncs, SyncDies(r) PROVE PairsCounted'
  <2>1. /\ phase' = [phase EXCEPT ![r] = "idle"]
        /\ provider' = [provider EXCEPT ![r] = NoProvider]
        /\ missing' = [missing EXCEPT ![r] = {}]
        /\ price' = [price EXCEPT ![r] = NoPrice]
        /\ UNCHANGED <<refs, created, overlap>>
    BY <1>13 DEF SyncDies, ForgetRun
  <2>2. CASE phase[r] # "reference"
    BY <1>13, <2>1, <2>2, PairsFall DEF SyncDies
  <2>3. CASE phase[r] = "reference"
    <3> SUFFICES ASSUME NEW x \in Pairs PROVE PairCounted(x)'
      BY DEF PairsCounted
    <3>1. PICK y \in Pairs : y = <<price[r], provider[r]>>
      BY <2>3, PairTypes DEF AtProvider
    <3>2. orphaned' = [orphaned EXCEPT ![y] = @ + 1]
      BY <1>13, <2>3, <3>1 DEF SyncDies
    <3>3. y[1] = price[r] /\ y[2] = provider[r]
      BY <3>1
    <3>4. phase'[r] # "reference" /\ missing'[r] = {}
      BY <2>1
    <3>5. Making(x)' \ {r} = Making(x) \ {r} /\ r \notin Making(x)'
      BY <2>1, <3>4 DEF Making
    <3>6. Holders(x)' \ {r} = Holders(x) \ {r} /\ r \notin Holders(x)'
      BY <2>1, <3>4 DEF Holders
    <3>7. PairCounted(x) /\ created'[x] = created[x]
          /\ overlap'[x] >= overlap[x] /\ refs' = refs
      BY <2>1 DEF PairsCounted
    <3>8. CASE x = y
      <4>1. r \in Making(x)
        BY <2>3, <3>3, <3>8 DEF Making
      <4>2. orphaned'[x] = orphaned[x] + 1
        BY <3>2, <3>8
      <4>3. QED
        BY <3>5, <3>6, <3>7, <4>1, <4>2, PairStep
    <3>9. CASE x # y
      <4>1. r \notin Making(x)
        BY <3>3, <3>9, PairsDiffer DEF Making
      <4>2. orphaned'[x] = orphaned[x]
        BY <3>2, <3>9
      <4>3. QED
        BY <3>5, <3>6, <3>7, <4>1, <4>2, PairStep
    <3>10. QED
      BY <3>8, <3>9
  <2>4. QED
    BY <2>2, <2>3
<1>14. CASE UNCHANGED planVars
  <2>1. \A x \in Pairs : Making(x)' = Making(x)
    BY <1>14 DEF planVars, Making
  <2>2. QED
    BY <1>14, <2>1, PairsStay DEF planVars
<1>15. QED
  BY <1>1, <1>2, <1>3, <1>4, <1>5, <1>6, <1>7, <1>8, <1>9, <1>10, <1>11, <1>12,
     <1>13, <1>14
     DEF PlanNext

-----------------------------------------------------------------------------
(* No sync has been queued.                                                *)
LEMMA PlanBegin ==
    PlanInit => PlanInductive
<1> SUFFICES ASSUME PlanInit PROVE PlanInductive
  OBVIOUS
<1> USE SyncAssumption
<1>1. PlanTypeOK
  BY DEF PlanInit, PlanTypeOK, AtPrice
<1>2. RunsLinked /\ SyncCovers
  BY DEF PlanInit, RunsLinked, SyncCovers, SuccessLeavesRefs, AtProvider,
     AtPrice
<1>3. PairsCounted
  <2> SUFFICES ASSUME NEW x \in Pairs PROVE PairCounted(x)
    BY DEF PairsCounted
  <2>1. Holders(x) = {} /\ Making(x) = {} /\ Waits(x) = {}
    BY DEF PlanInit, Holders, Making, Waits
  <2>2. /\ created[x] = 0 /\ overlap[x] = 0 /\ orphaned[x] = 0
    BY DEF PlanInit
  <2>3. /\ Cardinality(Holders(x)) = 0 /\ Cardinality(Making(x)) = 0
        /\ Cardinality(Waits(x)) = 0
    BY <2>1, FS_EmptySet
  <2>4. QED
    BY <2>2, <2>3 DEF PairCounted
<1>4. QED
  BY <1>1, <1>2, <1>3 DEF PlanInductive

THEOREM PlanInvariant == PlanSpec => []PlanInductive
<1>1. PlanInductive /\ [PlanNext]_planVars => PlanInductive'
  BY PlanTypeStep, RunsLinkedStep, SyncCoversStep, PairsCountedStep
     DEF PlanInductive
<1>2. QED
  BY <1>1, PlanBegin, PTL DEF PlanSpec

(* A provider is asked to make a price within the overlap of the runs and  *)
(* the references that were not written (sync-plan-to-providers.ts).       *)
THEOREM PricesLimit == PlanSpec => []PricesBounded
<1>1. PlanInductive => PricesBounded
  <2> SUFFICES ASSUME PlanInductive, NEW x \in Pairs
               PROVE  created[x] <= overlap[x] + orphaned[x]
    BY DEF PricesBounded
  <2>1. /\ created[x] \in Nat /\ overlap[x] \in Nat /\ orphaned[x] \in Nat
    BY DEF PlanInductive, PlanTypeOK
  <2>2. PairCounted(x) /\ RunsLinked
    BY DEF PlanInductive, PairsCounted
  <2>3. /\ Cardinality(Making(x)) \in Nat /\ Cardinality(Waits(x)) \in Nat
        /\ Cardinality(Holders(x))
             = Cardinality(Making(x)) + Cardinality(Waits(x))
    BY <2>2, HoldersSplit
  <2>4. QED
    BY <2>1, <2>2, <2>3 DEF PairCounted
<1>2. QED
  BY <1>1, PlanInvariant, PTL

(* A sync that reports success has left the references of what did not     *)
(* fail before its eyes.                                                   *)
THEOREM SuccessHasRefs == PlanSpec => []SuccessLeavesRefs
BY PlanInvariant, PTL DEF PlanInductive, SyncCovers

-----------------------------------------------------------------------------
(* Promotion coupons.  A call that is at a config knows which, and only a  *)
(* deactivation has rows left to delete.                                   *)
CallsPlaced ==
    \A c \in Managers :
        /\ turn[c] \in Coining \cup Erasing \cup {"map", "drop", "delete"}
              => config[c] \in Configs
        /\ turn[c] \notin {"sweep"} \cup Erasing => rest[c] = {}

(* Coupons are numbered from 1 at each provider, and an active row names   *)
(* one.                                                                    *)
Numbered ==
    \A p \in Configs : /\ row[p] <= made[p] /\ live[p] \subseteq 1..made[p]
                       /\ p \in on => row[p] # 0

(* A call that is about to write a row has a coupon of its own, which the  *)
(* provider still has and no row names yet.                                *)
Writing(c) == turn[c] \in {"insert", "map"}
OwnCoupon ==
    \A c \in Managers : Writing(c) =>
        /\ coupon[c] \in live[config[c]] /\ coupon[c] # row[config[c]]
        /\ \A d \in Managers \ {c} :
              Writing(d) /\ config[d] = config[c] => coupon[d] # coupon[c]

(* What a deactivation deletes was in a row before, so no call is about to *)
(* write it.                                                               *)
Past(p, k) ==
    /\ k \in 1..made[p]
    /\ \A d \in Managers : Writing(d) /\ config[d] = p => coupon[d] # k
SweptPast ==
    \A c \in Managers :
        /\ \A x \in rest[c] : Past(x[1], x[2])
        /\ turn[c] \in Erasing => Past(config[c], coupon[c])

(* Where nothing came between the steps of a sync, there is one sync at    *)
(* most, and its insert will not be refused.                               *)
OneMaker ==
    \A p \in Configs \ disturbed : \A c \in MakersAt(p) :
        /\ MakersAt(p) = {c}
        /\ row[p] = 0 /\ p \in configs

(* SweepLeavesNone, with the pairs of a deactivation taken apart.          *)
SweepFound ==
    \A p \in on :
        \/ p \in newer \/ p \in spared
        \/ \E c \in Managers :
              \/ <<p, row[p]>> \in rest[c]
              \/ turn[c] \in Erasing /\ config[c] = p /\ coupon[c] = row[p]

PromoInductive ==
    /\ PromoTypeOK /\ CallsPlaced /\ Numbered /\ OwnCoupon /\ SweptPast
    /\ OneMaker /\ UndisturbedNamed /\ RowNamesLive /\ SweepFound

(* Types, and where the calls are.                                         *)
LEMMA PromoTypeStep ==
    ASSUME PromoTypeOK, CallsPlaced, [PromoNext]_promoVars PROVE PromoTypeOK'
<1> USE PromotionAssumption DEF PromoTypeOK, CallsPlaced, Coining, Erasing
<1>1. ASSUME PatchPromotion PROVE PromoTypeOK'
  BY <1>1 DEF PatchPromotion, Called, callState, promoHistory
<1>2. ASSUME Unmap PROVE PromoTypeOK'
  BY <1>2 DEF Unmap, Called, callState, promoHistory
<1>3. ASSUME SwitchConfig PROVE PromoTypeOK'
  BY <1>3 DEF SwitchConfig, Called, callState, promoHistory
<1>4. ASSUME NEW c \in Managers, CreatePromotion(c) PROVE PromoTypeOK'
  BY <1>4 DEF CreatePromotion, Called, Passed, promoHistory
<1>5. ASSUME NEW c \in Managers, Sync(c) PROVE PromoTypeOK'
  BY <1>5 DEF Sync, Called, Passed, tables, promoHistory
<1>6. ASSUME NEW c \in Managers, ReadConfigs(c) PROVE PromoTypeOK'
  BY <1>6 DEF ReadConfigs, Passed, tables, promoHistory
<1>7. ASSUME NEW c \in Managers, CheckRef(c) PROVE PromoTypeOK'
  BY <1>7 DEF CheckRef, Passed, HasActive, CouponFault, tables
<1>8. ASSUME NEW c \in Managers, CreateCoupon(c) PROVE PromoTypeOK'
  BY <1>8 DEF CreateCoupon, Passed, NewCoupon, CouponFault, Release, tables
<1>9. ASSUME NEW c \in Managers, InsertRef(c) PROVE PromoTypeOK'
  BY <1>9 DEF InsertRef, Release, MayInsert, InsertRow, CouponFault
<1>10. ASSUME NEW c \in Managers, SyncEnds(c) PROVE PromoTypeOK'
  BY <1>10 DEF SyncEnds, Leaves, tables, promoHistory
<1>11. ASSUME NEW c \in Managers, ClosePromotion(c) PROVE PromoTypeOK'
  BY <1>11 DEF ClosePromotion, Called, Passed, promoHistory
<1>12. ASSUME NEW c \in Managers, ReadRefs(c) PROVE PromoTypeOK'
  BY <1>12 DEF ReadRefs, Passed, ActiveRefs, tables
<1>13. ASSUME NEW c \in Managers, TakeRef(c) PROVE PromoTypeOK'
  BY <1>13 DEF TakeRef, Passed, Reachable, CouponFault, tables
<1>14. ASSUME NEW c \in Managers, DeleteCoupon(c) PROVE PromoTypeOK'
  BY <1>14 DEF DeleteCoupon, Passed, Release, CouponFault, tables
<1>15. ASSUME NEW c \in Managers, RetireRef(c) PROVE PromoTypeOK'
  BY <1>15 DEF RetireRef, Release, TurnOff, CouponFault
<1>16. ASSUME NEW c \in Managers, DeactivateEnds(c) PROVE PromoTypeOK'
  BY <1>16 DEF DeactivateEnds, Leaves, tables, promoHistory
<1>17. ASSUME NEW c \in Managers, MapCoupon(c) PROVE PromoTypeOK'
  BY <1>17 DEF MapCoupon, Called, Passed, HasActive, NewCoupon, tables
<1>18. ASSUME NEW c \in Managers, WriteMapping(c) PROVE PromoTypeOK'
  BY <1>18 DEF WriteMapping, Leaves, MayInsert, InsertRow
<1>19. ASSUME NEW c \in Managers, DeleteConfig(c) PROVE PromoTypeOK'
  BY <1>19 DEF DeleteConfig, Called, Passed, tables, promoHistory
<1>20. ASSUME NEW c \in Managers, DropRefs(c) PROVE PromoTypeOK'
  BY <1>20 DEF DropRefs, Passed
<1>21. ASSUME NEW c \in Managers, DropConfig(c) PROVE PromoTypeOK'
  BY <1>21 DEF DropConfig, Leaves
<1>22. ASSUME NEW c \in Managers, CallDies(c) PROVE PromoTypeOK'
  BY <1>22 DEF CallDies, CouponFault, Leaves, tables
<1>23. CASE UNCHANGED promoVars
  BY <1>23 DEF promoVars, tables, callState, promoHistory
<1>24. QED
  BY <1>1, <1>2, <1>3, <1>4, <1>5, <1>6, <1>7, <1>8, <1>9, <1>10, <1>11,
     <1>12, <1>13, <1>14, <1>15, <1>16, <1>17, <1>18, <1>19, <1>20, <1>21,
     <1>22, <1>23 DEF PromoNext

LEMMA CallsPlacedStep ==
    ASSUME PromoTypeOK, CallsPlaced, [PromoNext]_promoVars PROVE CallsPlaced'
<1> USE PromotionAssumption DEF PromoTypeOK, CallsPlaced, Coining, Erasing
<1>1. ASSUME PatchPromotion PROVE CallsPlaced'
  BY <1>1 DEF PatchPromotion, Called, callState, promoHistory
<1>2. ASSUME Unmap PROVE CallsPlaced'
  BY <1>2 DEF Unmap, Called, callState, promoHistory
<1>3. ASSUME SwitchConfig PROVE CallsPlaced'
  BY <1>3 DEF SwitchConfig, Called, callState, promoHistory
<1>4. ASSUME NEW c \in Managers, CreatePromotion(c) PROVE CallsPlaced'
  BY <1>4 DEF CreatePromotion, Called, Passed, promoHistory
<1>5. ASSUME NEW c \in Managers, Sync(c) PROVE CallsPlaced'
  BY <1>5 DEF Sync, Called, Passed, tables, promoHistory
<1>6. ASSUME NEW c \in Managers, ReadConfigs(c) PROVE CallsPlaced'
  BY <1>6 DEF ReadConfigs, Passed, tables, promoHistory
<1>7. ASSUME NEW c \in Managers, CheckRef(c) PROVE CallsPlaced'
  BY <1>7 DEF CheckRef, Passed, HasActive, CouponFault, tables
<1>8. ASSUME NEW c \in Managers, CreateCoupon(c) PROVE CallsPlaced'
  BY <1>8 DEF CreateCoupon, Passed, NewCoupon, CouponFault, Release, tables
<1>9. ASSUME NEW c \in Managers, InsertRef(c) PROVE CallsPlaced'
  BY <1>9 DEF InsertRef, Release, MayInsert, InsertRow, CouponFault
<1>10. ASSUME NEW c \in Managers, SyncEnds(c) PROVE CallsPlaced'
  BY <1>10 DEF SyncEnds, Leaves, tables, promoHistory
<1>11. ASSUME NEW c \in Managers, ClosePromotion(c) PROVE CallsPlaced'
  BY <1>11 DEF ClosePromotion, Called, Passed, promoHistory
<1>12. ASSUME NEW c \in Managers, ReadRefs(c) PROVE CallsPlaced'
  BY <1>12 DEF ReadRefs, Passed, ActiveRefs, tables
<1>13. ASSUME NEW c \in Managers, TakeRef(c) PROVE CallsPlaced'
  BY <1>13 DEF TakeRef, Passed, Reachable, CouponFault, tables
<1>14. ASSUME NEW c \in Managers, DeleteCoupon(c) PROVE CallsPlaced'
  BY <1>14 DEF DeleteCoupon, Passed, Release, CouponFault, tables
<1>15. ASSUME NEW c \in Managers, RetireRef(c) PROVE CallsPlaced'
  BY <1>15 DEF RetireRef, Release, TurnOff, CouponFault
<1>16. ASSUME NEW c \in Managers, DeactivateEnds(c) PROVE CallsPlaced'
  BY <1>16 DEF DeactivateEnds, Leaves, tables, promoHistory
<1>17. ASSUME NEW c \in Managers, MapCoupon(c) PROVE CallsPlaced'
  BY <1>17 DEF MapCoupon, Called, Passed, HasActive, NewCoupon, tables
<1>18. ASSUME NEW c \in Managers, WriteMapping(c) PROVE CallsPlaced'
  BY <1>18 DEF WriteMapping, Leaves, MayInsert, InsertRow
<1>19. ASSUME NEW c \in Managers, DeleteConfig(c) PROVE CallsPlaced'
  BY <1>19 DEF DeleteConfig, Called, Passed, tables, promoHistory
<1>20. ASSUME NEW c \in Managers, DropRefs(c) PROVE CallsPlaced'
  BY <1>20 DEF DropRefs, Passed
<1>21. ASSUME NEW c \in Managers, DropConfig(c) PROVE CallsPlaced'
  BY <1>21 DEF DropConfig, Leaves
<1>22. ASSUME NEW c \in Managers, CallDies(c) PROVE CallsPlaced'
  BY <1>22 DEF CallDies, CouponFault, Leaves, tables
<1>23. CASE UNCHANGED promoVars
  BY <1>23 DEF promoVars, tables, callState, promoHistory
<1>24. QED
  BY <1>1, <1>2, <1>3, <1>4, <1>5, <1>6, <1>7, <1>8, <1>9, <1>10, <1>11,
     <1>12, <1>13, <1>14, <1>15, <1>16, <1>17, <1>18, <1>19, <1>20, <1>21,
     <1>22, <1>23 DEF PromoNext

(* Coupon numbers, those held, and those a deactivation is after.          *)
LEMMA NumberedStep ==
    ASSUME PromoTypeOK, CallsPlaced, Numbered, OwnCoupon, [PromoNext]_promoVars PROVE Numbered'
<1> USE PromotionAssumption DEF PromoTypeOK, CallsPlaced, Numbered, OwnCoupon, Writing, Coining, Erasing
<1>1. ASSUME PatchPromotion PROVE Numbered'
  BY <1>1 DEF PatchPromotion, Called, callState, promoHistory
<1>2. ASSUME Unmap PROVE Numbered'
  BY <1>2 DEF Unmap, Called, callState, promoHistory
<1>3. ASSUME SwitchConfig PROVE Numbered'
  BY <1>3 DEF SwitchConfig, Called, callState, promoHistory
<1>4. ASSUME NEW c \in Managers, CreatePromotion(c) PROVE Numbered'
  BY <1>4 DEF CreatePromotion, Called, Passed, promoHistory
<1>5. ASSUME NEW c \in Managers, Sync(c) PROVE Numbered'
  BY <1>5 DEF Sync, Called, Passed, tables, promoHistory
<1>6. ASSUME NEW c \in Managers, ReadConfigs(c) PROVE Numbered'
  BY <1>6 DEF ReadConfigs, Passed, tables, promoHistory
<1>7. ASSUME NEW c \in Managers, CheckRef(c) PROVE Numbered'
  BY <1>7 DEF CheckRef, Passed, HasActive, CouponFault, tables
<1>8. ASSUME NEW c \in Managers, CreateCoupon(c) PROVE Numbered'
  BY <1>8 DEF CreateCoupon, Passed, NewCoupon, CouponFault, Release, tables
<1>9. ASSUME NEW c \in Managers, InsertRef(c) PROVE Numbered'
  BY <1>9 DEF InsertRef, Release, MayInsert, InsertRow, CouponFault
<1>10. ASSUME NEW c \in Managers, SyncEnds(c) PROVE Numbered'
  BY <1>10 DEF SyncEnds, Leaves, tables, promoHistory
<1>11. ASSUME NEW c \in Managers, ClosePromotion(c) PROVE Numbered'
  BY <1>11 DEF ClosePromotion, Called, Passed, promoHistory
<1>12. ASSUME NEW c \in Managers, ReadRefs(c) PROVE Numbered'
  BY <1>12 DEF ReadRefs, Passed, ActiveRefs, tables
<1>13. ASSUME NEW c \in Managers, TakeRef(c) PROVE Numbered'
  BY <1>13 DEF TakeRef, Passed, Reachable, CouponFault, tables
<1>14. ASSUME NEW c \in Managers, DeleteCoupon(c) PROVE Numbered'
  BY <1>14 DEF DeleteCoupon, Passed, Release, CouponFault, tables
<1>15. ASSUME NEW c \in Managers, RetireRef(c) PROVE Numbered'
  BY <1>15 DEF RetireRef, Release, TurnOff, CouponFault
<1>16. ASSUME NEW c \in Managers, DeactivateEnds(c) PROVE Numbered'
  BY <1>16 DEF DeactivateEnds, Leaves, tables, promoHistory
<1>17. ASSUME NEW c \in Managers, MapCoupon(c) PROVE Numbered'
  BY <1>17 DEF MapCoupon, Called, Passed, HasActive, NewCoupon, tables
<1>18. ASSUME NEW c \in Managers, WriteMapping(c) PROVE Numbered'
  BY <1>18 DEF WriteMapping, Leaves, MayInsert, InsertRow
<1>19. ASSUME NEW c \in Managers, DeleteConfig(c) PROVE Numbered'
  BY <1>19 DEF DeleteConfig, Called, Passed, tables, promoHistory
<1>20. ASSUME NEW c \in Managers, DropRefs(c) PROVE Numbered'
  BY <1>20 DEF DropRefs, Passed
<1>21. ASSUME NEW c \in Managers, DropConfig(c) PROVE Numbered'
  BY <1>21 DEF DropConfig, Leaves
<1>22. ASSUME NEW c \in Managers, CallDies(c) PROVE Numbered'
  BY <1>22 DEF CallDies, CouponFault, Leaves, tables
<1>23. CASE UNCHANGED promoVars
  BY <1>23 DEF promoVars, tables, callState, promoHistory
<1>24. QED
  BY <1>1, <1>2, <1>3, <1>4, <1>5, <1>6, <1>7, <1>8, <1>9, <1>10, <1>11,
     <1>12, <1>13, <1>14, <1>15, <1>16, <1>17, <1>18, <1>19, <1>20, <1>21,
     <1>22, <1>23 DEF PromoNext

LEMMA OwnCouponStep ==
    ASSUME PromoTypeOK, CallsPlaced, Numbered, OwnCoupon, SweptPast, [PromoNext]_promoVars PROVE OwnCoupon'
<1> USE PromotionAssumption DEF PromoTypeOK, CallsPlaced, Numbered, OwnCoupon, Writing, Coining, Erasing
<1>1. ASSUME PatchPromotion PROVE OwnCoupon'
  BY <1>1 DEF PatchPromotion, Called, callState, promoHistory
<1>2. ASSUME Unmap PROVE OwnCoupon'
  BY <1>2 DEF Unmap, Called, callState, promoHistory
<1>3. ASSUME SwitchConfig PROVE OwnCoupon'
  BY <1>3 DEF SwitchConfig, Called, callState, promoHistory
<1>4. ASSUME NEW c \in Managers, CreatePromotion(c) PROVE OwnCoupon'
  BY <1>4 DEF CreatePromotion, Called, Passed, promoHistory
<1>5. ASSUME NEW c \in Managers, Sync(c) PROVE OwnCoupon'
  BY <1>5 DEF Sync, Called, Passed, tables, promoHistory
<1>6. ASSUME NEW c \in Managers, ReadConfigs(c) PROVE OwnCoupon'
  BY <1>6 DEF ReadConfigs, Passed, tables, promoHistory
<1>7. ASSUME NEW c \in Managers, CheckRef(c) PROVE OwnCoupon'
  BY <1>7 DEF CheckRef, Passed, HasActive, CouponFault, tables
<1>8. ASSUME NEW c \in Managers, CreateCoupon(c) PROVE OwnCoupon'
<2>1. PICK p \in Configs : p = config[c] /\ turn[c] = "create"
  BY <1>8 DEF CreateCoupon, Passed
<2>2. /\ row' = row /\ made[p] \in Nat
      /\ \A d \in Managers \ {c} :
            turn'[d] = turn[d] /\ config'[d] = config[d] /\ coupon'[d] = coupon[d]
      /\ \A q \in Configs : live[q] \subseteq live'[q]
  BY <1>8, <2>1 DEF CreateCoupon, Passed, NewCoupon, Release, tables
<2>3. ~Writing(c)' \/ (/\ config'[c] = p /\ coupon'[c] = made[p] + 1
                      /\ made[p] + 1 \in live'[p])
  BY <1>8, <2>1 DEF CreateCoupon, Passed, NewCoupon, Release
<2>4. made[p] + 1 # row[p] /\ made[p] + 1 \notin live[p]
  BY <2>2
<2>5. ~Writing(c)
  BY <2>1
<2>6. \A d \in Managers \ {c} : Writing(d)' <=> Writing(d)
  BY <2>2
<2>7. ASSUME NEW d \in Managers, Writing(d)'
      PROVE  /\ coupon'[d] \in live'[config'[d]]
             /\ coupon'[d] # row'[config'[d]]
  BY <2>1, <2>2, <2>3, <2>4, <2>7
<2>8. ASSUME NEW d \in Managers, Writing(d)', NEW e \in Managers \ {d},
             Writing(e)', config'[e] = config'[d]
      PROVE  coupon'[e] # coupon'[d]
  BY <2>1, <2>2, <2>3, <2>4, <2>6, <2>8
<2>9. QED
  BY <2>7, <2>8
<1>9. ASSUME NEW c \in Managers, InsertRef(c) PROVE OwnCoupon'
  BY <1>9 DEF InsertRef, Release, MayInsert, InsertRow, CouponFault
<1>10. ASSUME NEW c \in Managers, SyncEnds(c) PROVE OwnCoupon'
  BY <1>10 DEF SyncEnds, Leaves, tables, promoHistory
<1>11. ASSUME NEW c \in Managers, ClosePromotion(c) PROVE OwnCoupon'
  BY <1>11 DEF ClosePromotion, Called, Passed, promoHistory
<1>12. ASSUME NEW c \in Managers, ReadRefs(c) PROVE OwnCoupon'
  BY <1>12 DEF ReadRefs, Passed, ActiveRefs, tables
<1>13. ASSUME NEW c \in Managers, TakeRef(c) PROVE OwnCoupon'
  BY <1>13 DEF TakeRef, Passed, Reachable, CouponFault, tables
<1>14. ASSUME NEW c \in Managers, DeleteCoupon(c) PROVE OwnCoupon'
  BY <1>14 DEF DeleteCoupon, Passed, Release, CouponFault, tables, SweptPast,
      Past
<1>15. ASSUME NEW c \in Managers, RetireRef(c) PROVE OwnCoupon'
  BY <1>15 DEF RetireRef, Release, TurnOff, CouponFault
<1>16. ASSUME NEW c \in Managers, DeactivateEnds(c) PROVE OwnCoupon'
  BY <1>16 DEF DeactivateEnds, Leaves, tables, promoHistory
<1>17. ASSUME NEW c \in Managers, MapCoupon(c) PROVE OwnCoupon'
  BY <1>17 DEF MapCoupon, Called, Passed, HasActive, NewCoupon, tables
<1>18. ASSUME NEW c \in Managers, WriteMapping(c) PROVE OwnCoupon'
  BY <1>18 DEF WriteMapping, Leaves, MayInsert, InsertRow
<1>19. ASSUME NEW c \in Managers, DeleteConfig(c) PROVE OwnCoupon'
  BY <1>19 DEF DeleteConfig, Called, Passed, tables, promoHistory
<1>20. ASSUME NEW c \in Managers, DropRefs(c) PROVE OwnCoupon'
  BY <1>20 DEF DropRefs, Passed
<1>21. ASSUME NEW c \in Managers, DropConfig(c) PROVE OwnCoupon'
  BY <1>21 DEF DropConfig, Leaves
<1>22. ASSUME NEW c \in Managers, CallDies(c) PROVE OwnCoupon'
  BY <1>22 DEF CallDies, CouponFault, Leaves, tables
<1>23. CASE UNCHANGED promoVars
  BY <1>23 DEF promoVars, tables, callState, promoHistory
<1>24. QED
  BY <1>1, <1>2, <1>3, <1>4, <1>5, <1>6, <1>7, <1>8, <1>9, <1>10, <1>11,
     <1>12, <1>13, <1>14, <1>15, <1>16, <1>17, <1>18, <1>19, <1>20, <1>21,
     <1>22, <1>23 DEF PromoNext

LEMMA SweptPastStep ==
    ASSUME PromoTypeOK, CallsPlaced, Numbered, OwnCoupon, SweptPast, [PromoNext]_promoVars PROVE SweptPast'
<1> USE PromotionAssumption DEF PromoTypeOK, CallsPlaced, Numbered, OwnCoupon, SweptPast, Past, Writing, Coining, Erasing
<1>1. ASSUME PatchPromotion PROVE SweptPast'
  BY <1>1 DEF PatchPromotion, Called, callState, promoHistory
<1>2. ASSUME Unmap PROVE SweptPast'
  BY <1>2 DEF Unmap, Called, callState, promoHistory
<1>3. ASSUME SwitchConfig PROVE SweptPast'
  BY <1>3 DEF SwitchConfig, Called, callState, promoHistory
<1>4. ASSUME NEW c \in Managers, CreatePromotion(c) PROVE SweptPast'
  BY <1>4 DEF CreatePromotion, Called, Passed, promoHistory
<1>5. ASSUME NEW c \in Managers, Sync(c) PROVE SweptPast'
  BY <1>5 DEF Sync, Called, Passed, tables, promoHistory
<1>6. ASSUME NEW c \in Managers, ReadConfigs(c) PROVE SweptPast'
  BY <1>6 DEF ReadConfigs, Passed, tables, promoHistory
<1>7. ASSUME NEW c \in Managers, CheckRef(c) PROVE SweptPast'
  BY <1>7 DEF CheckRef, Passed, HasActive, CouponFault, tables
<1>8. ASSUME NEW c \in Managers, CreateCoupon(c) PROVE SweptPast'
  BY <1>8 DEF CreateCoupon, Passed, NewCoupon, CouponFault, Release, tables
<1>9. ASSUME NEW c \in Managers, InsertRef(c) PROVE SweptPast'
  BY <1>9 DEF InsertRef, Release, MayInsert, InsertRow, CouponFault
<1>10. ASSUME NEW c \in Managers, SyncEnds(c) PROVE SweptPast'
  BY <1>10 DEF SyncEnds, Leaves, tables, promoHistory
<1>11. ASSUME NEW c \in Managers, ClosePromotion(c) PROVE SweptPast'
  BY <1>11 DEF ClosePromotion, Called, Passed, promoHistory
<1>12. ASSUME NEW c \in Managers, ReadRefs(c) PROVE SweptPast'
  BY <1>12 DEF ReadRefs, Passed, ActiveRefs, tables
<1>13. ASSUME NEW c \in Managers, TakeRef(c) PROVE SweptPast'
  BY <1>13 DEF TakeRef, Passed, Reachable, CouponFault, tables
<1>14. ASSUME NEW c \in Managers, DeleteCoupon(c) PROVE SweptPast'
  BY <1>14 DEF DeleteCoupon, Passed, Release, CouponFault, tables
<1>15. ASSUME NEW c \in Managers, RetireRef(c) PROVE SweptPast'
  BY <1>15 DEF RetireRef, Release, TurnOff, CouponFault
<1>16. ASSUME NEW c \in Managers, DeactivateEnds(c) PROVE SweptPast'
  BY <1>16 DEF DeactivateEnds, Leaves, tables, promoHistory
<1>17. ASSUME NEW c \in Managers, MapCoupon(c) PROVE SweptPast'
  BY <1>17 DEF MapCoupon, Called, Passed, HasActive, NewCoupon, tables
<1>18. ASSUME NEW c \in Managers, WriteMapping(c) PROVE SweptPast'
  BY <1>18 DEF WriteMapping, Leaves, MayInsert, InsertRow
<1>19. ASSUME NEW c \in Managers, DeleteConfig(c) PROVE SweptPast'
  BY <1>19 DEF DeleteConfig, Called, Passed, tables, promoHistory
<1>20. ASSUME NEW c \in Managers, DropRefs(c) PROVE SweptPast'
  BY <1>20 DEF DropRefs, Passed
<1>21. ASSUME NEW c \in Managers, DropConfig(c) PROVE SweptPast'
  BY <1>21 DEF DropConfig, Leaves
<1>22. ASSUME NEW c \in Managers, CallDies(c) PROVE SweptPast'
  BY <1>22 DEF CallDies, CouponFault, Leaves, tables
<1>23. CASE UNCHANGED promoVars
  BY <1>23 DEF promoVars, tables, callState, promoHistory
<1>24. QED
  BY <1>1, <1>2, <1>3, <1>4, <1>5, <1>6, <1>7, <1>8, <1>9, <1>10, <1>11,
     <1>12, <1>13, <1>14, <1>15, <1>16, <1>17, <1>18, <1>19, <1>20, <1>21,
     <1>22, <1>23 DEF PromoNext

(* Undisturbed syncs and what they leave.                                  *)
LEMMA OneMakerStep ==
    ASSUME PromoTypeOK, CallsPlaced, OneMaker, [PromoNext]_promoVars PROVE OneMaker'
<1> USE PromotionAssumption DEF PromoTypeOK, CallsPlaced, OneMaker, MakersAt, Undisturbed, HasActive, Coining, Erasing
<1>1. ASSUME PatchPromotion PROVE OneMaker'
  BY <1>1 DEF PatchPromotion, Called, callState, promoHistory
<1>2. ASSUME Unmap PROVE OneMaker'
  BY <1>2 DEF Unmap, Called, callState, promoHistory
<1>3. ASSUME SwitchConfig PROVE OneMaker'
  BY <1>3 DEF SwitchConfig, Called, callState, promoHistory
<1>4. ASSUME NEW c \in Managers, CreatePromotion(c) PROVE OneMaker'
  BY <1>4 DEF CreatePromotion, Called, Passed, promoHistory
<1>5. ASSUME NEW c \in Managers, Sync(c) PROVE OneMaker'
  BY <1>5 DEF Sync, Called, Passed, tables, promoHistory
<1>6. ASSUME NEW c \in Managers, ReadConfigs(c) PROVE OneMaker'
  BY <1>6 DEF ReadConfigs, Passed, tables, promoHistory
<1>7. ASSUME NEW c \in Managers, CheckRef(c) PROVE OneMaker'
  BY <1>7 DEF CheckRef, Passed, HasActive, CouponFault, tables
<1>8. ASSUME NEW c \in Managers, CreateCoupon(c) PROVE OneMaker'
  BY <1>8 DEF CreateCoupon, Passed, NewCoupon, CouponFault, Release, tables
<1>9. ASSUME NEW c \in Managers, InsertRef(c) PROVE OneMaker'
  BY <1>9 DEF InsertRef, Release, MayInsert, InsertRow, CouponFault
<1>10. ASSUME NEW c \in Managers, SyncEnds(c) PROVE OneMaker'
  BY <1>10 DEF SyncEnds, Leaves, tables, promoHistory
<1>11. ASSUME NEW c \in Managers, ClosePromotion(c) PROVE OneMaker'
  BY <1>11 DEF ClosePromotion, Called, Passed, promoHistory
<1>12. ASSUME NEW c \in Managers, ReadRefs(c) PROVE OneMaker'
  BY <1>12 DEF ReadRefs, Passed, ActiveRefs, tables
<1>13. ASSUME NEW c \in Managers, TakeRef(c) PROVE OneMaker'
  BY <1>13 DEF TakeRef, Passed, Reachable, CouponFault, tables
<1>14. ASSUME NEW c \in Managers, DeleteCoupon(c) PROVE OneMaker'
  BY <1>14 DEF DeleteCoupon, Passed, Release, CouponFault, tables
<1>15. ASSUME NEW c \in Managers, RetireRef(c) PROVE OneMaker'
  BY <1>15 DEF RetireRef, Release, TurnOff, CouponFault
<1>16. ASSUME NEW c \in Managers, DeactivateEnds(c) PROVE OneMaker'
  BY <1>16 DEF DeactivateEnds, Leaves, tables, promoHistory
<1>17. ASSUME NEW c \in Managers, MapCoupon(c) PROVE OneMaker'
  BY <1>17 DEF MapCoupon, Called, Passed, HasActive, NewCoupon, tables
<1>18. ASSUME NEW c \in Managers, WriteMapping(c) PROVE OneMaker'
  BY <1>18 DEF WriteMapping, Leaves, MayInsert, InsertRow
<1>19. ASSUME NEW c \in Managers, DeleteConfig(c) PROVE OneMaker'
  BY <1>19 DEF DeleteConfig, Called, Passed, tables, promoHistory
<1>20. ASSUME NEW c \in Managers, DropRefs(c) PROVE OneMaker'
  BY <1>20 DEF DropRefs, Passed
<1>21. ASSUME NEW c \in Managers, DropConfig(c) PROVE OneMaker'
  BY <1>21 DEF DropConfig, Leaves
<1>22. ASSUME NEW c \in Managers, CallDies(c) PROVE OneMaker'
  BY <1>22 DEF CallDies, CouponFault, Leaves, tables
<1>23. CASE UNCHANGED promoVars
  BY <1>23 DEF promoVars, tables, callState, promoHistory
<1>24. QED
  BY <1>1, <1>2, <1>3, <1>4, <1>5, <1>6, <1>7, <1>8, <1>9, <1>10, <1>11,
     <1>12, <1>13, <1>14, <1>15, <1>16, <1>17, <1>18, <1>19, <1>20, <1>21,
     <1>22, <1>23 DEF PromoNext

LEMMA NamedStep ==
    ASSUME PromoTypeOK, CallsPlaced, Numbered, OneMaker, UndisturbedNamed, [PromoNext]_promoVars PROVE UndisturbedNamed'
<1> USE PromotionAssumption DEF PromoTypeOK, CallsPlaced, Numbered, OneMaker, UndisturbedNamed, Nameless, MakersAt, Undisturbed, HasActive, Coining, Erasing
<1>1. ASSUME PatchPromotion PROVE UndisturbedNamed'
  BY <1>1 DEF PatchPromotion, Called, callState, promoHistory
<1>2. ASSUME Unmap PROVE UndisturbedNamed'
  BY <1>2 DEF Unmap, Called, callState, promoHistory
<1>3. ASSUME SwitchConfig PROVE UndisturbedNamed'
  BY <1>3 DEF SwitchConfig, Called, callState, promoHistory
<1>4. ASSUME NEW c \in Managers, CreatePromotion(c) PROVE UndisturbedNamed'
  BY <1>4 DEF CreatePromotion, Called, Passed, promoHistory
<1>5. ASSUME NEW c \in Managers, Sync(c) PROVE UndisturbedNamed'
  BY <1>5 DEF Sync, Called, Passed, tables, promoHistory
<1>6. ASSUME NEW c \in Managers, ReadConfigs(c) PROVE UndisturbedNamed'
  BY <1>6 DEF ReadConfigs, Passed, tables, promoHistory
<1>7. ASSUME NEW c \in Managers, CheckRef(c) PROVE UndisturbedNamed'
  BY <1>7 DEF CheckRef, Passed, HasActive, CouponFault, tables
<1>8. ASSUME NEW c \in Managers, CreateCoupon(c) PROVE UndisturbedNamed'
  BY <1>8 DEF CreateCoupon, Passed, NewCoupon, CouponFault, Release, tables
<1>9. ASSUME NEW c \in Managers, InsertRef(c) PROVE UndisturbedNamed'
  BY <1>9 DEF InsertRef, Release, MayInsert, InsertRow, CouponFault
<1>10. ASSUME NEW c \in Managers, SyncEnds(c) PROVE UndisturbedNamed'
  BY <1>10 DEF SyncEnds, Leaves, tables, promoHistory
<1>11. ASSUME NEW c \in Managers, ClosePromotion(c) PROVE UndisturbedNamed'
  BY <1>11 DEF ClosePromotion, Called, Passed, promoHistory
<1>12. ASSUME NEW c \in Managers, ReadRefs(c) PROVE UndisturbedNamed'
  BY <1>12 DEF ReadRefs, Passed, ActiveRefs, tables
<1>13. ASSUME NEW c \in Managers, TakeRef(c) PROVE UndisturbedNamed'
  BY <1>13 DEF TakeRef, Passed, Reachable, CouponFault, tables
<1>14. ASSUME NEW c \in Managers, DeleteCoupon(c) PROVE UndisturbedNamed'
  BY <1>14 DEF DeleteCoupon, Passed, Release, CouponFault, tables
<1>15. ASSUME NEW c \in Managers, RetireRef(c) PROVE UndisturbedNamed'
  BY <1>15 DEF RetireRef, Release, TurnOff, CouponFault
<1>16. ASSUME NEW c \in Managers, DeactivateEnds(c) PROVE UndisturbedNamed'
  BY <1>16 DEF DeactivateEnds, Leaves, tables, promoHistory
<1>17. ASSUME NEW c \in Managers, MapCoupon(c) PROVE UndisturbedNamed'
  BY <1>17 DEF MapCoupon, Called, Passed, HasActive, NewCoupon, tables
<1>18. ASSUME NEW c \in Managers, WriteMapping(c) PROVE UndisturbedNamed'
  BY <1>18 DEF WriteMapping, Leaves, MayInsert, InsertRow
<1>19. ASSUME NEW c \in Managers, DeleteConfig(c) PROVE UndisturbedNamed'
  BY <1>19 DEF DeleteConfig, Called, Passed, tables, promoHistory
<1>20. ASSUME NEW c \in Managers, DropRefs(c) PROVE UndisturbedNamed'
  BY <1>20 DEF DropRefs, Passed
<1>21. ASSUME NEW c \in Managers, DropConfig(c) PROVE UndisturbedNamed'
  BY <1>21 DEF DropConfig, Leaves
<1>22. ASSUME NEW c \in Managers, CallDies(c) PROVE UndisturbedNamed'
  BY <1>22 DEF CallDies, CouponFault, Leaves, tables
<1>23. CASE UNCHANGED promoVars
  BY <1>23 DEF promoVars, tables, callState, promoHistory
<1>24. QED
  BY <1>1, <1>2, <1>3, <1>4, <1>5, <1>6, <1>7, <1>8, <1>9, <1>10, <1>11,
     <1>12, <1>13, <1>14, <1>15, <1>16, <1>17, <1>18, <1>19, <1>20, <1>21,
     <1>22, <1>23 DEF PromoNext

(* Rows and sweeps.                                                        *)
LEMMA RowLiveStep ==
    ASSUME PromoTypeOK, CallsPlaced, OwnCoupon, RowNamesLive, [PromoNext]_promoVars PROVE RowNamesLive'
<1> USE PromotionAssumption DEF PromoTypeOK, CallsPlaced, OwnCoupon, Writing, RowNamesLive, Coining, Erasing
<1>1. ASSUME PatchPromotion PROVE RowNamesLive'
  BY <1>1 DEF PatchPromotion, Called, callState, promoHistory
<1>2. ASSUME Unmap PROVE RowNamesLive'
  BY <1>2 DEF Unmap, Called, callState, promoHistory
<1>3. ASSUME SwitchConfig PROVE RowNamesLive'
  BY <1>3 DEF SwitchConfig, Called, callState, promoHistory
<1>4. ASSUME NEW c \in Managers, CreatePromotion(c) PROVE RowNamesLive'
  BY <1>4 DEF CreatePromotion, Called, Passed, promoHistory
<1>5. ASSUME NEW c \in Managers, Sync(c) PROVE RowNamesLive'
  BY <1>5 DEF Sync, Called, Passed, tables, promoHistory
<1>6. ASSUME NEW c \in Managers, ReadConfigs(c) PROVE RowNamesLive'
  BY <1>6 DEF ReadConfigs, Passed, tables, promoHistory
<1>7. ASSUME NEW c \in Managers, CheckRef(c) PROVE RowNamesLive'
  BY <1>7 DEF CheckRef, Passed, HasActive, CouponFault, tables
<1>8. ASSUME NEW c \in Managers, CreateCoupon(c) PROVE RowNamesLive'
  BY <1>8 DEF CreateCoupon, Passed, NewCoupon, CouponFault, Release, tables
<1>9. ASSUME NEW c \in Managers, InsertRef(c) PROVE RowNamesLive'
  BY <1>9 DEF InsertRef, Release, MayInsert, InsertRow, CouponFault
<1>10. ASSUME NEW c \in Managers, SyncEnds(c) PROVE RowNamesLive'
  BY <1>10 DEF SyncEnds, Leaves, tables, promoHistory
<1>11. ASSUME NEW c \in Managers, ClosePromotion(c) PROVE RowNamesLive'
  BY <1>11 DEF ClosePromotion, Called, Passed, promoHistory
<1>12. ASSUME NEW c \in Managers, ReadRefs(c) PROVE RowNamesLive'
  BY <1>12 DEF ReadRefs, Passed, ActiveRefs, tables
<1>13. ASSUME NEW c \in Managers, TakeRef(c) PROVE RowNamesLive'
  BY <1>13 DEF TakeRef, Passed, Reachable, CouponFault, tables
<1>14. ASSUME NEW c \in Managers, DeleteCoupon(c) PROVE RowNamesLive'
  BY <1>14 DEF DeleteCoupon, Passed, Release, CouponFault, tables
<1>15. ASSUME NEW c \in Managers, RetireRef(c) PROVE RowNamesLive'
  BY <1>15 DEF RetireRef, Release, TurnOff, CouponFault
<1>16. ASSUME NEW c \in Managers, DeactivateEnds(c) PROVE RowNamesLive'
  BY <1>16 DEF DeactivateEnds, Leaves, tables, promoHistory
<1>17. ASSUME NEW c \in Managers, MapCoupon(c) PROVE RowNamesLive'
  BY <1>17 DEF MapCoupon, Called, Passed, HasActive, NewCoupon, tables
<1>18. ASSUME NEW c \in Managers, WriteMapping(c) PROVE RowNamesLive'
  BY <1>18 DEF WriteMapping, Leaves, MayInsert, InsertRow
<1>19. ASSUME NEW c \in Managers, DeleteConfig(c) PROVE RowNamesLive'
  BY <1>19 DEF DeleteConfig, Called, Passed, tables, promoHistory
<1>20. ASSUME NEW c \in Managers, DropRefs(c) PROVE RowNamesLive'
  BY <1>20 DEF DropRefs, Passed
<1>21. ASSUME NEW c \in Managers, DropConfig(c) PROVE RowNamesLive'
  BY <1>21 DEF DropConfig, Leaves
<1>22. ASSUME NEW c \in Managers, CallDies(c) PROVE RowNamesLive'
  BY <1>22 DEF CallDies, CouponFault, Leaves, tables
<1>23. CASE UNCHANGED promoVars
  BY <1>23 DEF promoVars, tables, callState, promoHistory
<1>24. QED
  BY <1>1, <1>2, <1>3, <1>4, <1>5, <1>6, <1>7, <1>8, <1>9, <1>10, <1>11,
     <1>12, <1>13, <1>14, <1>15, <1>16, <1>17, <1>18, <1>19, <1>20, <1>21,
     <1>22, <1>23 DEF PromoNext

LEMMA SweepStep ==
    ASSUME PromoTypeOK, CallsPlaced, SweepFound, [PromoNext]_promoVars PROVE SweepFound'
<1> USE PromotionAssumption DEF PromoTypeOK, CallsPlaced, SweepFound, Coining, Erasing
<1>1. ASSUME PatchPromotion PROVE SweepFound'
  BY <1>1 DEF PatchPromotion, Called, callState, promoHistory
<1>2. ASSUME Unmap PROVE SweepFound'
  BY <1>2 DEF Unmap, Called, callState, promoHistory
<1>3. ASSUME SwitchConfig PROVE SweepFound'
  BY <1>3 DEF SwitchConfig, Called, callState, promoHistory
<1>4. ASSUME NEW c \in Managers, CreatePromotion(c) PROVE SweepFound'
  BY <1>4 DEF CreatePromotion, Called, Passed, promoHistory
<1>5. ASSUME NEW c \in Managers, Sync(c) PROVE SweepFound'
  BY <1>5 DEF Sync, Called, Passed, tables, promoHistory
<1>6. ASSUME NEW c \in Managers, ReadConfigs(c) PROVE SweepFound'
  BY <1>6 DEF ReadConfigs, Passed, tables, promoHistory
<1>7. ASSUME NEW c \in Managers, CheckRef(c) PROVE SweepFound'
  BY <1>7 DEF CheckRef, Passed, HasActive, CouponFault, tables
<1>8. ASSUME NEW c \in Managers, CreateCoupon(c) PROVE SweepFound'
  BY <1>8 DEF CreateCoupon, Passed, NewCoupon, CouponFault, Release, tables
<1>9. ASSUME NEW c \in Managers, InsertRef(c) PROVE SweepFound'
  BY <1>9 DEF InsertRef, Release, MayInsert, InsertRow, CouponFault
<1>10. ASSUME NEW c \in Managers, SyncEnds(c) PROVE SweepFound'
  BY <1>10 DEF SyncEnds, Leaves, tables, promoHistory
<1>11. ASSUME NEW c \in Managers, ClosePromotion(c) PROVE SweepFound'
  BY <1>11 DEF ClosePromotion, Called, Passed, promoHistory
<1>12. ASSUME NEW c \in Managers, ReadRefs(c) PROVE SweepFound'
  BY <1>12 DEF ReadRefs, Passed, ActiveRefs, tables
<1>13. ASSUME NEW c \in Managers, TakeRef(c) PROVE SweepFound'
  BY <1>13 DEF TakeRef, Passed, Reachable, CouponFault, tables
<1>14. ASSUME NEW c \in Managers, DeleteCoupon(c) PROVE SweepFound'
  BY <1>14 DEF DeleteCoupon, Passed, Release, CouponFault, tables
<1>15. ASSUME NEW c \in Managers, RetireRef(c) PROVE SweepFound'
  BY <1>15 DEF RetireRef, Release, TurnOff, CouponFault
<1>16. ASSUME NEW c \in Managers, DeactivateEnds(c) PROVE SweepFound'
  BY <1>16 DEF DeactivateEnds, Leaves, tables, promoHistory
<1>17. ASSUME NEW c \in Managers, MapCoupon(c) PROVE SweepFound'
  BY <1>17 DEF MapCoupon, Called, Passed, HasActive, NewCoupon, tables
<1>18. ASSUME NEW c \in Managers, WriteMapping(c) PROVE SweepFound'
  BY <1>18 DEF WriteMapping, Leaves, MayInsert, InsertRow
<1>19. ASSUME NEW c \in Managers, DeleteConfig(c) PROVE SweepFound'
  BY <1>19 DEF DeleteConfig, Called, Passed, tables, promoHistory
<1>20. ASSUME NEW c \in Managers, DropRefs(c) PROVE SweepFound'
  BY <1>20 DEF DropRefs, Passed
<1>21. ASSUME NEW c \in Managers, DropConfig(c) PROVE SweepFound'
  BY <1>21 DEF DropConfig, Leaves
<1>22. ASSUME NEW c \in Managers, CallDies(c) PROVE SweepFound'
  BY <1>22 DEF CallDies, CouponFault, Leaves, tables
<1>23. CASE UNCHANGED promoVars
  BY <1>23 DEF promoVars, tables, callState, promoHistory
<1>24. QED
  BY <1>1, <1>2, <1>3, <1>4, <1>5, <1>6, <1>7, <1>8, <1>9, <1>10, <1>11,
     <1>12, <1>13, <1>14, <1>15, <1>16, <1>17, <1>18, <1>19, <1>20, <1>21,
     <1>22, <1>23 DEF PromoNext

LEMMA PromoBegin ==
    PromoInit => PromoInductive
<1> USE PromotionAssumption
<1>1. PromoInit => PromoTypeOK /\ CallsPlaced /\ Numbered
  BY DEF PromoInit, PromoTypeOK, CallsPlaced, Numbered, Coining, Erasing
<1>2. PromoInit => OwnCoupon /\ SweptPast
  BY DEF PromoInit, OwnCoupon, SweptPast, Writing, Erasing
<1>3. PromoInit => OneMaker /\ UndisturbedNamed
  BY DEF PromoInit, OneMaker, MakersAt, Coining, UndisturbedNamed, Nameless
<1>4. PromoInit => RowNamesLive /\ SweepFound
  BY DEF PromoInit, RowNamesLive, SweepFound
<1>5. QED
  BY <1>1, <1>2, <1>3, <1>4 DEF PromoInductive

THEOREM PromoInvariant == PromoSpec => []PromoInductive
<1>1. PromoInductive /\ [PromoNext]_promoVars => PromoInductive'
  <2> SUFFICES ASSUME PromoInductive, [PromoNext]_promoVars
               PROVE  PromoInductive'
    OBVIOUS
  <2>1. /\ PromoTypeOK /\ CallsPlaced /\ Numbered /\ OwnCoupon /\ SweptPast
        /\ OneMaker /\ UndisturbedNamed /\ RowNamesLive /\ SweepFound
    BY DEF PromoInductive
  <2>2. PromoTypeOK' /\ CallsPlaced' /\ Numbered'
    BY <2>1, PromoTypeStep, CallsPlacedStep, NumberedStep
  <2>3. OwnCoupon' /\ SweptPast'
    BY <2>1, OwnCouponStep, SweptPastStep
  <2>4. OneMaker' /\ UndisturbedNamed'
    BY <2>1, OneMakerStep, NamedStep
  <2>5. RowNamesLive' /\ SweepFound'
    BY <2>1, RowLiveStep, SweepStep
  <2>6. QED
    BY <2>2, <2>3, <2>4, <2>5 DEF PromoInductive
<1>2. QED
  BY <1>1, PromoBegin, PTL DEF PromoSpec

(* A sync leaves a coupon without a row only where it failed or met        *)
(* another writer of the row (promotions/shared.ts).                       *)
THEOREM CouponsNamed == PromoSpec => []UndisturbedNamed
BY PromoInvariant, PTL DEF PromoInductive

(* An active row names a coupon the provider has, or a deactivation is     *)
(* about to turn it off or failed to (promotions/record.ts).               *)
THEOREM RowsLive == PromoSpec => []RowNamesLive
BY PromoInvariant, PTL DEF PromoInductive

(* A finished deactivation leaves no active row of those it had read but   *)
(* the ones it passed over (promotions/record.ts).                         *)
THEOREM SweepComplete == PromoSpec => []SweepLeavesNone
<1>1. SweepFound => SweepLeavesNone
  BY DEF SweepFound, SweepLeavesNone, Sweeping
<1>2. QED
  BY <1>1, PromoInvariant, PTL DEF PromoInductive
=============================================================================
