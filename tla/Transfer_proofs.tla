--------------------------- MODULE Transfer_proofs ---------------------------
(* What a delivery promises holds for any file, any number of receivers,    *)
(* any chunk sizes and caps, and any number of failures.                    *)
EXTENDS Transfer, TLAPS

\* Products grow with their factors.
LEMMA TimesMonotone ==
  ASSUME NEW a \in Nat, NEW b \in Nat, NEW k \in Nat, a <= b
  PROVE  a * k <= b * k /\ k * a <= k * b
<1>1. PICK d \in Nat : b = a + d
  OBVIOUS
<1>2. b * k = a * k + d * k
  BY <1>1
<1>3. d * k \in Nat /\ a * k \in Nat
  OBVIOUS
<1>4. k * a = a * k /\ k * b = b * k
  OBVIOUS
<1> QED BY <1>2, <1>3, <1>4
\* What division leaves.
LEMMA Quotient ==
  ASSUME NEW a \in Nat, NEW k \in Nat \ {0}
  PROVE  a \div k \in Nat /\ (a \div k) * k <= a /\ a < (a \div k) * k + k
  OBVIOUS
LEMMA SizeType == TypeOK => size \in Nat
  BY TransferAssumption DEF TypeOK

\* The bytes of n uploads are at most the file, and all of it from some n on.
LEMMA BytesUpTo ==
  ASSUME TypeOK, NEW n \in Nat
  PROVE  /\ Bytes(n) \in Nat /\ Bytes(n) <= size
         /\ n * RelayChunk \in Nat
         /\ Bytes(n) = size <=> n * RelayChunk >= size
<1>1. n * RelayChunk \in Nat /\ size \in Nat
  BY SizeType, TransferAssumption
<1> DEFINE b == n * RelayChunk
<1> HIDE DEF b
<1>2. Bytes(n) = IF b < size THEN b ELSE size
  BY DEF b, Bytes
<1> QED BY <1>1, <1>2 DEF b

\* Once the file is whole, more chunks leave it whole.
LEMMA BytesGrow ==
  ASSUME TypeOK, NEW n \in Nat, NEW q \in Nat, n <= q, Bytes(n) = size
  PROVE  Bytes(q) = size
<1>1. n * RelayChunk <= q * RelayChunk
  BY TimesMonotone, TransferAssumption
<1> QED BY <1>1, BytesUpTo, SizeType
\* The uploads the sender makes carry the whole file,
LEMMA PiecesSuffice ==
  ASSUME TypeOK
  PROVE  Pieces \in Nat /\ Bytes(Pieces) = size
<1> USE TransferAssumption, SizeType
<1>1. CASE size = 0
  BY <1>1, BytesUpTo DEF Pieces
<1>2. CASE size # 0
  <2> DEFINE a == size + RelayChunk - 1
  <2>1. a \in Nat /\ Pieces = a \div RelayChunk
    BY <1>2 DEF Pieces
  <2> HIDE DEF a
  <2>2. Pieces \in Nat /\ a < Pieces * RelayChunk + RelayChunk
    BY <2>1, Quotient
  <2>3. Pieces * RelayChunk >= size
    BY <2>2 DEF a
  <2> QED BY <2>2, <2>3, BytesUpTo
<1> QED BY <1>1, <1>2
\* and no fewer of them would.
LEMMA PiecesNeeded ==
  ASSUME TypeOK, NEW n \in Nat \ {0}, n < Pieces
  PROVE  size > n * RelayChunk
<1> USE TransferAssumption, SizeType
<1>1. size # 0
  BY DEF Pieces
<1> DEFINE a == size + RelayChunk - 1
<1>2. a \in Nat /\ Pieces = a \div RelayChunk
  BY <1>1 DEF Pieces
<1> HIDE DEF a
<1>3. Pieces \in Nat /\ Pieces * RelayChunk <= a
  BY <1>2, Quotient
<1>4. (n + 1) * RelayChunk <= Pieces * RelayChunk
  BY <1>3, TimesMonotone
<1>5. (n + 1) * RelayChunk = n * RelayChunk + RelayChunk
  OBVIOUS
<1> QED BY <1>3, <1>4, <1>5 DEF a

\* What the cap lets through may still be more than the uploads can carry.
LEMMA CapIsOver == MaxChunks * RelayChunk \in Nat /\ MaxChunks * RelayChunk <= MaxBytes
  BY TimesMonotone, TransferAssumption DEF MaxBytes

LEMMA CapType == MaxChunks \in Nat \ {0}
  BY TransferAssumption

\* A session holds its cap of chunks at most.
LEMMA ChunksType == TypeOK => chunks \in 0 .. MaxChunks /\ chunks \in Nat /\ chunks <= MaxChunks
<1>1. TypeOK => chunks \in 0 .. MaxChunks
  BY DEF TypeOK
<1> QED BY <1>1, CapType

\* A failure is counted.
LEMMA SpendType ==
  ASSUME TypeOK, NEW k \in Budget, Spend(k)
  PROVE  spent' \in [Budget -> Nat] /\ spent'[k] > 0
<1>1. spent \in [Budget -> Nat]
  BY DEF TypeOK
<1> QED BY <1>1 DEF Spend

LEMMA Budgets ==
  /\ {"uploads", "downloads", "completions", "statuses"} \subseteq Budget
  /\ "crashes" \in Budget /\ "others" \in Budget
  BY DEF Budget

-----------------------------------------------------------------------------
(* The two sides of the delivery.                                          *)

SenderSide ==
  \/ TooLarge \/ InitTransfer \/ InitLost \/ Offer \/ TakeAnswer \/ Stream \/ P2PSent
  \/ P2PUnavailable \/ RelaySent \/ UploadLost \/ SenderCrash \/ RefuseChunk
  \/ AcceptChunk \/ StoreChunk \/ StoreFails \/ MarkUploaded \/ MarkFails

ReceiverSide(r) ==
  \/ Poll(r) \/ Later(r) \/ TakeOffer(r) \/ Answer(r) \/ Arrive(r) \/ P2PFails(r)
  \/ RefuseBytes(r) \/ AcceptBytes(r) \/ WriteBytes(r) \/ WriteFails(r)
  \/ RefuseDownload(r) \/ OpenDownload(r) \/ Download(r) \/ DownloadFails(r)
  \/ CompleteTransfer(r) \/ CompleteLost(r) \/ ReceiverCrash(r) \/ Other(r)

LEMMA Sides == [Next]_vars => UNCHANGED vars \/ SenderSide \/ \E r \in Receivers : ReceiverSide(r)
  BY DEF Next, SenderStep, AppendStep, ReceiverStep, Failure, SenderSide, ReceiverSide

\* What the sender and the handler of its uploads do leaves the receivers alone.
LEMMA SenderFrame ==
  ASSUME SenderSide
  PROVE  UNCHANGED <<size, setting, inbox, listed, seen, file>>
  BY DEF SenderSide, rigid, receiving, table, sending, signals,
         TooLarge, Report, InitTransfer, InitLost, Spend, Offer, TakeAnswer, Stream,
         P2PSent, Closed, P2PUnavailable, RelaySent, UploadLost, SenderCrash,
         RefuseChunk, AcceptChunk, StoreChunk, StoreFails, MarkUploaded, Replied,
         MarkFails

\* What a receiver does leaves the uploads alone; a session it touches is done.
LEMMA ReceiverFrame ==
  ASSUME NEW r \in Receivers, ReceiverSide(r)
  PROVE  /\ UNCHANGED <<size, setting, chunks, append, sender, seq, report>>
         /\ status' \in {status, "done"}
  BY DEF ReceiverSide, rigid, receiving, table, sending, signals,
         Poll, At, Later, Forget, TakeOffer, Answer, Arrive, P2PFails, Hangup,
         RefuseBytes, Remember, AcceptBytes, Taken, WriteBytes, Keep, WriteFails,
         Spend, RefuseDownload, OpenDownload, Download, Cleaned, DownloadFails,
         CompleteTransfer, Completing, CompleteLost, ReceiverCrash, Other

\* Every reachable state is well typed.
LEMMA TypeStep == Inv /\ [Next]_vars => TypeOK'
<1> SUFFICES ASSUME Inv, [Next]_vars PROVE TypeOK'
  OBVIOUS
<1> USE DEF rigid, table, sending, signals, receiving
<1>0. TypeOK /\ UploadsAgree /\ chunks \in 0 .. MaxChunks /\ chunks \in Nat /\ MaxChunks \in Nat /\ seq \in Nat
  BY ChunksType, CapType DEF Inv, TypeOK
<1>1. ASSUME TooLarge PROVE TypeOK'
  BY <1>0, <1>1 DEF TooLarge, Report, TypeOK
<1>2. ASSUME InitTransfer PROVE TypeOK'
  BY <1>0, <1>2 DEF InitTransfer, TypeOK, Statuses
<1>3. ASSUME InitLost PROVE TypeOK'
  BY <1>0, <1>3, SpendType, Budgets DEF InitLost, Report, TypeOK, Statuses
<1>4. ASSUME Offer PROVE TypeOK'
  BY <1>0, <1>4 DEF Offer, TypeOK
<1>5. ASSUME TakeAnswer PROVE TypeOK'
  BY <1>0, <1>5 DEF TakeAnswer, TypeOK
<1>6. ASSUME Stream PROVE TypeOK'
  BY <1>0, <1>6 DEF Stream, TypeOK
<1>7. ASSUME P2PSent PROVE TypeOK'
  BY <1>0, <1>7 DEF P2PSent, Report, Closed, TypeOK
<1>8. ASSUME P2PUnavailable PROVE TypeOK'
  BY <1>0, <1>8 DEF P2PUnavailable, Closed, TypeOK
<1>9. ASSUME RelaySent PROVE TypeOK'
  BY <1>0, <1>9 DEF RelaySent, Report, TypeOK
<1>10. ASSUME UploadLost PROVE TypeOK'
  BY <1>0, <1>10, SpendType, Budgets DEF UploadLost, Report, TypeOK
<1>11. ASSUME SenderCrash PROVE TypeOK'
  BY <1>0, <1>11, SpendType, Budgets DEF SenderCrash, Closed, TypeOK
<1>12. ASSUME RefuseChunk PROVE TypeOK'
  BY <1>0, <1>12 DEF RefuseChunk, Report, TypeOK
<1>13. ASSUME AcceptChunk PROVE TypeOK'
  BY <1>0, <1>13 DEF AcceptChunk, TypeOK
<1>14. ASSUME StoreChunk PROVE TypeOK'
  <2>1. chunks' \in 0 .. MaxChunks
    BY <1>0, <1>14 DEF StoreChunk, UploadsAgree
  <2> QED BY <1>0, <1>14, <2>1 DEF StoreChunk, TypeOK
<1>15. ASSUME StoreFails PROVE TypeOK'
  BY <1>0, <1>15, SpendType, Budgets DEF StoreFails, Report, TypeOK
<1>16. ASSUME MarkUploaded PROVE TypeOK'
  <2>1. status' \in Statuses /\ seq' \in Nat
    BY <1>0, <1>16 DEF MarkUploaded, Replied, Statuses
  <2> QED BY <1>0, <1>16, <2>1 DEF MarkUploaded, Replied, TypeOK
<1>17. ASSUME MarkFails PROVE TypeOK'
  <2>1. seq' \in Nat
    BY <1>0, <1>17 DEF MarkFails, Replied
  <2> QED BY <1>0, <1>17, <2>1, SpendType, Budgets DEF MarkFails, Replied, TypeOK
<1>18. ASSUME NEW r \in Receivers, Poll(r) PROVE TypeOK'
  <2>1. status \in Statuses /\ listed' \in [Receivers -> Statuses]
    BY <1>0, <1>18 DEF Poll, TypeOK
  <2> QED BY <1>0, <1>18, <2>1 DEF Poll, At, TypeOK
<1>19. ASSUME NEW r \in Receivers, Later(r) PROVE TypeOK'
  BY <1>0, <1>19 DEF Later, Forget, At, TypeOK
<1>20. ASSUME NEW r \in Receivers, TakeOffer(r) PROVE TypeOK'
  BY <1>0, <1>20 DEF TakeOffer, At, TypeOK
<1>21. ASSUME NEW r \in Receivers, Answer(r) PROVE TypeOK'
  BY <1>0, <1>21 DEF Answer, TypeOK
<1>22. ASSUME NEW r \in Receivers, Arrive(r) PROVE TypeOK'
  BY <1>0, <1>22 DEF Arrive, At, TypeOK
<1>23. ASSUME NEW r \in Receivers, P2PFails(r) PROVE TypeOK'
  BY <1>0, <1>23 DEF P2PFails, Forget, At, Hangup, TypeOK
<1>24. ASSUME NEW r \in Receivers, RefuseBytes(r) PROVE TypeOK'
  BY <1>0, <1>24 DEF RefuseBytes, Remember, At, TypeOK
<1>25. ASSUME NEW r \in Receivers, AcceptBytes(r) PROVE TypeOK'
  BY <1>0, <1>25 DEF AcceptBytes, At, TypeOK
<1>26. ASSUME NEW r \in Receivers, WriteBytes(r) PROVE TypeOK'
  BY <1>0, <1>26 DEF WriteBytes, Keep, Remember, At, TypeOK, Files
<1>27. ASSUME NEW r \in Receivers, WriteFails(r) PROVE TypeOK'
  <2>1. file' \in [Receivers -> Files]
    BY <1>0, <1>27 DEF WriteFails, TypeOK, Files
  <2>2. spent' \in [Budget -> Nat]
    BY <1>0, <1>27, SpendType, Budgets DEF WriteFails, TypeOK
  <2> QED BY <1>0, <1>27, <2>1, <2>2 DEF WriteFails, Remember, At, TypeOK
<1>28. ASSUME NEW r \in Receivers, RefuseDownload(r) PROVE TypeOK'
  BY <1>0, <1>28 DEF RefuseDownload, Remember, At, TypeOK
<1>29. ASSUME NEW r \in Receivers, OpenDownload(r) PROVE TypeOK'
  BY <1>0, <1>29 DEF OpenDownload, At, Keep, TypeOK, Files
<1>30. ASSUME NEW r \in Receivers, Download(r) PROVE TypeOK'
  BY <1>0, <1>30, ZenonT(60) DEF Download, Keep, At, Remember, Cleaned, TypeOK, Files
<1>31. ASSUME NEW r \in Receivers, DownloadFails(r) PROVE TypeOK'
  <2>1. file' \in [Receivers -> Files]
    BY <1>0, <1>31 DEF DownloadFails, Keep, Cleaned, TypeOK, Files
  <2>2. spent' \in [Budget -> Nat]
    BY <1>0, <1>31, SpendType, Budgets DEF DownloadFails, TypeOK
  <2> QED BY <1>0, <1>31, <2>1, <2>2 DEF DownloadFails, Forget, At, TypeOK
<1>32. ASSUME NEW r \in Receivers, CompleteTransfer(r) PROVE TypeOK'
  <2>1. status' \in Statuses /\ seen' \in [Receivers -> BOOLEAN]
    BY <1>0, <1>32 DEF CompleteTransfer, Remember, Forget, TypeOK, Statuses
  <2> QED BY <1>0, <1>32, <2>1 DEF CompleteTransfer, Remember, Forget, At, TypeOK
<1>33. ASSUME NEW r \in Receivers, CompleteLost(r) PROVE TypeOK'
  <2>1. status' \in Statuses /\ seen' \in [Receivers -> BOOLEAN]
    BY <1>0, <1>33 DEF CompleteLost, Forget, TypeOK, Statuses
  <2> QED BY <1>0, <1>33, <2>1, SpendType, Budgets, ZenonT(60) DEF CompleteLost, Forget, At, TypeOK
<1>34. ASSUME NEW r \in Receivers, ReceiverCrash(r) PROVE TypeOK'
  BY <1>0, <1>34, SpendType, Budgets, ZenonT(60) DEF ReceiverCrash, At, Hangup, TypeOK, Files
<1>35. ASSUME NEW r \in Receivers, Other(r) PROVE TypeOK'
  BY <1>0, <1>35, SpendType, Budgets, ZenonT(60) DEF Other, Keep, TypeOK, Files
<1>36. ASSUME UNCHANGED vars PROVE TypeOK'
  BY <1>0, <1>36 DEF vars, TypeOK
<1> QED
  BY <1>1, <1>2, <1>3, <1>4, <1>5, <1>6, <1>7, <1>8, <1>9, <1>10, <1>11, <1>12,
     <1>13, <1>14, <1>15, <1>16, <1>17, <1>18, <1>19, <1>20, <1>21, <1>22, <1>23,
     <1>24, <1>25, <1>26, <1>27, <1>28, <1>29, <1>30, <1>31, <1>32, <1>33, <1>34,
     <1>35, <1>36, Sides
  DEF SenderSide, ReceiverSide

\* The sender and the relay go on agreeing.
LEMMA UploadsStep == Inv /\ [Next]_vars => UploadsAgree'
<1> SUFFICES ASSUME Inv, [Next]_vars PROVE UploadsAgree'
  OBVIOUS
<1> USE DEF rigid, table, sending, signals, receiving
<1>0. TypeOK /\ UploadsAgree /\ chunks \in 0 .. MaxChunks /\ chunks \in Nat /\ MaxChunks \in Nat /\ seq \in Nat
  BY ChunksType, CapType DEF Inv, TypeOK
<1>1. ASSUME TooLarge PROVE UploadsAgree'
  BY <1>0, <1>1 DEF TooLarge, Report, UploadsAgree
<1>2. ASSUME InitTransfer PROVE UploadsAgree'
  BY <1>0, <1>2 DEF InitTransfer, UploadsAgree
<1>3. ASSUME InitLost PROVE UploadsAgree'
  BY <1>0, <1>3 DEF InitLost, Report, Spend, UploadsAgree
<1>4. ASSUME Offer PROVE UploadsAgree'
  BY <1>0, <1>4 DEF Offer, UploadsAgree
<1>5. ASSUME TakeAnswer PROVE UploadsAgree'
  BY <1>0, <1>5 DEF TakeAnswer, UploadsAgree
<1>6. ASSUME Stream PROVE UploadsAgree'
  BY <1>0, <1>6 DEF Stream, UploadsAgree
<1>7. ASSUME P2PSent PROVE UploadsAgree'
  BY <1>0, <1>7 DEF P2PSent, Report, Closed, UploadsAgree
<1>8. ASSUME P2PUnavailable PROVE UploadsAgree'
  BY <1>0, <1>8 DEF P2PUnavailable, Closed, UploadsAgree
<1>9. ASSUME RelaySent PROVE UploadsAgree'
  BY <1>0, <1>9 DEF RelaySent, Report, UploadsAgree
<1>10. ASSUME UploadLost PROVE UploadsAgree'
  BY <1>0, <1>10 DEF UploadLost, Report, Spend, UploadsAgree
<1>11. ASSUME SenderCrash PROVE UploadsAgree'
  BY <1>0, <1>11 DEF SenderCrash, Spend, Closed, UploadsAgree
<1>12. ASSUME RefuseChunk PROVE UploadsAgree'
  BY <1>0, <1>12 DEF RefuseChunk, Report, UploadsAgree
<1>13. ASSUME AcceptChunk PROVE UploadsAgree'
  BY <1>0, <1>13 DEF AcceptChunk, UploadsAgree, Refused
<1>14. ASSUME StoreChunk PROVE UploadsAgree'
  BY <1>0, <1>14 DEF StoreChunk, UploadsAgree
<1>15. ASSUME StoreFails PROVE UploadsAgree'
  BY <1>0, <1>15 DEF StoreFails, Report, Spend, UploadsAgree
<1>16. ASSUME MarkUploaded PROVE UploadsAgree'
  BY <1>0, <1>16 DEF MarkUploaded, Replied, UploadsAgree
<1>17. ASSUME MarkFails PROVE UploadsAgree'
  BY <1>0, <1>17 DEF MarkFails, Replied, Spend, UploadsAgree
<1>18. ASSUME NEW r \in Receivers, ReceiverSide(r) PROVE UploadsAgree'
  BY <1>0, <1>18, ReceiverFrame DEF UploadsAgree
<1>19. ASSUME UNCHANGED vars PROVE UploadsAgree'
  BY <1>0, <1>19 DEF vars, UploadsAgree
<1> QED
  BY <1>1, <1>2, <1>3, <1>4, <1>5, <1>6, <1>7, <1>8, <1>9, <1>10, <1>11, <1>12,
     <1>13, <1>14, <1>15, <1>16, <1>17, <1>18, <1>19, Sides DEF SenderSide

\* A receiver's desk stays in order, and what it wrote in whole stays.
LEMMA DeskStep ==
  Inv /\ [Next]_vars => DeskOK' /\ \A r \in Receivers : file[r] = "whole" => file'[r] = "whole"
<1> DEFINE Stays == \A r \in Receivers : file[r] = "whole" => file'[r] = "whole"
<1> SUFFICES ASSUME Inv, [Next]_vars PROVE DeskOK' /\ Stays
  OBVIOUS
<1> USE DEF rigid, table, sending, signals, receiving
<1>0. TypeOK /\ DeskOK
  BY DEF Inv
<1>1. ASSUME SenderSide PROVE DeskOK' /\ Stays
  BY <1>0, <1>1, SenderFrame DEF DeskOK, Completing
<1>2. ASSUME NEW r \in Receivers, Poll(r) PROVE DeskOK' /\ Stays
  BY <1>0, <1>2 DEF Poll, At, TypeOK, DeskOK, Completing
<1>3. ASSUME NEW r \in Receivers, Later(r) PROVE DeskOK' /\ Stays
  BY <1>0, <1>3 DEF Later, Forget, At, TypeOK, DeskOK, Completing
<1>4. ASSUME NEW r \in Receivers, TakeOffer(r) PROVE DeskOK' /\ Stays
  BY <1>0, <1>4 DEF TakeOffer, At, TypeOK, DeskOK, Completing
<1>5. ASSUME NEW r \in Receivers, Answer(r) PROVE DeskOK' /\ Stays
  BY <1>0, <1>5 DEF Answer, TypeOK, DeskOK, Completing
<1>6. ASSUME NEW r \in Receivers, Arrive(r) PROVE DeskOK' /\ Stays
  BY <1>0, <1>6 DEF Arrive, At, TypeOK, DeskOK, Completing
<1>7. ASSUME NEW r \in Receivers, P2PFails(r) PROVE DeskOK' /\ Stays
  BY <1>0, <1>7 DEF P2PFails, Forget, At, Hangup, TypeOK, DeskOK, Completing
<1>8. ASSUME NEW r \in Receivers, RefuseBytes(r) PROVE DeskOK' /\ Stays
  BY <1>0, <1>8 DEF RefuseBytes, Remember, At, TypeOK, DeskOK, Completing
<1>9. ASSUME NEW r \in Receivers, AcceptBytes(r) PROVE DeskOK' /\ Stays
  BY <1>0, <1>9 DEF AcceptBytes, At, Taken, TypeOK, DeskOK, Completing
<1>10. ASSUME NEW r \in Receivers, WriteBytes(r) PROVE DeskOK' /\ Stays
  BY <1>0, <1>10 DEF WriteBytes, Keep, Remember, At, TypeOK, DeskOK, Completing
<1>11. ASSUME NEW r \in Receivers, WriteFails(r) PROVE DeskOK' /\ Stays
  BY <1>0, <1>11 DEF WriteFails, Remember, At, Spend, TypeOK, DeskOK, Completing
<1>12. ASSUME NEW r \in Receivers, RefuseDownload(r) PROVE DeskOK' /\ Stays
  BY <1>0, <1>12 DEF RefuseDownload, Remember, At, TypeOK, DeskOK, Completing
<1>13. ASSUME NEW r \in Receivers, OpenDownload(r) PROVE DeskOK' /\ Stays
  BY <1>0, <1>13 DEF OpenDownload, At, Keep, Taken, TypeOK, DeskOK, Completing
<1>14. ASSUME NEW r \in Receivers, Download(r) PROVE DeskOK' /\ Stays
  BY <1>0, <1>14 DEF Download, Keep, At, Remember, Cleaned, TypeOK, DeskOK, Completing
<1>15. ASSUME NEW r \in Receivers, DownloadFails(r) PROVE DeskOK' /\ Stays
  BY <1>0, <1>15 DEF DownloadFails, Spend, Keep, Forget, At, Cleaned, TypeOK, DeskOK, Completing
<1>16. ASSUME NEW r \in Receivers, CompleteTransfer(r) PROVE DeskOK' /\ Stays
  BY <1>0, <1>16 DEF CompleteTransfer, Remember, Forget, At, TypeOK, DeskOK, Completing
<1>17. ASSUME NEW r \in Receivers, CompleteLost(r) PROVE DeskOK' /\ Stays
  BY <1>0, <1>17 DEF CompleteLost, Forget, At, Spend, TypeOK, DeskOK, Completing
<1>18. ASSUME NEW r \in Receivers, ReceiverCrash(r) PROVE DeskOK' /\ Stays
  BY <1>0, <1>18 DEF ReceiverCrash, Spend, At, Hangup, TypeOK, DeskOK, Completing
<1>19. ASSUME NEW r \in Receivers, Other(r) PROVE DeskOK' /\ Stays
  BY <1>0, <1>19 DEF Other, Spend, Keep, TypeOK, DeskOK, Completing
<1>20. ASSUME UNCHANGED vars PROVE DeskOK' /\ Stays
  BY <1>0, <1>20 DEF vars, DeskOK, Completing
<1> QED
  BY <1>1, <1>2, <1>3, <1>4, <1>5, <1>6, <1>7, <1>8, <1>9, <1>10, <1>11, <1>12,
     <1>13, <1>14, <1>15, <1>16, <1>17, <1>18, <1>19, <1>20, Sides DEF ReceiverSide

\* The file and the Budget only grow.
LEMMA ChunksGrow == Inv /\ [Next]_vars => size' = size /\ chunks <= chunks'
<1> SUFFICES ASSUME Inv, [Next]_vars PROVE size' = size /\ chunks <= chunks'
  OBVIOUS
<1>1. TypeOK
  BY DEF Inv
<1>2. chunks \in Nat
  BY <1>1, ChunksType
<1>3. ASSUME SenderSide PROVE size' = size /\ chunks' \in {chunks, chunks + 1}
  BY <1>3 DEF SenderSide, rigid, receiving, table, sending, signals, TooLarge, InitTransfer,
         InitLost, Offer, TakeAnswer, Stream, P2PSent, P2PUnavailable, RelaySent, UploadLost,
         SenderCrash, RefuseChunk, AcceptChunk, StoreChunk, StoreFails, MarkUploaded, MarkFails
<1>4. ASSUME NEW r \in Receivers, ReceiverSide(r) PROVE size' = size /\ chunks' = chunks
  BY <1>4, ReceiverFrame
<1>5. ASSUME UNCHANGED vars PROVE size' = size /\ chunks' = chunks
  BY <1>5 DEF vars, rigid, table
<1> QED BY <1>2, <1>3, <1>4, <1>5, Sides

\* Failures are counted and never forgotten.
LEMMA SpentBySpending ==
  ASSUME [Next]_vars
  PROVE  UNCHANGED spent \/ \E b \in Budget : Spend(b)
<1>1. ASSUME SenderSide PROVE UNCHANGED spent \/ \E b \in Budget : Spend(b)
  BY <1>1 DEF SenderSide, Budget, TooLarge, InitTransfer, InitLost, Offer, TakeAnswer, Stream,
         P2PSent, P2PUnavailable, RelaySent, UploadLost, SenderCrash, RefuseChunk, AcceptChunk,
         StoreChunk, StoreFails, MarkUploaded, MarkFails
<1>2. ASSUME NEW r \in Receivers, ReceiverSide(r)
      PROVE  UNCHANGED spent \/ \E b \in Budget : Spend(b)
  BY <1>2 DEF ReceiverSide, Budget, Poll, Later, TakeOffer, Answer, Arrive, P2PFails,
         RefuseBytes, AcceptBytes, WriteBytes, WriteFails, RefuseDownload, OpenDownload,
         Download, DownloadFails, CompleteTransfer, CompleteLost, ReceiverCrash, Other
<1>3. ASSUME UNCHANGED vars PROVE UNCHANGED spent
  BY <1>3 DEF vars
<1> QED BY <1>1, <1>2, <1>3, Sides

LEMMA SpentGrows ==
  Inv /\ [Next]_vars => \A k \in Budget : spent[k] \in Nat /\ spent'[k] \in Nat /\ spent[k] <= spent'[k]
<1> SUFFICES ASSUME Inv, [Next]_vars, NEW k \in Budget
             PROVE  spent[k] \in Nat /\ spent'[k] \in Nat /\ spent[k] <= spent'[k]
  OBVIOUS
<1>1. spent \in [Budget -> Nat]
  BY DEF Inv, TypeOK
<1>2. UNCHANGED spent \/ \E b \in Budget : Spend(b)
  BY SpentBySpending
<1> QED BY <1>1, <1>2 DEF Spend

\* What is whole is whole at the next step.
LEMMA MatchesStays == Inv /\ [Next]_vars /\ Matches => Matches'
<1> SUFFICES ASSUME Inv, [Next]_vars, Matches PROVE Matches'
  OBVIOUS
<1>1. TypeOK /\ TypeOK'
  BY TypeStep DEF Inv
<1>2. chunks \in Nat /\ chunks' \in Nat
  <2>1. chunks \in Nat
    BY <1>1, ChunksType
  <2>2. chunks' \in 0 .. MaxChunks
    BY <1>1 DEF TypeOK
  <2> QED BY <2>1, <2>2, CapType
<1>3. Bytes(chunks') = size
  BY <1>1, <1>2, ChunksGrow, BytesGrow DEF Matches
<1> QED BY <1>3, ChunksGrow DEF Matches, Bytes

\* A session becomes ready by the chunk that makes it whole.
LEMMA ReadyStep == Inv /\ [Next]_vars => ReadyIsWhole'
<1> SUFFICES ASSUME Inv, [Next]_vars, status' = "ready" PROVE Matches'
  BY DEF ReadyIsWhole
<1>0. TypeOK /\ ReadyIsWhole
  BY DEF Inv
<1>1. CASE status = "ready"
  BY <1>0, <1>1, MatchesStays DEF ReadyIsWhole
<1>2. CASE MarkUploaded
  <2>1. Full
    BY <1>2 DEF MarkUploaded
  <2>2. chunks \in Nat /\ size \in Nat
    BY <1>0, SizeType, ChunksType
  <2> QED BY <1>0, <2>1, <2>2, BytesUpTo, MatchesStays DEF Full, Matches
<1>3. CASE UNCHANGED vars
  BY <1>1, <1>3 DEF vars, table
<1>4. ASSUME NEW r \in Receivers, ReceiverSide(r) PROVE status = "ready"
  BY <1>4, ReceiverFrame
<1>5. ASSUME SenderSide, ~MarkUploaded PROVE status = "ready"
  BY <1>5 DEF SenderSide, table, TooLarge, InitTransfer, InitLost, Offer, TakeAnswer, Stream,
         P2PSent, P2PUnavailable, RelaySent, UploadLost, SenderCrash, RefuseChunk, AcceptChunk,
         StoreChunk, StoreFails, MarkFails
<1> QED BY <1>1, <1>2, <1>3, <1>4, <1>5, Sides

\* A session becomes done by a receiver that has the file.
LEMMA DoneStep == Inv /\ [Next]_vars => DoneIsDelivered'
<1> SUFFICES ASSUME Inv, [Next]_vars, status' = "done"
             PROVE  \E r \in Receivers : file'[r] = "whole"
  BY DEF DoneIsDelivered
<1>0. DeskOK /\ DoneIsDelivered /\ \A r \in Receivers : file[r] = "whole" => file'[r] = "whole"
  BY DeskStep DEF Inv
<1>1. CASE status = "done"
  BY <1>0, <1>1 DEF DoneIsDelivered
<1>2. ASSUME NEW r \in Receivers, Completing(r) PROVE file'[r] = "whole"
  BY <1>0, <1>2 DEF DeskOK
<1>3. ASSUME NEW r \in Receivers, ReceiverSide(r) PROVE status = "done" \/ Completing(r)
  BY <1>3 DEF ReceiverSide, table, Poll, Later, TakeOffer, Answer, Arrive, P2PFails,
         RefuseBytes, AcceptBytes, WriteBytes, WriteFails, RefuseDownload, OpenDownload,
         Download, DownloadFails, CompleteTransfer, CompleteLost, ReceiverCrash, Other
<1>4. ASSUME SenderSide PROVE status = "done"
  BY <1>4 DEF SenderSide, table, TooLarge, InitTransfer, InitLost, Offer, TakeAnswer, Stream,
         P2PSent, P2PUnavailable, RelaySent, UploadLost, SenderCrash, RefuseChunk, AcceptChunk,
         StoreChunk, StoreFails, MarkUploaded, MarkFails
<1>5. ASSUME UNCHANGED vars PROVE status = "done"
  BY <1>5 DEF vars, table
<1> QED BY <1>1, <1>2, <1>3, <1>4, <1>5, Sides

\* Reports, and the action that posts each of them.
LEMMA ReportStep ==
  ASSUME [Next]_vars, report' # report
  PROVE  TooLarge \/ InitLost \/ P2PSent \/ RelaySent \/ UploadLost \/ RefuseChunk \/ StoreFails
<1>1. ASSUME NEW r \in Receivers, ReceiverSide(r) PROVE FALSE
  BY <1>1, ReceiverFrame
<1>2. ASSUME UNCHANGED vars PROVE FALSE
  BY <1>2 DEF vars, sending
<1> QED BY <1>1, <1>2, Sides DEF SenderSide, sending, InitTransfer, Offer, TakeAnswer, Stream,
         P2PUnavailable, SenderCrash, AcceptChunk, StoreChunk, MarkUploaded, MarkFails

LEMMA RelayStep == Inv /\ [Next]_vars => RelayIsStored'
<1> SUFFICES ASSUME Inv, [Next]_vars, report' = "relay" PROVE Matches'
  BY DEF RelayIsStored
<1>0. TypeOK /\ UploadsAgree /\ RelayIsStored
  BY DEF Inv
<1>1. CASE report = "relay"
  BY <1>0, <1>1, MatchesStays DEF RelayIsStored
<1>2. CASE RelaySent
  <2>1. Pieces <= chunks /\ chunks \in Nat
    BY <1>0, <1>2, TransferAssumption DEF RelaySent, UploadsAgree, TypeOK
  <2>2. Matches
    BY <1>0, <2>1, PiecesSuffice, BytesGrow DEF Matches
  <2> QED BY <2>2, MatchesStays
<1> QED BY <1>1, <1>2, ReportStep DEF Report, TooLarge, InitLost, P2PSent, UploadLost,
           RefuseChunk, StoreFails

\* An error is posted for its cause.
LEMMA ErrorStep == Inv /\ [Next]_vars => ErrorHasCause'
<1> SUFFICES ASSUME Inv, [Next]_vars, report' = "error"
             PROVE  \/ spent'["uploads"] > 0
                    \/ size' > MaxChunks * RelayChunk
                    \/ \E r \in Receivers : file'[r] = "whole"
  BY DEF ErrorHasCause
<1>0. /\ TypeOK /\ UploadsAgree /\ DoneIsDelivered /\ ErrorHasCause
      /\ \A r \in Receivers : file[r] = "whole" => file'[r] = "whole"
      /\ size' = size /\ size \in Nat
      /\ "uploads" \in Budget
      /\ spent["uploads"] \in Nat /\ spent'["uploads"] \in Nat
      /\ spent["uploads"] <= spent'["uploads"]
  BY DeskStep, ChunksGrow, SizeType, SpentGrows DEF Inv, Budget
<1>1. CASE report = "error"
  BY <1>0, <1>1 DEF ErrorHasCause
<1>2. CASE TooLarge
  <2>1. size > MaxBytes /\ MaxBytes \in Nat
    BY <1>2, CapType, TransferAssumption DEF TooLarge, MaxBytes
  <2> QED BY <1>0, <2>1, CapIsOver
<1>3. CASE InitLost \/ UploadLost \/ StoreFails
  <2>1. Spend("uploads")
    BY <1>3 DEF InitLost, UploadLost, StoreFails
  <2> QED BY <1>0, <2>1, SpendType
<1>4. CASE RefuseChunk
  <2>1. CASE status = "done"
    BY <1>0, <2>1 DEF DoneIsDelivered
  <2>2. CASE chunks >= MaxChunks
    <3>1. chunks \in Nat /\ MaxChunks \in Nat \ {0} /\ seq = chunks /\ seq < Pieces
      BY <1>0, <1>4, TransferAssumption DEF RefuseChunk, UploadsAgree, TypeOK
    <3>2. MaxChunks < Pieces
      BY <1>0, <2>2, <3>1, PiecesSuffice
    <3> QED BY <1>0, <3>1, <3>2, PiecesNeeded
  <2>3. seq = chunks
    BY <1>0, <1>4 DEF RefuseChunk, UploadsAgree
  <2> QED BY <1>4, <2>1, <2>2, <2>3 DEF RefuseChunk, Refused
<1> QED BY <1>1, <1>2, <1>3, <1>4, ReportStep DEF Report, P2PSent, RelaySent

\* A part of a file appears by a download, a failed write or a restart.
LEMMA PartStep == Inv /\ [Next]_vars => PartIsTransient'
<1> SUFFICES ASSUME Inv, [Next]_vars, NEW r \in Receivers, file'[r] = "partial"
             PROVE  inbox'[r] = "downloading" \/ spent'["crashes"] + spent'["downloads"] > 0
  BY DEF PartIsTransient
<1> DEFINE Failed == spent'["crashes"] + spent'["downloads"] > 0
<1>0. /\ TypeOK /\ PartIsTransient
      /\ "crashes" \in Budget /\ "downloads" \in Budget
      /\ \A k \in Budget : spent[k] \in Nat /\ spent'[k] \in Nat /\ spent[k] <= spent'[k]
  BY SpentGrows DEF Inv, Budget
<1>1. CASE file[r] = "partial" /\ (inbox[r] = "downloading" => inbox'[r] = "downloading")
  BY <1>0, <1>1 DEF PartIsTransient
<1>2. CASE Spend("crashes") \/ Spend("downloads")
  <2>1. spent'["crashes"] > 0 \/ spent'["downloads"] > 0
    BY <1>0, <1>2, SpendType
  <2> QED BY <1>0, <2>1
<1>3. ASSUME NEW q \in Receivers, ReceiverSide(q)
      PROVE  \/ file[r] = "partial" /\ (inbox[r] = "downloading" => inbox'[r] = "downloading")
             \/ Spend("crashes") \/ Spend("downloads")
             \/ inbox'[r] = "downloading"
  BY <1>0, <1>3 DEF ReceiverSide, receiving, TypeOK,
         Poll, At, Later, Forget, TakeOffer, Answer, Arrive, P2PFails, Hangup,
         RefuseBytes, Remember, AcceptBytes, Taken, WriteBytes, Keep, WriteFails,
         Spend, RefuseDownload, OpenDownload, Download, Cleaned, DownloadFails,
         CompleteTransfer, Completing, CompleteLost, ReceiverCrash, Other
<1>4. ASSUME SenderSide \/ UNCHANGED vars PROVE file' = file /\ inbox' = inbox
  BY <1>4, SenderFrame DEF vars, receiving
<1> QED BY <1>1, <1>2, <1>3, <1>4, Sides
-----------------------------------------------------------------------------
(* The theorems.                                                           *)

LEMMA InvInit == Init => Inv
<1> SUFFICES ASSUME Init PROVE Inv
  OBVIOUS
<1>1. TypeOK
  <2>1. chunks \in 0 .. MaxChunks
    BY CapType DEF Init
  <2> QED BY <2>1 DEF Init, TypeOK, Statuses, Files
<1>2. UploadsAgree /\ DeskOK
  BY DEF Init, UploadsAgree, DeskOK, Completing
<1>3. ReadyIsWhole /\ DoneIsDelivered /\ RelayIsStored /\ PartIsTransient /\ ErrorHasCause
  BY DEF Init, ReadyIsWhole, DoneIsDelivered, RelayIsStored, PartIsTransient, ErrorHasCause
<1> QED BY <1>1, <1>2, <1>3 DEF Inv

LEMMA InvStep == Inv /\ [Next]_vars => Inv'
  BY TypeStep, UploadsStep, DeskStep, ReadyStep, DoneStep, RelayStep, ErrorStep, PartStep DEF Inv

\* The inductive invariant holds of every reachable state.
THEOREM InvCorrect == Spec => []Inv
  BY InvInit, InvStep, PTL DEF Spec

\* Every reachable state is well typed.
THEOREM TypeCorrect == Spec => []TypeOK
<1>1. Inv => TypeOK
  BY DEF Inv
<1> QED BY <1>1, InvCorrect, PTL

\* A session offered for download holds the whole file, and a session is done only
\* when a receiver has it, whatever the sizes of file, uploads and chunks.
THEOREM StatusIsTrueCorrect == Spec => []StatusIsTrue
<1>1. Inv => StatusIsTrue
  BY DEF Inv, StatusIsTrue
<1> QED BY <1>1, InvCorrect, PTL

\* A result that says relay is posted once all of the file is on the server, an
\* error only when something failed, the file is more than a session's uploads
\* carry, or it is delivered.
THEOREM ReportIsTrueCorrect == Spec => []ReportIsTrue
<1>1. Inv => ReportIsTrue
  BY DEF Inv, ReportIsTrue
<1> QED BY <1>1, InvCorrect, PTL

\* Parts of files are those of a running download, a failed write or a restart.
THEOREM PartIsTransientCorrect == Spec => []PartIsTransient
<1>1. Inv => PartIsTransient
  BY DEF Inv
<1> QED BY <1>1, InvCorrect, PTL

\* No step of a sender, the server or a receiver, no retry, second delivery or
\* restart, replaces or removes a delivered file.  Other programs, as far as they
\* are modelled, only create files where there is none.
THEOREM DeliveredStays ==
  Spec => [][\A r \in Receivers : file[r] = "whole" => file'[r] = "whole"]_vars
<1>1. Inv /\ [Next]_vars => \A r \in Receivers : file[r] = "whole" => file'[r] = "whole"
  BY DeskStep
<1> QED BY <1>1, InvCorrect, PTL DEF Spec

-----------------------------------------------------------------------------
(* What a delivery leaves alone while nobody else writes there.            *)

LEMMA OthersStay ==
  ASSUME Inv, [Next]_vars, spent'["others"] = 0
  PROVE  spent["others"] = 0
<1>1. spent["others"] \in Nat /\ spent["others"] <= spent'["others"]
  BY SpentGrows, Budgets
<1> QED BY <1>1

LEMMA OthersBound ==
  ASSUME Bounds["others"] = 0, Inv, spent["others"] = 0, [Next]_vars
  PROVE  spent'["others"] = 0
<1>1. spent \in [Budget -> Nat] /\ "others" \in Budget
  BY Budgets DEF Inv, TypeOK
<1> QED BY <1>1, SpentBySpending DEF Spend

LEMMA DestinationStep ==
  ASSUME Inv, WritesIntoNothing, [Next]_vars, spent["others"] = 0
  PROVE  /\ spent'["others"] = 0 =>
              \A q \in Receivers : inbox'[q] = "writing" => file'[q] = "absent"
         /\ \A q \in Receivers : file[q] \in {"other", "whole"} => file'[q] = file[q]
<1> DEFINE Goal == /\ spent'["others"] = 0 =>
                        \A q \in Receivers : inbox'[q] = "writing" => file'[q] = "absent"
                   /\ \A q \in Receivers : file[q] \in {"other", "whole"} => file'[q] = file[q]
<1> USE DEF rigid, table, sending, signals, receiving
<1>0. /\ inbox \in [Receivers -> {"idle", "listed", "receiving", "received", "writing",
                                   "downloading", "completing p2p", "completing relay"}]
      /\ file \in [Receivers -> Files] /\ spent \in [Budget -> Nat] /\ "others" \in Budget
      /\ \A q \in Receivers : inbox[q] = "writing" => file[q] = "absent"
      /\ \A q \in Receivers : inbox[q] = "downloading" => file[q] = "partial"
  BY Budgets DEF Inv, TypeOK, DeskOK, WritesIntoNothing
<1>1. ASSUME SenderSide PROVE Goal
  BY <1>0, <1>1, SenderFrame
<1>2. ASSUME NEW r \in Receivers, Poll(r) PROVE Goal
  BY <1>0, <1>2 DEF Poll, At, Files
<1>3. ASSUME NEW r \in Receivers, Later(r) PROVE Goal
  BY <1>0, <1>3 DEF Later, Forget, At, Files
<1>4. ASSUME NEW r \in Receivers, TakeOffer(r) PROVE Goal
  BY <1>0, <1>4 DEF TakeOffer, At, Files
<1>5. ASSUME NEW r \in Receivers, Answer(r) PROVE Goal
  BY <1>0, <1>5 DEF Answer, Files
<1>6. ASSUME NEW r \in Receivers, Arrive(r) PROVE Goal
  BY <1>0, <1>6 DEF Arrive, At, Files
<1>7. ASSUME NEW r \in Receivers, P2PFails(r) PROVE Goal
  BY <1>0, <1>7 DEF P2PFails, Forget, At, Hangup, Files
<1>8. ASSUME NEW r \in Receivers, RefuseBytes(r) PROVE Goal
  BY <1>0, <1>8 DEF RefuseBytes, Remember, At, Files
<1>9. ASSUME NEW r \in Receivers, AcceptBytes(r) PROVE Goal
  BY <1>0, <1>9 DEF AcceptBytes, At, Taken, Files
<1>10. ASSUME NEW r \in Receivers, WriteBytes(r) PROVE Goal
  BY <1>0, <1>10 DEF WriteBytes, Keep, Remember, At, Files
<1>11. ASSUME NEW r \in Receivers, WriteFails(r) PROVE Goal
  BY <1>0, <1>11 DEF WriteFails, Remember, At, Spend, Files
<1>12. ASSUME NEW r \in Receivers, RefuseDownload(r) PROVE Goal
  BY <1>0, <1>12 DEF RefuseDownload, Remember, At, Files
<1>13. ASSUME NEW r \in Receivers, OpenDownload(r) PROVE Goal
  BY <1>0, <1>13 DEF OpenDownload, At, Keep, Taken, Files
<1>14. ASSUME NEW r \in Receivers, Download(r) PROVE Goal
  BY <1>0, <1>14 DEF Download, Keep, At, Remember, Cleaned, Files
<1>15. ASSUME NEW r \in Receivers, DownloadFails(r) PROVE Goal
  BY <1>0, <1>15 DEF DownloadFails, Spend, Keep, Forget, At, Cleaned, Files
<1>16. ASSUME NEW r \in Receivers, CompleteTransfer(r) PROVE Goal
  BY <1>0, <1>16 DEF CompleteTransfer, Remember, Forget, At, Files
<1>17. ASSUME NEW r \in Receivers, CompleteLost(r) PROVE Goal
  BY <1>0, <1>17 DEF CompleteLost, Forget, At, Spend, Files
<1>18. ASSUME NEW r \in Receivers, ReceiverCrash(r) PROVE Goal
  BY <1>0, <1>18 DEF ReceiverCrash, Spend, At, Hangup, Files
<1>19. ASSUME NEW r \in Receivers, Other(r) PROVE Goal
  <2>1. spent'["others"] = 1
    <3>1. spent' = [spent EXCEPT !["others"] = spent["others"] + 1]
      BY <1>19 DEF Other, Spend
    <3>2. spent \in [Budget -> Nat] /\ "others" \in Budget
      BY <1>0
    <3> QED BY <3>1, <3>2
  <2>2. file[r] = "absent" /\ \A q \in Receivers : q # r => file'[q] = file[q]
    BY <1>0, <1>19 DEF Other, Keep
  <2> QED BY <2>1, <2>2
<1>20. ASSUME UNCHANGED vars PROVE Goal
  BY <1>0, <1>20 DEF vars
<1> QED
  BY <1>1, <1>2, <1>3, <1>4, <1>5, <1>6, <1>7, <1>8, <1>9, <1>10,
     <1>11, <1>12, <1>13, <1>14, <1>15, <1>16, <1>17, <1>18, <1>19, <1>20, Sides DEF ReceiverSide

LEMMA WritesIntoNothingCorrect == Spec => []WritesIntoNothing
<1>1. Init => WritesIntoNothing
  BY DEF Init, WritesIntoNothing
<1>2. Inv /\ WritesIntoNothing /\ [Next]_vars => WritesIntoNothing'
  <2> SUFFICES ASSUME Inv, WritesIntoNothing, [Next]_vars, spent'["others"] = 0
               PROVE  \A r \in Receivers : inbox'[r] = "writing" => file'[r] = "absent"
    BY DEF WritesIntoNothing
  <2>1. spent["others"] = 0
    BY OthersStay
  <2> QED BY <2>1, DestinationStep
<1> QED BY <1>1, <1>2, InvCorrect, PTL DEF Spec

\* A delivery replaces or removes nothing that is at a destination, if no other
\* program creates it between the look of writeReceivedBytes and its write.
THEOREM NoOverwriteCorrect ==
  ASSUME Bounds["others"] = 0
  PROVE  Spec => NoOverwrite
<1>1. Init => spent["others"] = 0
  BY Budgets DEF Init
<1>2. Inv /\ spent["others"] = 0 /\ [Next]_vars => (spent["others"] = 0)'
  BY OthersBound
<1>3. Inv /\ WritesIntoNothing /\ spent["others"] = 0 /\ [Next]_vars
        => \A r \in Receivers : file[r] \in {"other", "whole"} => file'[r] = file[r]
  BY DestinationStep
<1> QED
  BY <1>1, <1>2, <1>3, InvCorrect, WritesIntoNothingCorrect, PTL DEF Spec, NoOverwrite
=============================================================================
