---------------------------- MODULE VirtioBlkProofs ----------------------------
(***************************************************************************)
(* Proof that, until a request fails, the VirtIO driver takes no other     *)
(* answer for the one it waits for, for every size of the ring and every   *)
(* number of requests.                                                     *)
(***************************************************************************)
EXTENDS VirtioBlk, TLAPS

(* The next index of a ring.  The remainder is used through Wrapped only.  *)
After(index) == (index + 1) % IndexRange

HistoryOK == failures \in Nat /\ serial \in 0 .. MaxRequests

(* Between calls the rings agree and all requests are done; during one,    *)
(* the request is in the ring, in the device or answered.                  *)
Settled ==
  /\ virtio_pc = "idle" /\ fetched = Idle
  /\ served = available /\ used = available /\ last_used = available
  /\ performed = 1 .. serial
InRing ==
  /\ virtio_pc = "poll" /\ fetched = Idle
  /\ used = served /\ last_used = served /\ available = After(served)
  /\ performed = 1 .. serial - 1
InDevice ==
  /\ virtio_pc = "poll" /\ fetched = request
  /\ served = available /\ last_used = used /\ available = After(used)
  /\ performed = 1 .. serial - 1
Answered ==
  /\ virtio_pc = "poll" /\ fetched = Idle
  /\ served = available /\ used = available /\ used = After(last_used)
  /\ request_status = 0 => performed = 1 .. serial

OneAtATime ==
  /\ request.serial = serial
  /\ virtio_pc = "poll" => serial # 0
  /\ Settled \/ InRing \/ InDevice \/ Answered

Inv == TypeOK /\ HistoryOK /\ (failures = 0 => OneAtATime)

LEMMA Wrapped ==
  ASSUME NEW index \in 0 .. IndexRange - 1
  PROVE  After(index) = IF index + 1 = IndexRange THEN 0 ELSE index + 1
  <1> DEFINE rest == IF index + 1 = IndexRange THEN 0 ELSE index + 1
  <1>1. rest \in 0 .. IndexRange - 1 /\ rest % IndexRange = rest
    BY VirtioConstants
  <1>2. (rest + IndexRange) % IndexRange = rest
    BY <1>1, VirtioConstants
  <1> QED
    BY <1>1, <1>2, VirtioConstants DEF After

LEMMA Moves ==
  ASSUME NEW index \in 0 .. IndexRange - 1
  PROVE  After(index) \in 0 .. IndexRange - 1 /\ After(index) # index
  BY Wrapped, VirtioConstants

LEMMA ConstantsTyped ==
  /\ Blank \in Data
  /\ NoRequest \in [serial : 0 .. MaxRequests, write : BOOLEAN, sector : VirtioSectors]
  /\ Idle = NoRequest /\ NoRequest.serial = 0
  BY VirtioConstants DEF Blank, NoRequest, Idle

LEMMA Init_Inv == Init => Inv
  BY ConstantsTyped, VirtioConstants
  DEF Init, Inv, TypeOK, HistoryOK, OneAtATime, Settled, Pending

LEMMA SubmitKeeps ==
  ASSUME Inv, NEW write \in BOOLEAN, NEW sector \in VirtioSectors, NEW data \in Data,
         submit(write, sector, data)
  PROVE  Inv'
  <1>1. available' = After(available)
    BY DEF submit, After
  <1>2. TypeOK'
    <2>1. serial + 1 \in 0 .. MaxRequests
      BY VirtioConstants DEF submit, Inv, HistoryOK
    <2>2. request' \in [serial : 0 .. MaxRequests, write : BOOLEAN, sector : VirtioSectors]
      BY <2>1 DEF submit
    <2>3. buffers' \in [0 .. MaxRequests -> Data]
      BY <2>1 DEF submit, Inv, TypeOK
    <2>4. available' \in 0 .. IndexRange - 1
      BY <1>1, Moves DEF Inv, TypeOK
    <2> QED
      BY <2>2, <2>3, <2>4 DEF submit, Inv, TypeOK
  <1>3. HistoryOK'
    BY VirtioConstants DEF submit, Inv, HistoryOK
  <1>4. failures' = 0 => OneAtATime'
    <2> SUFFICES ASSUME failures = 0 PROVE OneAtATime'
      BY DEF submit
    <2>1. Settled
      BY DEF submit, Inv, OneAtATime, InRing, InDevice, Answered
    <2>2. serial' - 1 = serial /\ serial' # 0 /\ request'.serial = serial'
      BY DEF submit, Inv, HistoryOK
    <2>3. InRing'
      BY <1>1, <2>1, <2>2 DEF submit, Settled, InRing, After
    <2> QED
      BY <2>2, <2>3 DEF OneAtATime
  <1> QED
    BY <1>2, <1>3, <1>4 DEF Inv

LEMMA FailKeeps ==
  ASSUME Inv, Fail PROVE Inv'
  <1>1. failures' # 0 /\ failures' \in Nat
    BY DEF Fail, Inv, HistoryOK
  <1> QED
    BY <1>1 DEF Fail, device_vars, Inv, TypeOK, HistoryOK

LEMMA AnswerTakenKeeps ==
  ASSUME Inv, poll_answered, request_status = 0 PROVE Inv'
  <1>1. TypeOK' /\ HistoryOK'
    BY DEF poll_answered, device_vars, Inv, TypeOK, HistoryOK
  <1>2. failures' = 0 => OneAtATime'
    <2> SUFFICES ASSUME failures = 0 PROVE OneAtATime'
      BY DEF poll_answered, Fail
    <2>1. Answered
      BY DEF poll_answered, Inv, OneAtATime, Settled, InRing, InDevice
    <2>2. Settled'
      BY <2>1 DEF poll_answered, device_vars, Answered, Settled
    <2> QED
      BY <2>2 DEF poll_answered, device_vars, Inv, OneAtATime, Settled
  <1> QED
    BY <1>1, <1>2 DEF Inv

LEMMA FetchKeeps ==
  ASSUME Inv, device_fetches PROVE Inv'
  <1>1. served' = After(served)
    BY DEF device_fetches, After
  <1>2. TypeOK' /\ HistoryOK'
    BY <1>1, Moves DEF device_fetches, Inv, TypeOK, HistoryOK
  <1>3. failures' = 0 => OneAtATime'
    <2> SUFFICES ASSUME failures = 0 PROVE OneAtATime'
      BY DEF device_fetches
    <2>1. InRing
      BY DEF device_fetches, Inv, OneAtATime, Settled, InDevice, Answered
    <2>2. InDevice'
      BY <1>1, <2>1 DEF device_fetches, InRing, InDevice, After
    <2> QED
      BY <2>2 DEF device_fetches, Inv, OneAtATime
  <1> QED
    BY <1>2, <1>3 DEF Inv

LEMMA AnswerKeeps ==
  ASSUME Inv, NEW status \in {0, 1}, device_answers(status) PROVE Inv'
  <1>1. used' = After(used)
    BY DEF device_answers, After
  <1>2. used' \in 0 .. IndexRange - 1 /\ fetched' = NoRequest
    BY <1>1, Moves, ConstantsTyped DEF device_answers, Inv, TypeOK
  <1>3. virtio_disk' \in [VirtioSectors -> Data] /\ buffers' \in [0 .. MaxRequests -> Data]
    BY DEF device_answers, Inv, TypeOK
  <1>4. TypeOK' /\ HistoryOK'
    BY <1>2, <1>3, ConstantsTyped DEF device_answers, Inv, TypeOK, HistoryOK
  <1>5. failures' = 0 => OneAtATime'
    <2> SUFFICES ASSUME failures = 0 PROVE OneAtATime'
      BY DEF device_answers
    <2>1. InDevice
      BY DEF device_answers, Inv, OneAtATime, Settled, InRing, Answered
    <2>2. fetched.serial = serial /\ serial \in Nat \ {0}
      BY <2>1 DEF InDevice, Inv, OneAtATime, HistoryOK
    <2>3. status = 0 => performed' = 1 .. serial
      <3>1. (1 .. serial - 1) \cup {serial} = 1 .. serial
        BY <2>2
      <3> QED
        BY <2>1, <2>2, <3>1 DEF device_answers, InDevice
    <2>4. Answered'
      BY <1>1, <2>1, <2>3 DEF device_answers, InDevice, Answered, After
    <2> QED
      BY <2>2, <2>4 DEF device_answers, Inv, OneAtATime
  <1> QED
    BY <1>4, <1>5 DEF Inv

LEMMA Step_Inv == ASSUME Inv, [Next]_vars PROVE Inv'
  <1>1. CASE UNCHANGED vars
    BY <1>1 DEF vars, Inv, TypeOK, HistoryOK, OneAtATime, Settled, InRing, InDevice, Answered, After
  <1>2. ASSUME NEW s \in VirtioSectors,
               submit(FALSE, s, Blank) \/ \E d \in Data : submit(TRUE, s, d)
        PROVE  Inv'
    BY <1>2, SubmitKeeps, ConstantsTyped
  <1>3. CASE submit_refused
    <2>1. TypeOK' /\ HistoryOK'
      BY <1>3 DEF submit_refused, device_vars, Inv, TypeOK, HistoryOK
    <2>2. failures' = 0 => OneAtATime'
      BY <1>3 DEF submit_refused, device_vars, Inv, OneAtATime, Settled, InRing, InDevice,
                  Answered, After
    <2> QED
      BY <2>1, <2>2 DEF Inv
  <1>4. CASE poll_timeout
    BY <1>4, FailKeeps DEF poll_timeout
  <1>5. CASE poll_answered
    BY <1>5, FailKeeps, AnswerTakenKeeps DEF poll_answered
  <1> QED
    BY <1>1, <1>2, <1>3, <1>4, <1>5, FetchKeeps, AnswerKeeps DEF Next, Driver

LEMMA Inv_Answer == Inv => AnswerIsOurs
  <1> SUFFICES ASSUME Inv, failures = 0
               PROVE  /\ virtio_pc = "idle" =>
                           fetched = Idle /\ served = available /\ performed = 1 .. serial
                      /\ virtio_pc = "poll" /\ used # last_used /\ request_status = 0
                           => serial \in performed
                      /\ fetched # Idle => fetched.serial = serial /\ virtio_pc = "poll"
    BY DEF Inv, AnswerIsOurs
  <1>1. CASE Settled
    BY <1>1 DEF Settled
  <1>2. CASE InRing
    BY <1>2 DEF InRing
  <1>3. CASE InDevice
    BY <1>3 DEF InDevice, Inv, OneAtATime
  <1>4. CASE Answered
    <2>1. serial \in 1 .. serial \/ virtio_pc # "poll"
      BY DEF Inv, OneAtATime, HistoryOK
    <2> QED
      BY <1>4, <2>1 DEF Answered
  <1> QED
    BY <1>1, <1>2, <1>3, <1>4 DEF Inv, OneAtATime

(* Until a request of virtio_blk.c has failed, the answer its poll sees is *)
(* the one to the request it waits for, whatever the size of the ring, the *)
(* number of requests and the time the device takes.                       *)
THEOREM DriverTakesItsAnswer == Spec => []AnswerIsOurs
  <1>1. Inv /\ [Next]_vars => Inv'
    BY Step_Inv
  <1> QED
    BY Init_Inv, <1>1, Inv_Answer, PTL DEF Spec

=============================================================================
