------------------------------- MODULE VirtioBlk -------------------------------
(***************************************************************************)
(* The request path of the VirtIO block driver                             *)
(* (src/src/storage/virtio_blk.c: submit) and the device behind it.  Every *)
(* request uses the same three descriptors, one request header and one     *)
(* status byte; the device reads them when it comes to the request and     *)
(* answers when it is done, which may be after the driver has given up.    *)
(***************************************************************************)
EXTENDS Integers

CONSTANTS
  VirtioSectors, Data,
  IndexRange,       \* 2^16, the range of the ring indices, scaled
  MaxRequests       \* bound on the requests of a behaviour

ASSUME VirtioConstants ==
  /\ VirtioSectors # {} /\ Data # {}
  /\ IndexRange \in Nat /\ IndexRange > 1 /\ MaxRequests \in Nat

Pending == 255      \* request_status before the device has answered

VARIABLES
  virtio_disk,      \* the device's sectors
  request,          \* the descriptors: [serial, write, sector]
  buffers,          \* what the buffer of each request holds
  request_status,
  available, used,  \* the two ring indices
  last_used,
  virtio_pc,        \* idle or poll
  result,           \* of the last submit
  failures,
  served,           \* the device: requests it has taken from the ring
  fetched,          \* the device: the request it is working on
  performed,        \* history: the requests the device has carried out
  serial            \* history: numbers the requests

vars == <<virtio_disk, request, buffers, request_status, available, used, last_used, virtio_pc,
          result, failures, served, fetched, performed, serial>>
device_vars == <<virtio_disk, buffers, used, served, fetched, performed>>

Blank == CHOOSE d \in Data : TRUE
NoRequest == [serial |-> 0, write |-> FALSE, sector |-> CHOOSE s \in VirtioSectors : TRUE]
Idle == NoRequest   \* what the device holds between requests

Init ==
  /\ virtio_disk = [s \in VirtioSectors |-> Blank]
  /\ request = NoRequest
  /\ buffers = [n \in 0 .. MaxRequests |-> Blank]
  /\ request_status = Pending
  /\ available = 0 /\ used = 0 /\ last_used = 0
  /\ virtio_pc = "idle" /\ result = 0 /\ failures = 0
  /\ served = 0 /\ fetched = Idle
  /\ performed = {} /\ serial = 0

(* submit, up to the notification: the header, the status byte and the     *)
(* descriptors are written over, then the index of the ring moves.         *)
submit(write, sector, data) ==
  /\ virtio_pc = "idle" /\ serial < MaxRequests
  /\ serial' = serial + 1
  /\ request' = [serial |-> serial + 1, write |-> write, sector |-> sector]
  /\ buffers' = [buffers EXCEPT ![serial + 1] = data]
  /\ request_status' = Pending
  /\ available' = (available + 1) % IndexRange
  /\ virtio_pc' = "poll"
  /\ UNCHANGED <<virtio_disk, used, last_used, result, failures, served, fetched, performed>>

(* More than 128 sectors, or none, are refused before anything is touched. *)
submit_refused ==
  /\ virtio_pc = "idle" /\ result' = -1
  /\ UNCHANGED <<device_vars, request, request_status, available, last_used, virtio_pc, failures,
                 serial>>

Fail ==
  /\ virtio_pc' = "idle" /\ result' = -1
  /\ failures' = failures + 1
  /\ UNCHANGED <<device_vars, request, request_status, available, last_used, serial>>

(* Mutation of poll_timeout: the poll has no limit.                        *)
poll_timeout_unbounded == virtio_pc = "poll" /\ used = last_used /\ UNCHANGED vars

(* VIRTIO_TIMEOUT polls without an answer.                                 *)
poll_timeout == virtio_pc = "poll" /\ used = last_used /\ Fail

(* Mutation of poll_answered: any answer is taken for a good one.          *)
poll_answered_any_status ==
  /\ virtio_pc = "poll" /\ used # last_used
  /\ last_used' = used
  /\ virtio_pc' = "idle" /\ result' = 0
  /\ UNCHANGED <<device_vars, request, request_status, available, failures, serial>>

(* The used index has moved: an answer, of this request or of another.     *)
(* Only a good one moves last_used.                                        *)
poll_answered ==
  /\ virtio_pc = "poll" /\ used # last_used
  /\ IF request_status # 0 THEN Fail
     ELSE /\ last_used' = used
          /\ virtio_pc' = "idle" /\ result' = 0
          /\ UNCHANGED <<device_vars, request, request_status, available, failures, serial>>

(* The device takes the next entry of the ring, and with it whatever the   *)
(* descriptors then say.                                                   *)
device_fetches ==
  /\ fetched = Idle /\ served # available
  /\ fetched' = request /\ served' = (served + 1) % IndexRange
  /\ UNCHANGED <<virtio_disk, request, buffers, request_status, available, used, last_used,
                 virtio_pc, result, failures, performed, serial>>

device_answers(status) ==
  /\ fetched # Idle
  /\ IF status # 0 THEN UNCHANGED <<virtio_disk, buffers, performed>>
     ELSE /\ performed' = performed \cup {fetched.serial}
          /\ IF fetched.write
             THEN /\ virtio_disk' = [virtio_disk EXCEPT ![fetched.sector] = buffers[fetched.serial]]
                  /\ UNCHANGED buffers
             ELSE /\ buffers' = [buffers EXCEPT ![fetched.serial] = virtio_disk[fetched.sector]]
                  /\ UNCHANGED virtio_disk
  /\ request_status' = status
  /\ used' = (used + 1) % IndexRange /\ fetched' = Idle
  /\ UNCHANGED <<request, available, last_used, virtio_pc, result, failures, served, serial>>

Driver == poll_timeout \/ poll_answered
Next ==
  \/ \E s \in VirtioSectors :
       submit(FALSE, s, Blank) \/ \E d \in Data : submit(TRUE, s, d)
  \/ submit_refused
  \/ Driver
  \/ device_fetches
  \/ \E status \in {0, 1} : device_answers(status)

Spec == Init /\ [][Next]_vars /\ WF_vars(Driver)
------------------------------------------------------------------------------
TypeOK ==
  /\ virtio_disk \in [VirtioSectors -> Data]
  /\ request \in [serial : 0 .. MaxRequests, write : BOOLEAN, sector : VirtioSectors]
  /\ buffers \in [0 .. MaxRequests -> Data]
  /\ request_status \in {0, 1, Pending}
  /\ {available, used, last_used, served} \subseteq 0 .. IndexRange - 1
  /\ virtio_pc \in {"idle", "poll"} /\ result \in {0, -1}
  /\ fetched \in [serial : 0 .. MaxRequests, write : BOOLEAN, sector : VirtioSectors]

(* Until a request has failed, an answer the driver sees is the answer to  *)
(* the request it waits for: a submit that returns 0 has been carried out, *)
(* the device is idle between calls, and no buffer is touched after the    *)
(* call that passed it.  (After a failure last_used lags behind and the    *)
(* device may still hold the old request: neither holds any more.)         *)
AnswerIsOurs ==
  /\ TypeOK
  /\ failures = 0 =>
    /\ virtio_pc = "idle" =>
         fetched = Idle /\ served = available /\ performed = 1 .. serial
    /\ virtio_pc = "poll" /\ used # last_used /\ request_status = 0 => serial \in performed
    /\ fetched # Idle => fetched.serial = serial /\ virtio_pc = "poll"

=============================================================================
