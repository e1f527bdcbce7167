--------------------------- MODULE A600VcMailbox ---------------------------
(***************************************************************************)
(* The A600 VideoCore mailbox: a600_vc_hardware_get_board_revision and     *)
(* a600_vc_mailbox_request_send (plat/faraday/a600/a600_mbox.c).           *)
(*                                                                         *)
(* One static buffer, a600_mbox_buffer, holds the request and, once the    *)
(* VideoCore has processed it, the response.  The CPU sees the buffer      *)
(* through its data cache: the line is a miss, a clean copy, or a dirty    *)
(* copy that memory does not have yet.  The VideoCore sees memory only.    *)
(* Mailbox 1 carries requests to the VideoCore and mailbox 0 answers back; *)
(* both carry the buffer address, which is the same for every request, so  *)
(* only how many words each FIFO holds is kept.                            *)
(*                                                                         *)
(* Each buffer value carries the number of the call that wrote it (`for`). *)
(* It is a ghost field: it lets the properties tell the answer to this     *)
(* call from the answer to an earlier one, which the code cannot.          *)
(***************************************************************************)
EXTENDS Integers

CONSTANTS
  MAX_RETRIES,  \* A600_MAILBOX_MAX_RETRIES, scaled down
  MaxCalls,     \* bound on calls of a600_vc_hardware_get_board_revision
  BoardRev      \* the revision the VideoCore reports

\* Request and response codes, a600_mbox.c:28-30, and the tags[2] word:
\* A600_TAG_REQUEST, or A600_TAG_IS_RESPONSE | length (lines 36-37).
A600_MBOX_PROCESS_REQUEST == "process"
A600_MBOX_REQUEST_SUCCESSFUL == "successful"
A600_MBOX_REQUEST_ERROR == "error"
A600_TAG_REQUEST == "request"
A600_TAG_RESPONSE == "response"
Codes == {A600_MBOX_PROCESS_REQUEST, A600_MBOX_REQUEST_SUCCESSFUL,
          A600_MBOX_REQUEST_ERROR}
Bufs == [code : Codes, tag : {A600_TAG_REQUEST, A600_TAG_RESPONSE},
         val : {0, BoardRev}, for : 0..MaxCalls]

\* The request written by call k (lines 122-130); tags[3] is the placeholder 0.
Request(k) == [code |-> A600_MBOX_PROCESS_REQUEST, tag |-> A600_TAG_REQUEST,
               val |-> 0, for |-> k]

\* The VideoCore's possible answers to request k: it knows the tag and fills
\* in the revision, it does not know the tag and leaves it untouched, or it
\* rejects the buffer.
Outcomes == {"known", "unknown", "rejected"}
Response(k, o) ==
  CASE o = "known"    -> [code |-> A600_MBOX_REQUEST_SUCCESSFUL,
                          tag |-> A600_TAG_RESPONSE, val |-> BoardRev, for |-> k]
    [] o = "unknown"  -> [Request(k) EXCEPT !.code = A600_MBOX_REQUEST_SUCCESSFUL]
    [] o = "rejected" -> [Request(k) EXCEPT !.code = A600_MBOX_REQUEST_ERROR]

Miss == [type |-> "miss"]
VcIdle == [state |-> "idle"]
Lines == {Miss} \cup [type : {"clean", "dirty"}, val : Bufs]

Pcs == {"idle", "flush", "send_poll", "write", "recv_poll", "read", "inv",
        "check"}

VARIABLES
  pc,        \* where the calling core is
  calls,     \* calls made so far; the current call's number
  retries,   \* the retries counter of the current poll loop
  cache,     \* the CPU's cache line holding a600_mbox_buffer
  mem,       \* a600_mbox_buffer in memory, as the VideoCore sees it
  mbox1,     \* words in mailbox 1 (ARM to VideoCore)
  mbox0,     \* words in mailbox 0 (VideoCore to ARM)
  vc,        \* VcIdle, or busy with the buffer as the VideoCore read it
  replied,   \* replied[k]: the VideoCore's answer to request k, or "none"
  answer,    \* the buffer value the last call's checks read
  ret,       \* the last call's return value
  timedOut   \* the calls whose request_send returned on a timeout

vars == <<pc, calls, retries, cache, mem, mbox1, mbox0, vc, replied,
          answer, ret, timedOut>>

Init ==
  /\ pc = "idle"
  /\ calls = 0
  /\ retries = 0
  /\ cache = Miss
  /\ mem = Request(0)     \* the zeroed .bss buffer reads as Request(0)
  /\ mbox1 = 0
  /\ mbox0 = 0
  /\ vc = VcIdle
  /\ replied = [k \in 1..MaxCalls |-> "none"]
  /\ answer = Request(0)
  /\ ret = 0
  /\ timedOut = {}

\* What a load from the buffer returns: the line if it holds one, memory
\* otherwise.  A load that misses allocates a clean line.
Load == IF cache = Miss THEN mem ELSE cache.val
AfterLoad == IF cache = Miss THEN [type |-> "clean", val |-> mem] ELSE cache

----------------------------------------------------------------------------
(* The calling core.                                                       *)

\* a600_vc_hardware_get_board_revision, lines 113-131: fill in the request
\* (the stores allocate the line and dirty it) and call request_send.
GetBoardRevision ==
  /\ pc = "idle"
  /\ calls < MaxCalls
  /\ calls' = calls + 1
  /\ cache' = [type |-> "dirty", val |-> Request(calls + 1)]
  /\ pc' = "flush"
  /\ UNCHANGED <<retries, mem, mbox1, mbox0, vc, replied, answer, ret,
                 timedOut>>

\* Line 58: flush_dcache_range cleans and invalidates the line; line 61.
RequestSendFlush ==
  /\ pc = "flush"
  /\ mem' = IF cache = Miss \/ cache.type = "clean" THEN mem ELSE cache.val
  /\ cache' = Miss
  /\ retries' = 0
  /\ pc' = "send_poll"
  /\ UNCHANGED <<calls, mbox1, mbox0, vc, replied, answer, ret,
                 timedOut>>

\* One pass of a poll loop (lines 63-72 and 81-90): read the status,
\* count the read, give up when the count reaches MAX_RETRIES whatever the
\* status said, and otherwise leave the loop when the status says so.
\* Giving up returns from request_send straight to line 134, with no
\* invalidate.
PollTimeout(at) ==
  /\ pc = at
  /\ retries + 1 = MAX_RETRIES
  /\ pc' = "check"
  /\ timedOut' = timedOut \cup {calls}
  /\ UNCHANGED <<calls, retries, cache, mem, mbox1, mbox0, vc, replied,
                 answer, ret>>

PollAgain(at, ready, next) ==
  /\ pc = at
  /\ retries + 1 < MAX_RETRIES
  /\ retries' = retries + 1
  /\ pc' = IF ready THEN next ELSE at
  /\ UNCHANGED <<calls, cache, mem, mbox1, mbox0, vc, replied, answer, ret,
                 timedOut>>

\* The status read reports whether the FIFO is empty (mailbox 1) or holds
\* a word (mailbox 0).
SendPoll == PollAgain("send_poll", mbox1 = 0, "write")
\* Variant: on the timeout the loop starts counting again instead of
\* returning.
SendTimeoutRestarts ==
  /\ pc = "send_poll"
  /\ retries + 1 = MAX_RETRIES
  /\ retries' = 0
  /\ UNCHANGED <<pc, calls, cache, mem, mbox1, mbox0, vc, replied, answer,
                 ret, timedOut>>
SendTimeout == PollTimeout("send_poll")
\* Variant: the loop condition of line 90 inverted.
RecvPollInverted == PollAgain("recv_poll", mbox0 = 0, "read")
RecvPoll == PollAgain("recv_poll", mbox0 > 0, "read")
RecvTimeout == PollTimeout("recv_poll")

\* Lines 75-76 and 79: post the buffer address to the VideoCore.
RequestSendWrite ==
  /\ pc = "write"
  /\ mbox1' = mbox1 + 1
  /\ retries' = 0
  /\ pc' = "recv_poll"
  /\ UNCHANGED <<calls, cache, mem, mbox0, vc, replied, answer, ret,
                 timedOut>>

\* Lines 93-104: take the answer word.  Its channel is A600_CHANNEL_ARM_TO_VC
\* and its address that of a600_mbox_buffer, because the VideoCore echoes the
\* one request address there is, so neither panic can happen.
RequestSendRead ==
  /\ pc = "read"
  /\ mbox0' = mbox0 - 1
  /\ pc' = "inv"
  /\ UNCHANGED <<calls, retries, cache, mem, mbox1, vc, replied, answer,
                 ret, timedOut>>

\* Variant: no invalidate before the buffer is read.
RequestSendInvSkipped ==
  /\ pc = "inv"
  /\ pc' = "check"
  /\ UNCHANGED <<calls, retries, cache, mem, mbox1, mbox0, vc, replied,
                 answer, ret, timedOut>>

\* Line 107: inv_dcache_range drops the line.
RequestSendInv ==
  /\ pc = "inv"
  /\ cache' = Miss
  /\ pc' = "check"
  /\ UNCHANGED <<calls, retries, mem, mbox1, mbox0, vc, replied, answer,
                 ret, timedOut>>

\* Lines 134-147: check req->code and req->tags[2], return tags[3].  The
\* three words share one cache line, so they are read as one value.
GetBoardRevisionCheck ==
  /\ pc = "check"
  /\ answer' = Load
  /\ cache' = AfterLoad
  /\ ret' = IF /\ Load.code = A600_MBOX_REQUEST_SUCCESSFUL
               /\ Load.tag = A600_TAG_RESPONSE
            THEN 0 ELSE -1
  /\ pc' = "idle"
  /\ UNCHANGED <<calls, retries, mem, mbox1, mbox0, vc, replied, timedOut>>

----------------------------------------------------------------------------
(* The cache and the VideoCore.                                            *)

\* The line may be evicted at any time, a dirty line written back; a
\* missing line may be brought back by a speculative load.
CacheEvict ==
  /\ cache # Miss
  /\ mem' = IF cache.type = "dirty" THEN cache.val ELSE mem
  /\ cache' = Miss
  /\ UNCHANGED <<pc, calls, retries, mbox1, mbox0, vc, replied, answer,
                 ret, timedOut>>

CacheFill ==
  /\ cache = Miss
  /\ cache' = [type |-> "clean", val |-> mem]
  /\ UNCHANGED <<pc, calls, retries, mem, mbox1, mbox0, vc, replied,
                 answer, ret, timedOut>>

\* The VideoCore takes the address from mailbox 1 and reads the buffer.
VcTake ==
  /\ vc = VcIdle
  /\ mbox1 > 0
  /\ mbox1' = mbox1 - 1
  /\ vc' = [state |-> "busy", req |-> mem]
  /\ UNCHANGED <<pc, calls, retries, cache, mem, mbox0, replied, answer,
                 ret, timedOut>>

\* It writes its response over the buffer and posts the address back.
VcAnswer ==
  /\ vc # VcIdle
  /\ \E o \in Outcomes :
       /\ mem' = Response(vc.req.for, o)
       /\ replied' = IF vc.req.for \in 1..MaxCalls
                     THEN [replied EXCEPT ![vc.req.for] = o] ELSE replied
  /\ mbox0' = mbox0 + 1
  /\ vc' = VcIdle
  /\ UNCHANGED <<pc, calls, retries, cache, mbox1, answer, ret, timedOut>>

Cpu ==
  \/ GetBoardRevision \/ RequestSendFlush
  \/ SendPoll \/ SendTimeout \/ RequestSendWrite
  \/ RecvPoll \/ RecvTimeout \/ RequestSendRead
  \/ RequestSendInv \/ GetBoardRevisionCheck

Vc == VcTake \/ VcAnswer

Next == Cpu \/ Vc \/ CacheEvict \/ CacheFill

\* The core runs request_send to its end; the VideoCore answers what it is
\* sent only if it gets to it: nothing bounds how long the VideoCore takes,
\* and it may stop answering.  Calls of get_board_revision and the cache
\* are not fair either.
CpuFair ==
  \/ RequestSendFlush \/ SendPoll \/ SendTimeout \/ RequestSendWrite
  \/ RecvPoll \/ RecvTimeout \/ RequestSendRead \/ RequestSendInv
  \/ GetBoardRevisionCheck

Spec == Init /\ [][Next]_vars /\ WF_vars(CpuFair)

----------------------------------------------------------------------------
(* Properties.                                                             *)

TypeOK ==
  /\ pc \in Pcs
  /\ calls \in 0..MaxCalls
  /\ retries \in 0..MAX_RETRIES
  /\ cache \in Lines
  /\ mem \in Bufs
  /\ mbox1 \in Nat /\ mbox0 \in Nat
  /\ vc \in {VcIdle} \cup [state : {"busy"}, req : Bufs]
  /\ replied \in [1..MaxCalls -> Outcomes \cup {"none"}]
  /\ answer \in Bufs
  /\ ret \in {0, -1}
  /\ timedOut \subseteq 1..MaxCalls

\* When a call of a600_vc_hardware_get_board_revision has returned 0, or
\* has returned after request_send ran to its end, what its checks at lines
\* 134-145 read is the VideoCore's answer to the request this call sent:
\* not the request itself, not an older answer.  (A call whose wait timed
\* out may return -1 on whatever it reads; that is its error path.)
ReturnIsVcAnswerToThisCall ==
  (pc = "idle" /\ calls > 0 /\ (ret = 0 \/ calls \notin timedOut)) =>
    /\ replied[calls] # "none"
    /\ answer = Response(calls, replied[calls])

\* The same, as long as no wait of any call has timed out: while the core
\* and the VideoCore stay in step, each call reads its own answer, whatever
\* the cache does between the flush of line 58 and the loads of line 134.
ReturnIsVcAnswerWhileInStep ==
  timedOut = {} => ReturnIsVcAnswerToThisCall

\* The two loops of request_send wait "until the outbound mailbox is empty"
\* and "until the inbound mailbox isn't empty", giving up after
\* A600_MAILBOX_MAX_RETRIES status reads (lines 62-90): a wait gives up only
\* when the status it has just read says the mailbox is not ready.
GiveUpOnlyWhenNotReady ==
  [][/\ (pc = "send_poll" /\ pc' = "check") => mbox1 > 0
     /\ (pc = "recv_poll" /\ pc' = "check") => mbox0 = 0]_vars

\* Every call of a600_vc_hardware_get_board_revision returns, even when the
\* VideoCore never answers.
EveryCallReturns == pc # "idle" ~> pc = "idle"

============================================================================
