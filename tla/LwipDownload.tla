---------------------------- MODULE LwipDownload ----------------------------
(***************************************************************************)
(* HttpDownloadFile of the RP2040 (Platform/RP2040/HttpClient.c): the      *)
(* caller waits with a timeout for a transfer that lwIP's HTTP client runs *)
(* on the TCP/IP task, which calls back into the caller's DownloadState.   *)
(* That record lives in the caller's stack frame.  A call that times out   *)
(* leaves its transfer running; a callback of such a transfer writes to a  *)
(* dead frame, or to the frame of a later call that occupies its place:    *)
(* undefined behaviour, modelled as a choice of the two.                   *)
(***************************************************************************)
EXTENDS Integers, Sequences

CONSTANTS
    CALLS,      \* bound on the downloads, one after the other
    SEGMENTS,   \* the most segments a body has
    TIMEOUT     \* DOWNLOAD_TIMEOUT_MS / DOWNLOAD_POLL_MS

ASSUME BoundAssumption == CALLS \in Nat /\ SEGMENTS \in Nat /\ TIMEOUT \in Nat \ {0}

Calls == 1 .. CALLS

VARIABLES
    current,    \* number of the current call, or of the last one
    pc,         \* where the caller is
    elapsed,    \* polls since the deadline was set
    done, success,  \* DownloadState
    file,       \* what the open file of the current call holds: for each
                \* segment written, the call it belongs to
    writeFailed,\* a WriteFile, or the CloseFile, of the current call failed
    transfer,   \* per call, the transfer lwIP runs for it
    result      \* what each call returned; "timeout" is false too

vars == <<current, pc, elapsed, done, success, file, writeFailed, transfer, result>>
callerVars == <<current, pc, elapsed, result>>

Statuses == {"none", "active", "finishing", "over"}

TypeOK ==
    /\ current \in Calls \cup {0}
    /\ pc \in {"idle", "start", "wait", "close"}
    /\ elapsed \in 0 .. TIMEOUT
    /\ done \in BOOLEAN /\ success \in BOOLEAN
    /\ file \in Seq(Calls)
    /\ writeFailed \in BOOLEAN
    /\ transfer \in [Calls -> [status : Statuses, body : 0 .. SEGMENTS,
                               delivered : 0 .. SEGMENTS, ok : BOOLEAN]]
    /\ result \in [Calls -> {"none", "true", "false", "timeout"}]

NoTransfer == [status |-> "none", body |-> 0, delivered |-> 0, ok |-> FALSE]

Init ==
    /\ current = 0
    /\ pc = "idle"
    /\ elapsed = 0
    /\ done = FALSE /\ success = FALSE
    /\ file = <<>>
    /\ writeFailed = FALSE
    /\ transfer = [k \in Calls |-> NoTransfer]
    /\ result = [k \in Calls |-> "none"]

-----------------------------------------------------------------------------
(* The caller.                                                             *)

Returned(k, r) == [result EXCEPT ![k] = r]

(* The URL does not parse, or the file cannot be opened.                   *)
CallFails ==
    /\ pc = "idle"
    /\ current + 1 \in Calls
    /\ current' = current + 1
    /\ result' = Returned(current', "false")
    /\ UNCHANGED <<pc, elapsed, done, success, file, writeFailed, transfer>>

(* OpenFile appends instead of truncating.                                 *)
Bug_OpenTarget ==
    /\ pc = "idle"
    /\ current + 1 \in Calls
    /\ current' = current + 1
    /\ pc' = "start"
    /\ done' = FALSE /\ success' = FALSE
    /\ writeFailed' = FALSE
    /\ UNCHANGED <<elapsed, file, transfer, result>>

(* A new DownloadState, and OpenFile, which truncates.                     *)
OpenTarget ==
    /\ pc = "idle"
    /\ current + 1 \in Calls
    /\ current' = current + 1
    /\ pc' = "start"
    /\ done' = FALSE /\ success' = FALSE
    /\ file' = <<>>
    /\ writeFailed' = FALSE
    /\ UNCHANGED <<elapsed, transfer, result>>

(* httpc_get_file_dns: with ERR_OK a transfer is under way.                *)
StartTransfer ==
    /\ pc = "start"
    /\ \E b \in 0 .. SEGMENTS :
        transfer' = [transfer EXCEPT ![current] =
                        [NoTransfer EXCEPT !.status = "active", !.body = b]]
    /\ pc' = "wait"
    /\ elapsed' = 0
    /\ UNCHANGED <<current, done, success, file, writeFailed, result>>

StartFails ==
    /\ pc = "start"
    /\ pc' = "close"
    /\ result' = Returned(current, "false")
    /\ UNCHANGED <<current, elapsed, done, success, file, writeFailed, transfer>>

(* The end of the transfer taken for its success.                          *)
Bug_WaitSeesDone ==
    /\ pc = "wait"
    /\ done
    /\ pc' = "close"
    /\ result' = Returned(current, "true")
    /\ UNCHANGED <<current, elapsed, done, success, file, writeFailed, transfer>>

(* WaitForTransfer: done is read, then success; else the deadline.         *)
WaitSeesDone ==
    /\ pc = "wait"
    /\ done
    /\ pc' = "close"
    /\ result' = Returned(current, IF success THEN "true" ELSE "false")
    /\ UNCHANGED <<current, elapsed, done, success, file, writeFailed, transfer>>

WaitTimesOut ==
    /\ pc = "wait"
    /\ ~done
    /\ elapsed = TIMEOUT
    /\ pc' = "close"
    /\ result' = Returned(current, "timeout")
    /\ UNCHANGED <<current, elapsed, done, success, file, writeFailed, transfer>>

(* The deadline not looked at, and set anew in every round.                *)
Bug_WaitWithoutEnd ==
    /\ pc = "wait"
    /\ ~done
    /\ elapsed' = elapsed + 1
    /\ UNCHANGED <<current, pc, done, success, file, writeFailed, transfer, result>>

Bug_DeadlineRenewed ==
    /\ pc = "wait"
    /\ ~done
    /\ elapsed' = 0
    /\ UNCHANGED <<current, pc, done, success, file, writeFailed, transfer, result>>

WaitPolls ==
    /\ pc = "wait"
    /\ ~done
    /\ elapsed < TIMEOUT
    /\ elapsed' = elapsed + 1
    /\ UNCHANGED <<current, pc, done, success, file, writeFailed, transfer, result>>

(* CloseFile, whose result is not looked at: when it fails, the end of     *)
(* what was written may not have reached the target.                       *)
CloseTarget ==
    /\ pc = "close"
    /\ pc' = "idle"
    /\ \/ UNCHANGED <<file, writeFailed>>
       \/ /\ \E n \in 0 .. Len(file) - 1 : file' = SubSeq(file, 1, n)
          /\ writeFailed' = TRUE
    /\ UNCHANGED <<current, elapsed, done, success, transfer, result>>

Caller ==
    \/ OpenTarget \/ CallFails \/ StartTransfer \/ StartFails
    \/ WaitSeesDone \/ WaitTimesOut \/ WaitPolls \/ CloseTarget

(* A call that has begun takes its steps.                                  *)
CallerInCall == pc # "idle" /\ Caller

-----------------------------------------------------------------------------
(* The callbacks, on the TCP/IP task.  Frames(k): what the DownloadState   *)
(* pointer of call k's transfer may denote now.                            *)

Frames(k) ==
    IF pc = "idle" THEN {"dead"}
    ELSE IF k = current THEN {"live"}
    ELSE {"dead", "live"}

(* BodyReceived; the result of WriteFile is not looked at.                 *)
BodyReceived(k) ==
    /\ transfer[k].status = "active"
    /\ transfer[k].delivered < transfer[k].body
    /\ transfer' = [transfer EXCEPT ![k].delivered = @ + 1]
    /\ \/ "dead" \in Frames(k) /\ UNCHANGED <<file, writeFailed>>
       \/ "live" \in Frames(k) /\ file' = Append(file, k) /\ UNCHANGED writeFailed
       \/ "live" \in Frames(k) /\ writeFailed' = TRUE /\ UNCHANGED file
    /\ UNCHANGED <<callerVars, done, success>>

(* done stored first.                                                      *)
Bug_TransferFinished(k) ==
    /\ transfer[k].status = "active"
    /\ \E ok \in BOOLEAN :
        /\ ok => transfer[k].delivered = transfer[k].body
        /\ transfer' = [transfer EXCEPT ![k].status = "finishing", ![k].ok = ok]
        /\ \/ "live" \in Frames(k) /\ done' = TRUE
           \/ "dead" \in Frames(k) /\ UNCHANGED done
    /\ UNCHANGED <<callerVars, success, file, writeFailed>>

(* TransferFinished: success is stored before done.  lwIP reports success  *)
(* once the announced body is complete, or an error at any time.           *)
TransferFinished(k) ==
    /\ transfer[k].status = "active"
    /\ \E ok \in BOOLEAN :
        /\ ok => transfer[k].delivered = transfer[k].body
        /\ transfer' = [transfer EXCEPT ![k].status = "finishing", ![k].ok = ok]
        /\ \/ "live" \in Frames(k) /\ success' = ok
           \/ "dead" \in Frames(k) /\ UNCHANGED success
    /\ UNCHANGED <<callerVars, done, file, writeFailed>>

StoreDone(k) ==
    /\ transfer[k].status = "finishing"
    /\ transfer' = [transfer EXCEPT ![k].status = "over"]
    /\ \/ "live" \in Frames(k) /\ done' = TRUE
       \/ "dead" \in Frames(k) /\ UNCHANGED done
    /\ UNCHANGED <<callerVars, success, file, writeFailed>>

Callback(k) == BodyReceived(k) \/ TransferFinished(k) \/ StoreDone(k)

Next == Caller \/ \E k \in Calls : Callback(k)

Spec == Init /\ [][Next]_vars

(* The caller is scheduled; nothing is asked of the network.               *)
FairSpec == Spec /\ WF_vars(CallerInCall)

-----------------------------------------------------------------------------
(* Properties.                                                             *)

Orphaned(k) == transfer[k].status \in {"active", "finishing"} /\ (k # current \/ pc # "wait")

OwnBody(k) == [i \in 1 .. transfer[k].body |-> k]

StaleTransfer == \E k \in Calls : k < current /\ result[k] = "timeout"

(* A call that waited and saw the end of a transfer returns what became of *)
(* its own, and never before both flags of the DownloadState are stored,   *)
(* unless an earlier call timed out and left a transfer behind.            *)
VerdictIsTransfers ==
    pc = "close" /\ transfer[current].status # "none" /\ ~StaleTransfer =>
        /\ result[current] = "true" => transfer[current].ok
        /\ result[current] = "false" => ~transfer[current].ok
        /\ result[current] # "timeout" => transfer[current].status = "over"

(* From the verdict true on, and once the call has returned, the file      *)
(* holds exactly its body, from the first segment to the last, unless a    *)
(* write or the close failed unseen or an earlier call timed out.          *)
TrueMeansStored ==
    pc \in {"close", "idle"} /\ current # 0 /\ ~writeFailed =>
        (result[current] = "true" => StaleTransfer \/ file = OwnBody(current))

(* Only a timeout leaves a transfer behind, its own or, through a late     *)
(* TransferFinished, that of the calls after it: before the first timeout  *)
(* no transfer outlives the wait for it.                                   *)
OrphansComeFromTimeouts ==
    \A k \in Calls : Orphaned(k) => \E j \in 1 .. k : result[j] = "timeout"

(* The call returns whatever the network does.                             *)
CallReturns == (pc # "idle") ~> (pc = "idle")

(* "it returns only once the transfer has finished or failed"              *)
(* (HttpClient.h:30).                                                      *)
ReturnsOnlyWhenOver ==
    pc = "idle" /\ current # 0 => transfer[current].status \in {"none", "over"}

=============================================================================
