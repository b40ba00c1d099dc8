------------------------- MODULE LwipDownload_proofs -------------------------
(***************************************************************************)
(* Proofs about the RP2040's download: for every number of calls, every    *)
(* length of body and every timeout, whatever callbacks come too late.     *)
(***************************************************************************)
EXTENDS LwipDownload, SequenceTheorems, TLAPS

(* Calls are made one after the other; none has a transfer or a verdict    *)
(* before its time.                                                        *)
Phases ==
    /\ current = 0 => pc = "idle"
    /\ pc = "start" => transfer[current].status = "none"
    /\ pc = "wait" => transfer[current].status # "none"
    /\ pc = "close" => result[current] # "none"
    /\ \A k \in Calls :
        /\ k > current => transfer[k].status = "none"
        /\ k > current \/ (k = current /\ pc \in {"start", "wait"}) => result[k] = "none"

(* A transfer reports success at its end only, with the body complete.     *)
OkMeansComplete ==
    \A k \in Calls : transfer[k].ok =>
        /\ transfer[k].status \in {"finishing", "over"}
        /\ transfer[k].delivered = transfer[k].body

(* The segments of call k, the first n of them.                            *)
Prefix(k, n) == [i \in 1 .. n |-> k]

(* While no earlier call has timed out nobody but the call's own transfer  *)
(* writes its DownloadState and its file.                                  *)
Undisturbed ==
    ~StaleTransfer =>
        /\ pc = "start" => ~done /\ file = <<>>
        /\ pc = "wait" =>
            /\ done => transfer[current].status = "over"
            /\ transfer[current].status \in {"finishing", "over"} =>
                    (success <=> transfer[current].ok)
            /\ ~writeFailed => file = Prefix(current, transfer[current].delivered)
        /\ pc \in {"close", "idle"} /\ current # 0 /\ result[current] = "true" =>
            /\ transfer[current].status = "over" /\ transfer[current].ok
            /\ ~writeFailed => file = OwnBody(current)
        /\ pc = "close" /\ result[current] = "false" =>
            transfer[current].status \in {"none", "over"} /\ ~transfer[current].ok

(* The inductive invariant.                                                *)
IInv ==
    /\ TypeOK /\ Phases /\ OkMeansComplete
    /\ Undisturbed /\ OrphansComeFromTimeouts

-----------------------------------------------------------------------------
TransferType == [status : Statuses, body : 0 .. SEGMENTS, delivered : 0 .. SEGMENTS, ok : BOOLEAN]

(* A file grown by one segment of its call.                                *)
LEMMA AppendToPrefix ==
    ASSUME NEW k, NEW n \in Nat
    PROVE  /\ Prefix(k, 0) = <<>>
           /\ Append(Prefix(k, n), k) = Prefix(k, n + 1)
  BY DEF Prefix

LEMMA NoTransferType == NoTransfer \in TransferType
  BY BoundAssumption DEF NoTransfer, TransferType, Statuses

(* Calls are numbered from one.                                            *)
LEMMA CallNumbers ==
    /\ Calls \subseteq Nat \ {0}
    /\ \A k \in Calls : k \in 1 .. k /\ 1 .. k \subseteq Calls
  BY BoundAssumption DEF Calls

LEMMA InitIInv == Init => IInv
<1> SUFFICES ASSUME Init PROVE IInv
  OBVIOUS
<1>1. TypeOK
  <2>1. 0 \in 0 .. TIMEOUT
    BY BoundAssumption
  <2>2. transfer \in [Calls -> TransferType]
    BY NoTransferType DEF Init
  <2> QED
    <3>1. /\ file \in Seq(Calls) /\ current \in Calls \cup {0}
          /\ pc \in {"idle", "start", "wait", "close"}
          /\ result \in [Calls -> {"none", "true", "false", "timeout"}]
      BY DEF Init
    <3>2. done \in BOOLEAN /\ success \in BOOLEAN /\ writeFailed \in BOOLEAN
      BY DEF Init
    <3>3. elapsed \in 0 .. TIMEOUT
      BY <2>1 DEF Init
    <3> QED
      BY <2>2, <3>1, <3>2, <3>3 DEF TypeOK, TransferType
<1>2. Phases /\ OkMeansComplete /\ Undisturbed /\ OrphansComeFromTimeouts
  BY DEF Init, NoTransfer, Phases, OkMeansComplete, Undisturbed, OrphansComeFromTimeouts, Orphaned
<1> QED
  BY <1>1, <1>2 DEF IInv

-----------------------------------------------------------------------------
(* The caller.                                                             *)

(* Opening a call, or failing to: the verdicts and the transfers of the    *)
(* calls before stay as they are.                                          *)
LEMMA OpenIInv ==
    ASSUME IInv, CallFails \/ OpenTarget
    PROVE  IInv'
<1>1. /\ pc = "idle" /\ current' = current + 1 /\ current' \in Calls /\ current \in Int
      /\ UNCHANGED <<elapsed, transfer>>
      /\ result \in [Calls -> {"none", "true", "false", "timeout"}]
  <2>1. current \in Int
    BY CallNumbers DEF IInv, TypeOK
  <2> QED
    BY <2>1 DEF CallFails, OpenTarget, IInv, TypeOK
<1>2. CASE CallFails
  <2>1. /\ result' = [result EXCEPT ![current'] = "false"] /\ pc' = "idle"
        /\ UNCHANGED <<done, success, file, writeFailed>>
    BY <1>1, <1>2 DEF CallFails, Returned
  <2>2. TypeOK'
    BY <1>1, <2>1 DEF IInv, TypeOK
  <2>3. result[current'] = "none"
    BY <1>1 DEF IInv, Phases
  <2>4. /\ \A k \in Calls \ {current'} : result'[k] = result[k]
        /\ current' > current
    BY <1>1, <2>1
  <2>5. Phases'
    BY <1>1, <2>1, <2>4 DEF IInv, Phases, Calls
  <2>6. OkMeansComplete' /\ Undisturbed'
    <3>1. result'[current'] = "false"
      BY <1>1, <2>1
    <3> QED
      BY <1>1, <2>1, <3>1 DEF IInv, OkMeansComplete, Undisturbed
  <2>7. OrphansComeFromTimeouts'
    <3> SUFFICES ASSUME NEW k \in Calls, Orphaned(k)'
                 PROVE  \E j \in 1 .. k : result'[j] = "timeout"
      BY DEF OrphansComeFromTimeouts
    <3>1. Orphaned(k)
      BY <1>1 DEF Orphaned
    <3>2. PICK j \in 1 .. k : result[j] = "timeout"
      BY <3>1 DEF IInv, OrphansComeFromTimeouts
    <3> QED
      BY <2>3, <2>4, <3>2, CallNumbers
  <2> QED
    BY <2>2, <2>5, <2>6, <2>7 DEF IInv
<1>3. CASE OpenTarget
  <2>1. /\ pc' = "start" /\ ~done' /\ ~success' /\ ~writeFailed' /\ file' = <<>> /\ UNCHANGED result
        /\ done' \in BOOLEAN /\ success' \in BOOLEAN /\ writeFailed' \in BOOLEAN
    BY <1>3 DEF OpenTarget
  <2>2. TypeOK'
    BY <1>1, <2>1 DEF IInv, TypeOK
  <2>3. Phases'
    BY <1>1, <2>1 DEF IInv, Phases, Calls
  <2>4. OkMeansComplete' /\ Undisturbed'
    BY <1>1, <2>1 DEF IInv, OkMeansComplete, Undisturbed
  <2>5. OrphansComeFromTimeouts'
    BY <1>1, <2>1 DEF IInv, OrphansComeFromTimeouts, Orphaned
  <2> QED
    BY <2>2, <2>3, <2>4, <2>5 DEF IInv
<1> QED
  BY <1>2, <1>3

(* Within a call no earlier call's verdict changes.                        *)
LEMMA SameStale ==
    ASSUME TypeOK, current' = current,
           \A k \in Calls \ {current} : result'[k] = result[k]
    PROVE  StaleTransfer' <=> StaleTransfer
<1>1. \A k \in Calls : k < current => k \in Calls \ {current}
  BY CallNumbers DEF TypeOK
<1> QED
  BY <1>1 DEF StaleTransfer

LEMMA StartIInv ==
    ASSUME IInv, StartTransfer
    PROVE  IInv'
<1>1. PICK b \in 0 .. SEGMENTS :
        transfer' = [transfer EXCEPT ![current] = [NoTransfer EXCEPT !.status = "active", !.body = b]]
  BY DEF StartTransfer
<1> DEFINE n == [NoTransfer EXCEPT !.status = "active", !.body = b]
<1>2. /\ n \in TransferType
      /\ n.status = "active" /\ n.delivered = 0 /\ ~n.ok
  BY NoTransferType DEF NoTransfer, TransferType, Statuses
<1>3. transfer' = [transfer EXCEPT ![current] = n]
  BY <1>1
<1> HIDE DEF n
<1>4. /\ pc = "start" /\ pc' = "wait" /\ elapsed' = 0
      /\ UNCHANGED <<current, done, success, file, writeFailed, result>>
      /\ current \in Calls
      /\ transfer \in [Calls -> TransferType]
  BY DEF StartTransfer, IInv, TypeOK, Phases, TransferType
<1>5. /\ transfer' \in [Calls -> TransferType] /\ transfer'[current] = n
      /\ \A k \in Calls \ {current} : transfer'[k] = transfer[k]
  BY <1>2, <1>3, <1>4
<1>6. TypeOK'
  <2>1. 0 \in 0 .. TIMEOUT
    BY BoundAssumption
  <2> QED
    BY <1>4, <1>5, <2>1 DEF IInv, TypeOK, TransferType
<1>7. Phases'
  BY <1>2, <1>4, <1>5 DEF IInv, Phases, Calls
<1>8. OkMeansComplete'
  BY <1>2, <1>4, <1>5 DEF IInv, OkMeansComplete
<1>9. Undisturbed'
  <2>1. StaleTransfer' <=> StaleTransfer
    BY <1>4, SameStale DEF IInv
  <2>2. Prefix(current, 0) = <<>>
    BY AppendToPrefix
  <2> QED
    BY <1>2, <1>4, <1>5, <2>1, <2>2 DEF IInv, Undisturbed, Prefix
<1>10. OrphansComeFromTimeouts'
  BY <1>4, <1>5 DEF IInv, OrphansComeFromTimeouts, Orphaned
<1> QED
  BY <1>6, <1>7, <1>8, <1>9, <1>10 DEF IInv

(* The call settles its verdict.                                           *)
LEMMA VerdictIInv ==
    ASSUME IInv, StartFails \/ WaitSeesDone \/ WaitTimesOut
    PROVE  IInv'
<1>1. PICK r \in {"true", "false", "timeout"} : result' = [result EXCEPT ![current] = r]
  BY DEF StartFails, WaitSeesDone, WaitTimesOut, Returned
<1>2. /\ pc \in {"start", "wait"} /\ pc' = "close" /\ current \in Calls
      /\ UNCHANGED <<current, elapsed, done, success, file, writeFailed, transfer>>
      /\ result \in [Calls -> {"none", "true", "false", "timeout"}]
  BY DEF StartFails, WaitSeesDone, WaitTimesOut, IInv, TypeOK, Phases
<1>3. /\ result' \in [Calls -> {"none", "true", "false", "timeout"}]
      /\ result'[current] = r
      /\ \A k \in Calls \ {current} : result'[k] = result[k]
  BY <1>1, <1>2
<1>4. TypeOK'
  BY <1>2, <1>3 DEF IInv, TypeOK
<1>5. StaleTransfer' <=> StaleTransfer
  BY <1>2, <1>3, SameStale DEF IInv
<1>6. Phases'
  BY <1>2, <1>3 DEF IInv, Phases, Calls
<1>7. OkMeansComplete'
  BY <1>2 DEF IInv, OkMeansComplete
<1>8. Undisturbed'
  <2>1. CASE StartFails
    <3>1. result'[current] = "false" /\ transfer[current].status = "none"
      BY <1>2, <2>1 DEF StartFails, Returned, IInv, Phases
    <3> QED
      BY <1>2, <3>1 DEF IInv, Undisturbed, OkMeansComplete
  <2>2. CASE WaitSeesDone
    <3>1. done /\ pc = "wait" /\ result'[current] = IF success THEN "true" ELSE "false"
      BY <1>2, <2>2 DEF WaitSeesDone, Returned
    <3>2. ~StaleTransfer =>
            /\ transfer[current].status = "over" /\ (success <=> transfer[current].ok)
            /\ ~writeFailed => file = Prefix(current, transfer[current].delivered)
      BY <3>1 DEF IInv, Undisturbed
    <3>3. transfer[current].ok => transfer[current].delivered = transfer[current].body
      BY <1>2 DEF IInv, OkMeansComplete
    <3>4. ~StaleTransfer /\ ~writeFailed /\ transfer[current].ok => file = OwnBody(current)
      BY <3>2, <3>3 DEF Prefix, OwnBody
    <3>5. OwnBody(current)' = OwnBody(current)
      BY <1>2 DEF OwnBody
    <3>6. success => result'[current] = "true"
      BY <3>1
    <3>7. ~success => result'[current] = "false"
      BY <3>1
    <3> QED
      BY <1>2, <1>5, <3>2, <3>4, <3>5, <3>6, <3>7 DEF Undisturbed
  <2>3. CASE WaitTimesOut
    <3>1. result'[current] = "timeout"
      BY <1>2, <2>3 DEF WaitTimesOut, Returned
    <3> QED
      BY <1>2, <3>1 DEF Undisturbed
  <2> QED
    BY <2>1, <2>2, <2>3
<1>9. OrphansComeFromTimeouts'
  <2> SUFFICES ASSUME NEW k \in Calls, Orphaned(k)'
               PROVE  \E j \in 1 .. k : result'[j] = "timeout"
    BY DEF OrphansComeFromTimeouts
  <2>1. result[current] = "none"
    BY <1>2 DEF IInv, Phases
  <2>2. CASE Orphaned(k)
    <3>1. PICK j \in 1 .. k : result[j] = "timeout"
      BY <2>2 DEF IInv, OrphansComeFromTimeouts
    <3> QED
      BY <1>3, <2>1, <3>1, CallNumbers
  <2>3. CASE ~Orphaned(k)
    <3>1. k = current /\ pc = "wait" /\ transfer[k].status # "over"
      BY <1>2, <2>3 DEF Orphaned
    <3>2. CASE WaitTimesOut
      <4>1. result'[current] = "timeout" /\ current \in 1 .. k
        BY <1>2, <3>1, <3>2 DEF WaitTimesOut, Returned, Calls
      <4> QED
        BY <4>1
    <3>3. CASE WaitSeesDone
      <4>1. StaleTransfer
        BY <3>1, <3>3 DEF WaitSeesDone, IInv, Undisturbed
      <4>2. PICK j \in Calls : j < current /\ result[j] = "timeout"
        BY <4>1 DEF StaleTransfer
      <4>3. j \in 1 .. k /\ result'[j] = "timeout"
        BY <1>2, <1>3, <3>1, <4>2 DEF Calls
      <4> QED
        BY <4>3
    <3> QED
      BY <3>1, <3>2, <3>3 DEF StartFails
  <2> QED
    BY <2>2, <2>3
<1> QED
  BY <1>4, <1>6, <1>7, <1>8, <1>9 DEF IInv

LEMMA PollIInv ==
    ASSUME IInv, WaitPolls
    PROVE  IInv'
<1>1. /\ UNCHANGED <<current, done, success, file, writeFailed, transfer, result>>
      /\ pc = "wait" /\ pc' = "wait"
  BY DEF WaitPolls
<1>2. elapsed' \in 0 .. TIMEOUT
  BY BoundAssumption DEF WaitPolls, IInv, TypeOK
<1>3. TypeOK'
  BY <1>1, <1>2 DEF IInv, TypeOK
<1>4. Phases' /\ OkMeansComplete'
  BY <1>1 DEF IInv, Phases, OkMeansComplete
<1>5. Undisturbed'
  BY <1>1 DEF IInv, Undisturbed, StaleTransfer, OwnBody, Prefix
<1>6. OrphansComeFromTimeouts'
  BY <1>1 DEF IInv, OrphansComeFromTimeouts, Orphaned
<1> QED
  BY <1>3, <1>4, <1>5, <1>6 DEF IInv

(* The end of the call: the file as it is, or a close that failed.         *)
LEMMA CloseIInv ==
    ASSUME IInv, CloseTarget
    PROVE  IInv'
<1>1. /\ UNCHANGED <<current, elapsed, done, success, transfer, result>>
      /\ pc = "close" /\ pc' = "idle"
      /\ current \in Calls
  BY DEF CloseTarget, IInv, TypeOK, Phases
<1>2. /\ file' \in Seq(Calls) /\ writeFailed' \in BOOLEAN
      /\ ~writeFailed' => ~writeFailed /\ file' = file
  <2>1. file \in Seq(Calls) /\ writeFailed \in BOOLEAN
    BY DEF IInv, TypeOK
  <2>2. CASE UNCHANGED <<file, writeFailed>>
    BY <2>1, <2>2
  <2>3. CASE writeFailed' = TRUE /\ \E n \in 0 .. Len(file) - 1 : file' = SubSeq(file, 1, n)
    <3>1. PICK n \in 0 .. Len(file) - 1 : file' = SubSeq(file, 1, n)
      BY <2>3
    <3>2. n \in Nat /\ n <= Len(file) /\ \A i \in 1 .. n : file[i] \in Calls
      BY <2>1
    <3> QED
      BY <2>1, <2>3, <3>1, <3>2
  <2> QED
    BY <2>2, <2>3 DEF CloseTarget
<1>3. TypeOK'
  BY <1>1, <1>2 DEF IInv, TypeOK
<1>4. Phases' /\ OkMeansComplete'
  BY <1>1 DEF IInv, Phases, OkMeansComplete
<1>5. Undisturbed'
  BY <1>1, <1>2, CallNumbers DEF IInv, Undisturbed, StaleTransfer, OwnBody, Prefix
<1>6. OrphansComeFromTimeouts'
  BY <1>1 DEF IInv, OrphansComeFromTimeouts, Orphaned
<1> QED
  BY <1>3, <1>4, <1>5, <1>6 DEF IInv

-----------------------------------------------------------------------------
(* The callbacks.                                                          *)

(* Whose callback it can be: without an earlier timeout, that of the call  *)
(* that waits, and it has the live DownloadState; or that of a call which  *)
(* itself timed out and has returned its verdict.                          *)
LEMMA WhoCallsBack ==
    ASSUME IInv, NEW k \in Calls, transfer[k].status \in {"active", "finishing"},
           ~StaleTransfer
    PROVE  /\ k = current
           /\ \/ pc = "wait" /\ Frames(k) = {"live"}
              \/ pc \in {"idle", "close"} /\ result[current] = "timeout"
<1>1. k = current
  <2>1. SUFFICES ASSUME k # current PROVE FALSE
    OBVIOUS
  <2>2. k < current
    <3>1. ~(k > current) /\ k \in Int /\ current \in Int
      BY CallNumbers DEF IInv, TypeOK, Phases
    <3> QED
      BY <2>1, <3>1
  <2>3. PICK j \in 1 .. k : result[j] = "timeout"
    BY <2>1 DEF IInv, OrphansComeFromTimeouts, Orphaned
  <2>4. j \in Calls /\ j < current
    BY <2>2, <2>3, CallNumbers DEF IInv, TypeOK
  <2> QED
    BY <2>3, <2>4 DEF StaleTransfer
<1>2. CASE pc = "wait"
  BY <1>1, <1>2 DEF Frames
<1>3. CASE pc # "wait"
  <2>1. PICK j \in 1 .. k : result[j] = "timeout"
    BY <1>3 DEF IInv, OrphansComeFromTimeouts, Orphaned
  <2>2. j \in Calls /\ (j < current \/ j = current)
    BY <1>1, <2>1, CallNumbers
  <2>3. result[current] = "timeout"
    BY <2>1, <2>2 DEF StaleTransfer
  <2>4. pc # "start"
    BY <1>1 DEF IInv, Phases
  <2> QED
    BY <1>1, <1>3, <2>3, <2>4 DEF IInv, TypeOK
<1> QED
  BY <1>1, <1>2, <1>3

(* What no callback disturbs: the caller's own variables, and the other    *)
(* calls' transfers.                                                       *)
LEMMA CallbackFrame ==
    ASSUME IInv, NEW k \in Calls, UNCHANGED callerVars,
           transfer[k].status \in {"active", "finishing"},
           transfer' \in [Calls -> TransferType],
           \A j \in Calls \ {k} : transfer'[j] = transfer[j],
           transfer'[k].status \in {"active", "finishing", "over"},
           done' \in BOOLEAN, success' \in BOOLEAN, writeFailed' \in BOOLEAN,
           file' \in Seq(Calls)
    PROVE  /\ TypeOK' /\ Phases' /\ OrphansComeFromTimeouts'
           /\ UNCHANGED <<current, pc, elapsed, result>>
           /\ StaleTransfer' <=> StaleTransfer
<1>1. UNCHANGED <<current, pc, elapsed, result>>
  BY DEF callerVars
<1>2. TypeOK'
  BY <1>1 DEF IInv, TypeOK, TransferType
<1>3. Phases'
  <2>1. \A j \in Calls : transfer'[j].status = "none" <=> transfer[j].status = "none"
    OBVIOUS
  <2>2. current \in Calls \/ pc = "idle"
    BY DEF IInv, TypeOK, Phases
  <2> QED
    BY <1>1, <2>1, <2>2 DEF IInv, Phases
<1>4. OrphansComeFromTimeouts'
  <2>1. \A j \in Calls : Orphaned(j)' => Orphaned(j)
    BY <1>1 DEF Orphaned
  <2> QED
    BY <1>1, <2>1 DEF IInv, OrphansComeFromTimeouts
<1>5. StaleTransfer' <=> StaleTransfer
  BY <1>1 DEF StaleTransfer
<1> QED
  BY <1>1, <1>2, <1>3, <1>4, <1>5

LEMMA BodyIInv ==
    ASSUME IInv, NEW k \in Calls, BodyReceived(k)
    PROVE  IInv'
<1> DEFINE n == transfer[k].delivered
<1>1. /\ transfer \in [Calls -> TransferType] /\ transfer[k] \in TransferType
      /\ n \in Nat /\ n + 1 \in 0 .. SEGMENTS /\ transfer[k].status = "active"
      /\ transfer' = [transfer EXCEPT ![k] = [transfer[k] EXCEPT !.delivered = n + 1]]
  BY BoundAssumption DEF BodyReceived, IInv, TypeOK, TransferType
<1>2. /\ transfer' \in [Calls -> TransferType]
      /\ \A j \in Calls \ {k} : transfer'[j] = transfer[j]
      /\ transfer'[k].status = "active" /\ transfer'[k].delivered = n + 1
      /\ transfer'[k].body = transfer[k].body /\ transfer'[k].ok = transfer[k].ok
  BY <1>1 DEF TransferType
<1>3. UNCHANGED <<callerVars, done, success>>
  BY DEF BodyReceived
<1>4. \/ UNCHANGED <<file, writeFailed>> /\ "dead" \in Frames(k)
      \/ file' = Append(file, k) /\ UNCHANGED writeFailed
      \/ writeFailed' = TRUE /\ UNCHANGED file
  BY DEF BodyReceived
<1>5. file' \in Seq(Calls)
  <2>1. file \in Seq(Calls) /\ Append(file, k) \in Seq(Calls)
    BY DEF IInv, TypeOK
  <2> QED
    BY <1>4, <2>1
<1>6. writeFailed' \in BOOLEAN
  BY <1>4 DEF IInv, TypeOK
<1>7. /\ TypeOK' /\ Phases' /\ OrphansComeFromTimeouts'
      /\ UNCHANGED <<current, pc, elapsed, result>>
      /\ StaleTransfer' <=> StaleTransfer
  BY <1>1, <1>2, <1>3, <1>5, <1>6, CallbackFrame DEF IInv, TypeOK
<1>8. ~transfer[k].ok
  BY <1>1 DEF IInv, OkMeansComplete
<1>9. OkMeansComplete'
  BY <1>2, <1>8 DEF IInv, OkMeansComplete
<1>10. Undisturbed'
  <2> SUFFICES ASSUME ~StaleTransfer PROVE Undisturbed'
    BY <1>7 DEF Undisturbed
  <2>1. k = current
    BY <1>1, WhoCallsBack
  <2>2. CASE pc = "wait" /\ Frames(k) = {"live"}
    <3>1. ~writeFailed' => file' = Append(file, k) /\ ~writeFailed
      BY <1>4, <2>2
    <3>2. ~writeFailed => file = Prefix(current, n)
      BY <2>1, <2>2 DEF IInv, Undisturbed
    <3>3. ~writeFailed' => file' = Prefix(current, n + 1)
      BY <1>1, <2>1, <3>1, <3>2, AppendToPrefix
    <3>4. ~done
      BY <1>1, <2>1, <2>2 DEF IInv, Undisturbed
    <3> QED
      BY <1>2, <1>3, <1>7, <2>1, <2>2, <3>3, <3>4 DEF Undisturbed, Prefix
  <2>3. CASE pc \in {"idle", "close"} /\ result[current] = "timeout"
    BY <1>7, <2>3 DEF Undisturbed
  <2> QED
    BY <1>1, <2>2, <2>3, WhoCallsBack
<1> QED
  BY <1>7, <1>9, <1>10 DEF IInv

LEMMA FinishedIInv ==
    ASSUME IInv, NEW k \in Calls, TransferFinished(k)
    PROVE  IInv'
<1>1. PICK ok \in BOOLEAN :
        /\ ok => transfer[k].delivered = transfer[k].body
        /\ transfer' = [transfer EXCEPT ![k].status = "finishing", ![k].ok = ok]
        /\ \/ "live" \in Frames(k) /\ success' = ok
           \/ "dead" \in Frames(k) /\ UNCHANGED success
  BY DEF TransferFinished
<1>2. /\ transfer \in [Calls -> TransferType] /\ transfer[k] \in TransferType
      /\ transfer[k].status = "active"
  BY DEF TransferFinished, IInv, TypeOK, TransferType
<1>3. /\ transfer' \in [Calls -> TransferType]
      /\ \A j \in Calls \ {k} : transfer'[j] = transfer[j]
      /\ transfer'[k].status = "finishing" /\ transfer'[k].delivered = transfer[k].delivered
      /\ transfer'[k].body = transfer[k].body /\ transfer'[k].ok = ok
  BY <1>1, <1>2 DEF TransferType, Statuses
<1>4. UNCHANGED <<callerVars, done, file, writeFailed>>
  BY DEF TransferFinished
<1>5. success' \in BOOLEAN
  BY <1>1 DEF IInv, TypeOK
<1>6. /\ TypeOK' /\ Phases' /\ OrphansComeFromTimeouts'
      /\ UNCHANGED <<current, pc, elapsed, result>>
      /\ StaleTransfer' <=> StaleTransfer
  BY <1>2, <1>3, <1>4, <1>5, CallbackFrame DEF IInv, TypeOK
<1>7. OkMeansComplete'
  BY <1>1, <1>3 DEF IInv, OkMeansComplete
<1>8. Undisturbed'
  <2> SUFFICES ASSUME ~StaleTransfer PROVE Undisturbed'
    BY <1>6 DEF Undisturbed
  <2>1. k = current
    BY <1>2, WhoCallsBack
  <2>2. CASE pc = "wait" /\ Frames(k) = {"live"}
    <3>1. success' = ok
      BY <1>1, <2>2
    <3>2. ~done /\ (~writeFailed => file = Prefix(current, transfer[current].delivered))
      BY <1>2, <2>1, <2>2 DEF IInv, Undisturbed
    <3> QED
      BY <1>3, <1>4, <1>6, <2>1, <2>2, <3>1, <3>2 DEF Undisturbed, Prefix
  <2>3. CASE pc \in {"idle", "close"} /\ result[current] = "timeout"
    BY <1>6, <2>3 DEF Undisturbed
  <2> QED
    BY <1>2, <2>2, <2>3, WhoCallsBack
<1> QED
  BY <1>6, <1>7, <1>8 DEF IInv

LEMMA DoneIInv ==
    ASSUME IInv, NEW k \in Calls, StoreDone(k)
    PROVE  IInv'
<1>1. /\ transfer \in [Calls -> TransferType] /\ transfer[k] \in TransferType
      /\ transfer[k].status = "finishing"
      /\ transfer' = [transfer EXCEPT ![k] = [transfer[k] EXCEPT !.status = "over"]]
  BY DEF StoreDone, IInv, TypeOK, TransferType
<1>2. /\ transfer' \in [Calls -> TransferType]
      /\ \A j \in Calls \ {k} : transfer'[j] = transfer[j]
      /\ transfer'[k].status = "over" /\ transfer'[k].delivered = transfer[k].delivered
      /\ transfer'[k].body = transfer[k].body /\ transfer'[k].ok = transfer[k].ok
  BY <1>1 DEF TransferType, Statuses
<1>3. UNCHANGED <<callerVars, success, file, writeFailed>>
  BY DEF StoreDone
<1>4. done' \in BOOLEAN
  BY DEF StoreDone, IInv, TypeOK
<1>5. /\ TypeOK' /\ Phases' /\ OrphansComeFromTimeouts'
      /\ UNCHANGED <<current, pc, elapsed, result>>
      /\ StaleTransfer' <=> StaleTransfer
  BY <1>1, <1>2, <1>3, <1>4, CallbackFrame DEF IInv, TypeOK
<1>6. OkMeansComplete'
  BY <1>2 DEF IInv, OkMeansComplete
<1>7. Undisturbed'
  <2> SUFFICES ASSUME ~StaleTransfer PROVE Undisturbed'
    BY <1>5 DEF Undisturbed
  <2>1. k = current
    BY <1>1, WhoCallsBack
  <2>2. CASE pc = "wait" /\ Frames(k) = {"live"}
    <3>1. /\ success <=> transfer[current].ok
          /\ ~writeFailed => file = Prefix(current, transfer[current].delivered)
      BY <1>1, <2>1, <2>2 DEF IInv, Undisturbed
    <3> QED
      BY <1>2, <1>3, <1>5, <2>1, <2>2, <3>1 DEF Undisturbed, Prefix
  <2>3. CASE pc \in {"idle", "close"} /\ result[current] = "timeout"
    BY <1>5, <2>3 DEF Undisturbed
  <2> QED
    BY <1>1, <2>2, <2>3, WhoCallsBack
<1> QED
  BY <1>5, <1>6, <1>7 DEF IInv

LEMMA Inductive == Spec => []IInv
<1>1. IInv /\ [Next]_vars => IInv'
  <2> SUFFICES ASSUME IInv, [Next]_vars PROVE IInv'
    OBVIOUS
  <2>1. CASE Caller
    BY <2>1, OpenIInv, StartIInv, VerdictIInv, PollIInv, CloseIInv DEF Caller
  <2>2. CASE \E k \in Calls : Callback(k)
    BY <2>2, BodyIInv, FinishedIInv, DoneIInv DEF Callback
  <2>3. CASE UNCHANGED vars
    BY <2>3 DEF vars, IInv, TypeOK, Phases, OkMeansComplete, Undisturbed, StaleTransfer,
       OwnBody, Prefix, OrphansComeFromTimeouts, Orphaned
  <2> QED
    BY <2>1, <2>2, <2>3 DEF Next
<1> QED
  BY <1>1, InitIInv, PTL DEF Spec

-----------------------------------------------------------------------------
(* The theorems.                                                           *)

(* Every variable keeps its type, whatever a late callback writes.         *)
THEOREM TypesCorrect == Spec => []TypeOK
  BY Inductive, PTL DEF IInv

(* A call that saw the end of its transfer says what became of it, unless  *)
(* an earlier call timed out.                                              *)
THEOREM VerdictsAreTransfers == Spec => []VerdictIsTransfers
<1>1. IInv => VerdictIsTransfers
  <2> SUFFICES ASSUME IInv, pc = "close", transfer[current].status # "none", ~StaleTransfer
               PROVE  /\ result[current] = "true" => transfer[current].ok
                      /\ result[current] = "false" => ~transfer[current].ok
                      /\ result[current] # "timeout" => transfer[current].status = "over"
    BY DEF VerdictIsTransfers
  <2>1. current \in Calls /\ current # 0 /\ result[current] \in {"true", "false", "timeout"}
    BY CallNumbers DEF IInv, TypeOK, Phases
  <2> QED
    BY <2>1 DEF IInv, Undisturbed
<1> QED
  BY <1>1, Inductive, PTL

(* A true result means that the file holds exactly the call's own body.    *)
THEOREM TrueStored == Spec => []TrueMeansStored
<1>1. IInv => TrueMeansStored
  <2> SUFFICES ASSUME IInv, pc \in {"close", "idle"}, current # 0, ~writeFailed,
                      result[current] = "true", ~StaleTransfer
               PROVE  file = OwnBody(current)
    BY DEF TrueMeansStored
  <2> QED
    BY DEF IInv, Undisturbed
<1> QED
  BY <1>1, Inductive, PTL

(* Before the first timeout no transfer outlives the wait for it.          *)
THEOREM OrphansOnlyFromTimeouts == Spec => []OrphansComeFromTimeouts
  BY Inductive, PTL DEF IInv

===============================================================================
