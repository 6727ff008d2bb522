----------------------------- MODULE LogReader -----------------------------
(***************************************************************************)
(* How the UI reads the driver's log: DriverWorker (driverworker.cpp) has  *)
(* a thread that waits in GETLOG; LogManager (logmanager.cpp) gives it     *)
(* buffers and takes the full ones from the event loop; DriverManager      *)
(* (drivermanager.cpp) writes to the driver through the same handle.  That *)
(* handle is synchronous: a request waits until the one before has ended,  *)
(* so the pending GETLOG is cancelled around every write.                  *)
(*                                                                         *)
(* An action is one critical section of DriverWorker::m_mutex, or what a   *)
(* thread does between two of them.  The driver's side is LogStream's:     *)
(* a FIFO of records, read by requests that can be cancelled.              *)
(***************************************************************************)
EXTENDS Naturals, FiniteSets, Sequences, SequencesExt

CONSTANTS
  MaxRecords,  \* bound: records the driver writes
  MaxResults   \* bound: unprocessed results when the reading is switched on

NoBuffer == 0

VARIABLES
  written, log,      \* the driver: records so far, and those not read
  opened,            \* the device is open
  main,              \* the UI's thread: "idle", "cancelling", "write", "close", "abort", "gone"
  goal,              \* where it goes from "cancelling"
  resume,            \* wasCancelled: the write was the first to cancel
  m_active,          \* LogManager
  m_freeBuffers, allocated,
  results,           \* readLogResult signals: [buf, ok, recs]
  seen,              \* the last record handed to its manager
  m_isLogReading, m_cancelled, m_aborted, m_logBuffer,  \* DriverWorker
  reader,            \* its thread: "check", "asleep", "armed", "reading", "done", "ended"
  got,               \* what its last request brought: [ok, recs]
  escaped            \* history: a cancellation came before the request it was for

driverVars == <<written, log>>
mainVars == <<opened, main, goal, resume, m_active, m_freeBuffers, allocated, seen>>
workerVars == <<m_isLogReading, m_cancelled, m_aborted, m_logBuffer, reader, got>>
vars == <<driverVars, mainVars, results, workerVars, escaped>>

Nothing == [ok |-> FALSE, recs |-> <<>>]

Init ==
  /\ written = 0 /\ log = <<>> /\ opened = TRUE
  /\ main = "idle" /\ goal = "idle" /\ resume = FALSE
  /\ m_active = FALSE /\ m_freeBuffers = {} /\ allocated = 0
  /\ results = <<>> /\ seen = 0
  /\ m_isLogReading = FALSE /\ m_cancelled = FALSE /\ m_aborted = FALSE
  /\ m_logBuffer = NoBuffer
  /\ reader = "check" /\ got = Nothing /\ escaped = FALSE

-----------------------------------------------------------------------------
(* The driver (FortBuffer): it completes the pending request when it has   *)
(* records, and a cancelled one with the records that are in it already.   *)

WriteRecord ==
  /\ written < MaxRecords
  /\ written' = written + 1 /\ log' = Append(log, written + 1)
  /\ UNCHANGED <<mainVars, results, workerVars, escaped>>

Answered(n) ==
  /\ reader' = "done"
  /\ got' = [ok |-> n > 0, recs |-> SubSeq(log, 1, n)]
  /\ log' = SubSeq(log, n + 1, Len(log))

Complete ==
  /\ reader = "reading"
  /\ \E n \in 1 .. Len(log) : Answered(n)
  /\ UNCHANGED <<written, mainVars, results, m_isLogReading, m_cancelled, m_aborted, m_logBuffer, escaped>>

-----------------------------------------------------------------------------
(* The reader: DriverWorker::run, readLog. *)

(* waitLogBuffer, one round of its loop. *)
WaitLogBuffer ==
  /\ reader = "check"
  /\ IF m_logBuffer # NoBuffer /\ ~ m_cancelled
     THEN reader' = "armed" /\ m_isLogReading' = TRUE
     ELSE reader' = (IF m_aborted THEN "ended" ELSE "asleep") /\ UNCHANGED m_isLogReading
  /\ UNCHANGED <<driverVars, mainVars, results, m_cancelled, m_aborted, m_logBuffer, got, escaped>>

(* readLog issues GETLOG, which fails at once when the device is closed. *)
ReadLog ==
  /\ reader = "armed"
  /\ IF opened THEN reader' = "reading" /\ UNCHANGED got
     ELSE reader' = "done" /\ got' = Nothing
  /\ UNCHANGED <<driverVars, mainVars, results, m_isLogReading, m_cancelled, m_aborted, m_logBuffer, escaped>>

(* Mistake: what a cancelled request has brought is thrown away. *)
Outcome_IfWanted == IF m_cancelled THEN Nothing ELSE got

Outcome == got

(* emitReadLogResult, and the end of run's loop. *)
EmitReadLogResult ==
  /\ reader = "done"
  /\ results' = Append(results, [buf |-> m_logBuffer, ok |-> Outcome.ok, recs |-> Outcome.recs])
  /\ m_isLogReading' = FALSE /\ m_logBuffer' = NoBuffer /\ got' = Nothing
  /\ reader' = IF m_aborted THEN "ended" ELSE "check"
  /\ UNCHANGED <<driverVars, mainVars, m_cancelled, m_aborted, escaped>>

Reader == WaitLogBuffer \/ ReadLog \/ EmitReadLogResult

-----------------------------------------------------------------------------
(* The UI's thread. *)

(* wakeAll of m_bufferWaitCondition. *)
Wake == reader' = IF reader = "asleep" THEN "check" ELSE reader

(* DriverWorker::readLogAsync takes the buffer if it has none. *)
Uses == m_logBuffer = NoBuffer

(* LogManager::readLogAsync: a buffer is made if none is free, and goes    *)
(* back if it is not used; back is what is put to the free ones after it.  *)
ReadLogAsync(back) ==
  LET isNew == m_freeBuffers = {}
      b == IF isNew THEN allocated + 1 ELSE CHOOSE x \in m_freeBuffers : TRUE
  IN /\ allocated' = IF isNew THEN allocated + 1 ELSE allocated
     /\ m_logBuffer' = IF Uses THEN b ELSE m_logBuffer
     /\ m_freeBuffers' = (IF Uses THEN m_freeBuffers \ {b} ELSE m_freeBuffers \cup {b}) \cup back
     /\ m_cancelled' = FALSE
     /\ Wake

(* LogManager::setActive(true) *)
Activate ==
  /\ main = "idle" /\ ~ m_active /\ Len(results) <= MaxResults
  /\ m_active' = TRUE
  /\ ReadLogAsync({})
  /\ UNCHANGED <<driverVars, opened, main, goal, resume, results, seen, m_isLogReading, m_aborted, got, escaped>>

(* Whether cancelAsyncIo cancels and waits. *)
WaitsForReader == m_isLogReading

(* Mistake: the pending request is left to itself. *)
CancelIo_None == UNCHANGED <<reader, got, log>>

(* CancelIoEx ends the request that is pending, if there is one. *)
CancelIo ==
  \/ reader = "reading" /\ Answered(Len(log))
  \/ reader # "reading" /\ UNCHANGED <<reader, got, log>>

(* DriverWorker::cancelAsyncIo; the wait is for the reader's result. *)
CancelAsyncIo(then) ==
  /\ m_cancelled' = TRUE /\ goal' = then
  /\ main' = IF WaitsForReader THEN "cancelling" ELSE then
  /\ escaped' = (WaitsForReader /\ reader = "armed")
  /\ CancelIo
  /\ UNCHANGED <<written, opened, results, m_freeBuffers, allocated, seen, m_isLogReading, m_aborted, m_logBuffer>>

(* The reader has reported its result. *)
Cancelled ==
  /\ main = "cancelling" /\ ~ m_isLogReading
  /\ main' = goal
  /\ UNCHANGED <<driverVars, opened, goal, resume, m_active, m_freeBuffers, allocated, seen, results, workerVars, escaped>>

(* LogManager::setActive(false), by itself or to close the device. *)
Deactivate(then) ==
  /\ main = "idle" /\ m_active
  /\ m_active' = FALSE
  /\ CancelAsyncIo(then)
  /\ UNCHANGED resume

(* DriverManager::writeData; nothing is written to a closed device. *)
BeginWrite ==
  /\ main = "idle" /\ opened
  /\ resume' = ~ m_cancelled
  /\ CancelAsyncIo("write")
  /\ UNCHANGED m_active

(* Mistake: taken by its name, wasCancelled means that it was cancelled already. *)
Continues_ByName == ~ resume

Continues == resume

(* The request, and continueAsyncIo. *)
EndWrite ==
  /\ main = "write"
  /\ main' = "idle"
  /\ m_cancelled' = (m_cancelled /\ ~ Continues)
  /\ reader' = IF Continues /\ m_logBuffer # NoBuffer /\ reader = "asleep" THEN "check" ELSE reader
  /\ UNCHANGED <<driverVars, opened, goal, resume, m_active, m_freeBuffers, allocated, seen, results,
                 m_isLogReading, m_aborted, m_logBuffer, got, escaped>>

(* LogManager::processLogBuffer, from the event loop: the next read is     *)
(* started first; then the records go to their managers.                   *)
ProcessLogBuffer ==
  LET res == Head(results)
  IN /\ main = "idle" /\ results # <<>>
     /\ results' = Tail(results)
     /\ seen' = IF res.recs = <<>> THEN seen ELSE Last(res.recs)
     /\ \/ m_active /\ ReadLogAsync({res.buf})
        \/ /\ ~ m_active
           /\ m_freeBuffers' = m_freeBuffers \cup {res.buf}
           /\ UNCHANGED <<allocated, m_logBuffer, m_cancelled, reader>>
     /\ UNCHANGED <<driverVars, opened, main, goal, resume, m_active, m_isLogReading, m_aborted, got, escaped>>

(* FortManager::closeDriver, before the driver is installed anew or        *)
(* removed, and at the end of the program: the reading is off by now.      *)
BeginClose ==
  /\ main = "idle" /\ ~ m_active
  /\ main' = "close"
  /\ UNCHANGED <<driverVars, opened, goal, resume, m_active, m_freeBuffers, allocated, seen, results, workerVars, escaped>>

CloseDevice ==
  /\ main = "close"
  /\ opened' = FALSE
  /\ main' \in {"idle", "abort"}
  /\ UNCHANGED <<driverVars, goal, resume, m_active, m_freeBuffers, allocated, seen, results, workerVars, escaped>>

OpenDevice ==
  /\ main = "idle" /\ ~ opened
  /\ opened' = TRUE
  /\ UNCHANGED <<driverVars, main, goal, resume, m_active, m_freeBuffers, allocated, seen, results, workerVars, escaped>>

(* DriverWorker::close: m_aborted is set without the lock. *)
Abort ==
  /\ main = "abort" /\ ~ m_aborted
  /\ m_aborted' = TRUE
  /\ UNCHANGED <<driverVars, mainVars, results, m_isLogReading, m_cancelled, m_logBuffer, reader, got, escaped>>

EndClose ==
  /\ main = "abort" /\ m_aborted
  /\ main' = "gone"
  /\ m_cancelled' = FALSE
  /\ Wake
  /\ UNCHANGED <<driverVars, opened, goal, resume, m_active, m_freeBuffers, allocated, seen, results,
                 m_isLogReading, m_aborted, m_logBuffer, got, escaped>>

Next ==
  \/ WriteRecord \/ Complete
  \/ Reader
  \/ Activate \/ Deactivate("idle") \/ Deactivate("close") \/ BeginClose
  \/ BeginWrite \/ Cancelled \/ EndWrite
  \/ ProcessLogBuffer
  \/ CloseDevice \/ OpenDevice \/ Abort \/ EndClose

(* The driver hands over what it has, threads run, the event loop comes to *)
(* every signal in its turn, and the user's writes leave the reader time   *)
(* to get hold of the mutex between two of them.                           *)
Fair ==
  /\ WF_vars(Complete) /\ WF_vars(Reader)
  /\ WF_vars(Cancelled) /\ WF_vars(EndWrite)
  /\ WF_vars(CloseDevice) /\ WF_vars(Abort) /\ WF_vars(EndClose)
  /\ SF_vars(ProcessLogBuffer) /\ SF_vars(WaitLogBuffer /\ reader' = "armed")

Spec == Init /\ [][Next]_vars /\ Fair

-----------------------------------------------------------------------------
(* Cancelled, failed or switched off and on: the managers see the records  *)
(* in the order the driver wrote them, without a gap.                      *)
RecordsInOrder ==
  FlattenSeq([k \in DOMAIN results |-> results[k].recs]) \o got.recs \o log
    = [k \in 1 .. written - seen |-> seen + k]

(* The UI does not hang in cancelAsyncIo, but for the cancellation that    *)
(* comes between the reader's announcement and its request: that request   *)
(* stays until the driver has a record.                                    *)
Hangs == main = "cancelling" /\ escaped /\ log = <<>>
CancelEnds == main = "cancelling" ~> main # "cancelling" \/ Hangs

(* While the reading is on, every record is read in the end. *)
LogIsRead ==
  \A n \in 1 .. MaxRecords :
     written >= n /\ m_active ~> seen >= n \/ ~ m_active \/ ~ opened \/ Hangs
=============================================================================
