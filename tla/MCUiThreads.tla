---------------------------- MODULE MCUiThreads ----------------------------
(* The threads of the UI: the one that reads the driver's log and those    *)
(* that look up names share nothing; a run of the model has either, and    *)
(* the others have ended.                                                  *)
EXTENDS HostInfo, LogReader

CONSTANTS w1, w2, a1, a2, a3

ReaderEnded ==
  /\ written = 0 /\ log = <<>> /\ opened = FALSE
  /\ main = "gone" /\ goal = "idle" /\ resume = FALSE
  /\ m_active = FALSE /\ m_freeBuffers = {} /\ allocated = 0
  /\ results = <<>> /\ seen = 0
  /\ m_isLogReading = FALSE /\ m_cancelled = FALSE /\ m_aborted = TRUE
  /\ m_logBuffer = NoBuffer
  /\ reader = "ended" /\ got = Nothing /\ escaped = FALSE

WorkersEnded ==
  /\ m_jobQueue = <<>> /\ aborted = TRUE
  /\ worker = [w \in Workers |-> "none"]
  /\ job = [w \in Workers |-> NoJob]
  /\ owner = "closed" /\ lookups = <<>> /\ missed = FALSE
  /\ m_cache = [a \in Jobs |-> "none"]

ThreadsInit == (HostInit /\ ReaderEnded) \/ (Init /\ WorkersEnded)

ThreadsNext ==
  \/ HostNext /\ UNCHANGED vars
  \/ owner = "closed" /\ Next /\ UNCHANGED hostVars

ThreadsSpec == ThreadsInit /\ [][ThreadsNext]_<<vars, hostVars>> /\ HostFair /\ Fair
=============================================================================
