--------------------------- MODULE FortDeviceProof ---------------------------
(***************************************************************************)
(* Proofs about the control plane, for any clients, workers and callbacks, *)
(* however their operations overlap and whether the provider fails or not: *)
(* the state is well typed, the work item is queued once, no change is     *)
(* left without a reauthorization, and nothing of a session outlives it;   *)
(* and, for operations that do not overlap, the controls follow the flags. *)
(***************************************************************************)
EXTENDS MCDeviceFaults, TLAPS

(* A thread that is about to write has read something, and what it read is *)
(* still there unless it has been told otherwise.                          *)
UpdateInv ==
  \A t \in Threads :
     /\ pc[t] = "write" => update[t] # None
     /\ update[t] # None /\ update[t].current => conf # None

(* Bits are set exactly while the item is queued or its callback is about  *)
(* to clear them, and one callback at a time is.                           *)
WorkInv ==
  /\ ItemQueuedOnce
  /\ id_bits => queued \/ \E w \in Workers : pc[w] = "clear"
  /\ \A v, w \in Workers : pc[v] = "clear" /\ pc[w] = "clear" => v = w

(* One client is connected at most, and while it is the device is opened;  *)
(* what is left of a session belongs to a client that is connected or      *)
(* still has to clear it.                                                  *)
SessionInv ==
  /\ \A c \in Clients : Connected(c) => opened
  /\ \A c, b \in Clients : Connected(c) /\ Connected(b) => c = b
  /\ \A c \in Clients : c \in closing => pc[c] \notin {"in", "out"}
  /\ \A c \in Clients : pc[c] \in {"clearConf", "clearZones"} => c \in closing
  /\ conf # None => opened \/ \E c \in Clients : pc[c] = "clearConf"
  /\ zones # None => opened \/ \E c \in Clients : pc[c] \in {"clearConf", "clearZones"}
  /\ validated => opened

-----------------------------------------------------------------------------
(* TypeOK and UpdateInv, part by part. *)
BoolsOK ==
  /\ opened \in BOOLEAN /\ validated \in BOOLEAN /\ prov_boot \in BOOLEAN
  /\ filter_transport \in BOOLEAN /\ filter \in BOOLEAN /\ log_stat \in BOOLEAN
  /\ log_timer \in BOOLEAN /\ app_timer \in BOOLEAN /\ inPeriod \in BOOLEAN
  /\ id_bits \in BOOLEAN /\ queued \in BOOLEAN /\ dirty \in BOOLEAN /\ failed \in BOOLEAN
FlagsOK == conf_flags \in Flags /\ old \in [Threads -> Flags] /\ seen \in [Threads -> Flags]
ConfOK == conf \in ConfValues \cup {None} /\ update \in [Threads -> Updates \cup {None}] /\ UpdateInv
PcOK ==
  /\ zones \in Clients \cup {None} /\ closing \subseteq Clients
  /\ pc \in [Threads -> AllPlaces] /\ \A t \in Threads : pc[t] \in Places(t)
ProvOK == prov \in [boot : BOOLEAN, flow : {"none", "stat", "transport"}]
PartsOK == BoolsOK /\ FlagsOK /\ ConfOK /\ PcOK /\ ProvOK

(* The parts make the whole. *)
LEMMA TypeParts == TypeOK /\ UpdateInv <=> PartsOK
BY DEF TypeOK, PartsOK, BoolsOK, FlagsOK, ConfOK, PcOK, ProvOK

(* Fields of flags, and flags made of them. *)
LEMMA FlagsFields ==
  ASSUME NEW F \in Flags
  PROVE  /\ F.log_stat \in BOOLEAN /\ F.log \in BOOLEAN /\ F.prov_boot \in BOOLEAN /\ F.group \in BOOLEAN
         /\ \A g \in BOOLEAN : [F EXCEPT !.group = g] \in Flags
         /\ \A b \in BOOLEAN : NoFlags(b) \in Flags
BY DEF Flags, NoFlags

(* The flags a request finds (fort_conf_ref_set returns them). *)
LEMMA OldFlagsOK == ASSUME PartsOK PROVE OldFlags \in Flags
<1>1. CASE conf = None
  <2>1. prov_boot \in BOOLEAN
    BY DEF PartsOK, BoolsOK
  <2>. QED
    BY <1>1, <2>1 DEF OldFlags, Flags, NoFlags
<1>2. CASE conf # None
  <2>1. conf \in ConfValues
    BY <1>2 DEF PartsOK, ConfOK
  <2>. QED
    BY <1>2, <2>1 DEF OldFlags, ConfValues
<1>. QED
  BY <1>1, <1>2

(* What is to be written to a configuration that has been replaced. *)
LEMMA ReplacedOK ==
  ASSUME ConfOK
  PROVE  /\ Replaced \in [Threads -> Updates \cup {None}]
         /\ \A t \in Threads :
              /\ update[t] # None => Replaced[t] # None
              /\ Replaced[t] # None => Replaced[t].current = FALSE
BY NoneAssumption DEF ConfOK, Replaced, Updates

-----------------------------------------------------------------------------
(* The driver is loaded with a state of these types. *)
LEMMA InitTypes == Init => TypeOK /\ UpdateInv
<1> SUFFICES ASSUME Init PROVE PartsOK
  BY TypeParts
<1> USE DeviceAssumption, NoneAssumption DEF Init, Threads, Flags, NoFlags
<1>1. BoolsOK
  BY DEF BoolsOK
<1>2. FlagsOK
  BY DEF FlagsOK
<1>3. ConfOK
  BY DEF ConfOK, UpdateInv
<1>4. PcOK
  <2>1. \A t \in Threads : pc[t] = IF t \in Clients THEN "out" ELSE "idle"
    OBVIOUS
  <2>2. pc \in [Threads -> AllPlaces] /\ \A t \in Threads : pc[t] \in Places(t)
    BY <2>1 DEF AllPlaces, Places
  <2>. QED
    BY <2>2 DEF PcOK
<1>5. ProvOK
  BY DEF ProvOK
<1>. QED
  BY <1>1, <1>2, <1>3, <1>4, <1>5 DEF PartsOK

(* The flags of the device and the state of the timers, the worker and the     *)
(* history variables. *)
LEMMA StepBools ==
  ASSUME PartsOK, [Next]_vars
  PROVE  BoolsOK'
<1> USE DeviceAssumption, NoneAssumption
    DEF deviceVars, confVars, timerVars, provVars, workVars, localVars, ghosts,
        PartsOK, BoolsOK, FlagsOK, ConfOK, UpdateInv, PcOK, ProvOK, Threads, Flags, ConfValues, Updates
<1>1. ASSUME NEW c \in Clients, Create(c)
     PROVE  BoolsOK'
  BY <1>1 DEF Create, Go
<1>2. ASSUME NEW c \in Clients, Validate(c)
     PROVE  BoolsOK'
  BY <1>2 DEF Validate, Go
<1>3. ASSUME NEW c \in Clients, CleanupBegin(c)
     PROVE  BoolsOK'
  BY <1>3 DEF CleanupBegin, Go, Begin, ClosedFlags
<1>4. ASSUME NEW c \in Clients, NEW C \in Confs, SetConf(c, C)
     PROVE  BoolsOK'
  BY <1>4 DEF SetConf, Go, Begin, Accepted, Replaced, OldFlags
<1>5. ASSUME NEW c \in Clients, NEW F \in FlagSets, SetFlags(c, F)
     PROVE  BoolsOK'
  BY <1>5 DEF SetFlags, Go, Begin, Accepted, OldFlags, NoFlags
<1>6. ASSUME NEW c \in Clients, SetApp(c)
     PROVE  BoolsOK'
  BY <1>6 DEF SetApp, Go, Begin, Accepted
<1>7. ASSUME NEW c \in Clients, SetZones(c)
     PROVE  BoolsOK'
  BY <1>7 DEF SetZones, Go, Begin, Accepted
<1>8. ASSUME NEW w \in Workers, WorkerStart(w)
     PROVE  BoolsOK'
  BY <1>8, ZenonT(60) DEF WorkerStart, Go, Begin
<1>9. ASSUME NEW d \in Callbacks, CallbackBegin(d)
     PROVE  BoolsOK'
  BY <1>9 DEF CallbackBegin, Go, Begin
<1>10. ASSUME NEW t \in Threads, CleanupConf(t)
     PROVE  BoolsOK'
  BY <1>10 DEF CleanupConf, Go, Replaced, OldFlags, ClearedFlags, NoFlags
<1>11. ASSUME NEW t \in Threads, CleanupZones(t)
     PROVE  BoolsOK'
  BY <1>11 DEF CleanupZones, Go, ClearedZones
<1>12. ASSUME NEW t \in Threads, WorkerClear(t)
     PROVE  BoolsOK'
  BY <1>12, ZenonT(60) DEF WorkerClear, Go, ClearedBits
<1>13. ASSUME NEW t \in Threads, ReadOld(t)
     PROVE  BoolsOK'
  BY <1>13 DEF ReadOld, Go
<1>14. ASSUME NEW t \in Threads, QueueWork(t)
     PROVE  BoolsOK'
  BY <1>14 DEF QueueWork, Go, QueuedNow
<1>15. ASSUME NEW t \in Threads, PeriodNone(t)
     PROVE  BoolsOK'
  BY <1>15 DEF PeriodNone, Go, AfterNone, HasPeriods
<1>16. ASSUME NEW t \in Threads, PeriodRead(t)
     PROVE  BoolsOK'
  BY <1>16 DEF PeriodRead, Go, HasPeriods
<1>17. ASSUME NEW t \in Threads, PeriodWrite(t)
     PROVE  BoolsOK'
  BY <1>17 DEF PeriodWrite, Go, AfterChange
<1>18. ASSUME NEW t \in Threads, TimerOff(t)
     PROVE  BoolsOK'
  BY <1>18, ZenonT(60) DEF TimerOff, Go
<1>19. ASSUME NEW t \in Threads, ReadFlags(t)
     PROVE  BoolsOK'
  BY <1>19 DEF ReadFlags, Go
<1>20. ASSUME NEW t \in Threads, UpdateStat(t)
     PROVE  BoolsOK'
  BY <1>20 DEF UpdateStat, Go, LogStatChanged
<1>21. ASSUME NEW t \in Threads, Commit(t)
     PROVE  BoolsOK'
  BY <1>21 DEF Commit, Go, BootChanged, NewTransport, FlowChanges, LogStatChanged
<1>22. ASSUME NEW t \in Threads, CommitFail(t)
     PROVE  BoolsOK'
  BY <1>22 DEF CommitFail, Go, Finish, NoFlags, NewTransport, FlowChanges, BootChanged, LogStatChanged
<1>23. ASSUME NEW t \in Threads, TimerOn(t)
     PROVE  BoolsOK'
  BY <1>23 DEF TimerOn, Go, Finish, LogsSomething, NoFlags
<1>24. CASE TimePasses
  BY <1>24 DEF TimePasses
<1>25. CASE UNCHANGED vars
  BY <1>25 DEF vars
<1>. QED
  BY <1>1, <1>2, <1>3, <1>4, <1>5, <1>6, <1>7, <1>8, <1>9, <1>10, <1>11, <1>12,
     <1>13, <1>14, <1>15, <1>16, <1>17, <1>18, <1>19, <1>20, <1>21, <1>22, <1>23, <1>24,
     <1>25
  DEF Next, Session, Request, Continue

(* Flags of the configuration, and those a thread has read. *)
LEMMA StepFlags ==
  ASSUME PartsOK, [Next]_vars
  PROVE  FlagsOK'
<1> USE DeviceAssumption, NoneAssumption
    DEF deviceVars, confVars, timerVars, provVars, workVars, localVars, ghosts,
        PartsOK, BoolsOK, FlagsOK, ConfOK, UpdateInv, PcOK, Threads, Flags, ConfValues, Updates
<1>1. ASSUME NEW c \in Clients, Create(c)
     PROVE  FlagsOK'
  BY <1>1 DEF Create, Go
<1>2. ASSUME NEW c \in Clients, Validate(c)
     PROVE  FlagsOK'
  BY <1>2 DEF Validate, Go
<1>3. ASSUME NEW c \in Clients, CleanupBegin(c)
     PROVE  FlagsOK'
  BY <1>3 DEF CleanupBegin, Go, Begin, ClosedFlags
<1>4. ASSUME NEW c \in Clients, NEW C \in Confs, SetConf(c, C)
     PROVE  FlagsOK'
  <2>1. C \in [flags : Flags, periods : BOOLEAN, filter : BOOLEAN]
    OBVIOUS
  <2>2. C.flags \in Flags /\ OldFlags \in Flags
    BY <2>1, OldFlagsOK
  <2>3. conf_flags' = C.flags /\ old' = [old EXCEPT ![c] = OldFlags] /\ seen' = seen
    BY <1>4 DEF SetConf
  <2>. QED
    BY <2>2, <2>3
<1>5. ASSUME NEW c \in Clients, NEW F \in FlagSets, SetFlags(c, F)
     PROVE  FlagsOK'
  <2>1. F \in Flags /\ OldFlags \in Flags
    BY OldFlagsOK
  <2>2. prov_boot \in BOOLEAN /\ NoFlags(prov_boot) \in Flags
    BY <2>1, FlagsFields
  <2>3. conf_flags' \in {F, NoFlags(prov_boot)} /\ old' = [old EXCEPT ![c] = OldFlags] /\ seen' = seen
    BY <1>5 DEF SetFlags
  <2>. QED
    BY <2>1, <2>2, <2>3
<1>6. ASSUME NEW c \in Clients, SetApp(c)
     PROVE  FlagsOK'
  BY <1>6 DEF SetApp, Go, Begin, Accepted
<1>7. ASSUME NEW c \in Clients, SetZones(c)
     PROVE  FlagsOK'
  BY <1>7 DEF SetZones, Go, Begin, Accepted
<1>8. ASSUME NEW w \in Workers, WorkerStart(w)
     PROVE  FlagsOK'
  BY <1>8 DEF WorkerStart, Go, Begin
<1>9. ASSUME NEW d \in Callbacks, CallbackBegin(d)
     PROVE  FlagsOK'
  BY <1>9 DEF CallbackBegin, Go, Begin
<1>10. ASSUME NEW t \in Threads, CleanupConf(t)
     PROVE  FlagsOK'
  BY <1>10 DEF CleanupConf, Go, Replaced, OldFlags, ClearedFlags, NoFlags
<1>11. ASSUME NEW t \in Threads, CleanupZones(t)
     PROVE  FlagsOK'
  BY <1>11 DEF CleanupZones, Go, ClearedZones
<1>12. ASSUME NEW t \in Threads, WorkerClear(t)
     PROVE  FlagsOK'
  BY <1>12 DEF WorkerClear, Go, ClearedBits
<1>13. ASSUME NEW t \in Threads, ReadOld(t)
     PROVE  FlagsOK'
  BY <1>13 DEF ReadOld, Go
<1>14. ASSUME NEW t \in Threads, QueueWork(t)
     PROVE  FlagsOK'
  BY <1>14 DEF QueueWork, Go, QueuedNow
<1>15. ASSUME NEW t \in Threads, PeriodNone(t)
     PROVE  FlagsOK'
  BY <1>15 DEF PeriodNone, Go, AfterNone, HasPeriods
<1>16. ASSUME NEW t \in Threads, PeriodRead(t)
     PROVE  FlagsOK'
  BY <1>16 DEF PeriodRead, Go, HasPeriods
<1>17. ASSUME NEW t \in Threads, PeriodWrite(t)
     PROVE  FlagsOK'
  BY <1>17 DEF PeriodWrite, Go, AfterChange
<1>18. ASSUME NEW t \in Threads, TimerOff(t)
     PROVE  FlagsOK'
  BY <1>18 DEF TimerOff, Go
<1>19. ASSUME NEW t \in Threads, ReadFlags(t)
     PROVE  FlagsOK'
  BY <1>19 DEF ReadFlags, Go
<1>20. ASSUME NEW t \in Threads, UpdateStat(t)
     PROVE  FlagsOK'
  BY <1>20 DEF UpdateStat, Go, LogStatChanged
<1>21. ASSUME NEW t \in Threads, Commit(t)
     PROVE  FlagsOK'
  BY <1>21 DEF Commit, Go, BootChanged, NewTransport, FlowChanges, LogStatChanged
<1>22. ASSUME NEW t \in Threads, CommitFail(t)
     PROVE  FlagsOK'
  BY <1>22 DEF CommitFail, Go, Finish, NoFlags, NewTransport, FlowChanges, BootChanged, LogStatChanged
<1>23. ASSUME NEW t \in Threads, TimerOn(t)
     PROVE  FlagsOK'
  BY <1>23 DEF TimerOn, Go, Finish, LogsSomething, NoFlags
<1>24. CASE TimePasses
  BY <1>24 DEF TimePasses
<1>25. CASE UNCHANGED vars
  BY <1>25 DEF vars
<1>. QED
  BY <1>1, <1>2, <1>3, <1>4, <1>5, <1>6, <1>7, <1>8, <1>9, <1>10, <1>11, <1>12,
     <1>13, <1>14, <1>15, <1>16, <1>17, <1>18, <1>19, <1>20, <1>21, <1>22, <1>23, <1>24,
     <1>25
  DEF Next, Session, Request, Continue

(* The configuration, and what threads are about to write to it. *)
LEMMA StepConf ==
  ASSUME PartsOK, [Next]_vars
  PROVE  ConfOK'
<1> USE DeviceAssumption, NoneAssumption
    DEF deviceVars, confVars, timerVars, provVars, workVars, localVars, ghosts,
        PartsOK, BoolsOK, FlagsOK, ConfOK, UpdateInv, PcOK, Threads, Flags, ConfValues, Updates
<1>1. ASSUME NEW c \in Clients, Create(c)
     PROVE  ConfOK'
  BY <1>1 DEF Create, Go
<1>2. ASSUME NEW c \in Clients, Validate(c)
     PROVE  ConfOK'
  BY <1>2 DEF Validate, Go
<1>3. ASSUME NEW c \in Clients, CleanupBegin(c)
     PROVE  ConfOK'
  BY <1>3 DEF CleanupBegin, Go, Begin, ClosedFlags
<1>4. ASSUME NEW c \in Clients, NEW C \in Confs, SetConf(c, C)
     PROVE  ConfOK'
  <2>1. C \in [flags : Flags, periods : BOOLEAN, filter : BOOLEAN]
    OBVIOUS
  <2>2. conf' \in ConfValues
    BY <1>4, <2>1 DEF SetConf
  <2>3. update' = Replaced /\ pc'[c] # "write" /\ \A t \in Threads \ {c} : pc'[t] = pc[t]
    BY <1>4 DEF SetConf, Begin, Go
  <2>. QED
    BY <2>2, <2>3, ReplacedOK
<1>5. ASSUME NEW c \in Clients, NEW F \in FlagSets, SetFlags(c, F)
     PROVE  ConfOK'
  <2>1. F.group \in BOOLEAN /\ F \in Flags
    BY FlagsFields
  <2>2. conf' \in ConfValues \cup {None} /\ (conf # None => conf' # None)
    <3>1. CASE conf = None
      BY <1>5, <3>1 DEF SetFlags
    <3>2. CASE conf # None
      <4>1. conf' = [conf EXCEPT !.flags = F, !.mask = F.group] /\ conf \in ConfValues
        BY <1>5, <3>2 DEF SetFlags
      <4>2. conf' = [owner |-> conf.owner, flags |-> F, periods |-> conf.periods, mask |-> F.group]
        BY <4>1
      <4>3. conf.owner \in Clients /\ conf.periods \in BOOLEAN
        BY <4>1
      <4>4. conf' \in ConfValues
        BY <4>2, <4>3, <2>1
      <4>. QED
        BY <4>4, NoneAssumption
    <3>. QED
      BY <3>1, <3>2
  <2>3. update' = update /\ pc'[c] # "write" /\ \A t \in Threads \ {c} : pc'[t] = pc[t]
    BY <1>5 DEF SetFlags, Begin, Go
  <2>. QED
    BY <2>2, <2>3
<1>6. ASSUME NEW c \in Clients, SetApp(c)
     PROVE  ConfOK'
  BY <1>6 DEF SetApp, Go, Begin, Accepted
<1>7. ASSUME NEW c \in Clients, SetZones(c)
     PROVE  ConfOK'
  BY <1>7 DEF SetZones, Go, Begin, Accepted
<1>8. ASSUME NEW w \in Workers, WorkerStart(w)
     PROVE  ConfOK'
  BY <1>8 DEF WorkerStart, Go, Begin
<1>9. ASSUME NEW d \in Callbacks, CallbackBegin(d)
     PROVE  ConfOK'
  BY <1>9 DEF CallbackBegin, Go, Begin
<1>10. ASSUME NEW t \in Threads, CleanupConf(t)
     PROVE  ConfOK'
  <2>1. conf' = None /\ update' = Replaced
    BY <1>10 DEF CleanupConf
  <2>2. pc'[t] # "write" /\ \A u \in Threads \ {t} : pc'[u] = pc[u]
    BY <1>10 DEF CleanupConf, Go
  <2>. QED
    BY <2>1, <2>2, ReplacedOK
<1>11. ASSUME NEW t \in Threads, CleanupZones(t)
     PROVE  ConfOK'
  BY <1>11 DEF CleanupZones, Go, ClearedZones
<1>12. ASSUME NEW t \in Threads, WorkerClear(t)
     PROVE  ConfOK'
  BY <1>12 DEF WorkerClear, Go, ClearedBits
<1>13. ASSUME NEW t \in Threads, ReadOld(t)
     PROVE  ConfOK'
  BY <1>13 DEF ReadOld, Go
<1>14. ASSUME NEW t \in Threads, QueueWork(t)
     PROVE  ConfOK'
  BY <1>14 DEF QueueWork, Go, QueuedNow
<1>15. ASSUME NEW t \in Threads, PeriodNone(t)
     PROVE  ConfOK'
  BY <1>15 DEF PeriodNone, Go, AfterNone, HasPeriods
<1>16. ASSUME NEW t \in Threads, PeriodRead(t)
     PROVE  ConfOK'
  <2>1. conf # None /\ conf \in ConfValues /\ conf' = conf
    BY <1>16 DEF PeriodRead, HasPeriods, confVars
  <2>2. conf.flags.group \in BOOLEAN /\ inPeriod \in BOOLEAN
    BY <2>1
  <2>3. update' = [update EXCEPT ![t] = [current |-> TRUE, group |-> conf.flags.group /\ inPeriod,
                                         n |-> conf.flags.group]]
    BY <1>16 DEF PeriodRead
  <2>4. update'[t] = [current |-> TRUE, group |-> conf.flags.group /\ inPeriod, n |-> conf.flags.group]
    BY <2>3
  <2>5. update'[t] \in Updates
    BY <2>2, <2>4
  <2>6. update'[t] # None
    BY <2>5, NoneAssumption
  <2>7. update' \in [Threads -> Updates \cup {None}]
    BY <2>3, <2>4, <2>5
  <2>8. \A u \in Threads \ {t} : update'[u] = update[u] /\ pc'[u] = pc[u]
    BY <1>16, <2>3 DEF PeriodRead, Go
  <2>9. ASSUME NEW u \in Threads
        PROVE  /\ pc'[u] = "write" => update'[u] # None
               /\ update'[u] # None /\ update'[u].current => conf' # None
    BY <2>1, <2>6, <2>8, <2>9
  <2>. QED
    BY <2>1, <2>7, <2>9
<1>17. ASSUME NEW t \in Threads, PeriodWrite(t)
     PROVE  ConfOK'
  BY <1>17 DEF PeriodWrite, Go, AfterChange
<1>18. ASSUME NEW t \in Threads, TimerOff(t)
     PROVE  ConfOK'
  BY <1>18 DEF TimerOff, Go
<1>19. ASSUME NEW t \in Threads, ReadFlags(t)
     PROVE  ConfOK'
  BY <1>19 DEF ReadFlags, Go
<1>20. ASSUME NEW t \in Threads, UpdateStat(t)
     PROVE  ConfOK'
  BY <1>20 DEF UpdateStat, Go, LogStatChanged
<1>21. ASSUME NEW t \in Threads, Commit(t)
     PROVE  ConfOK'
  BY <1>21 DEF Commit, Go, BootChanged, NewTransport, FlowChanges, LogStatChanged
<1>22. ASSUME NEW t \in Threads, CommitFail(t)
     PROVE  ConfOK'
  BY <1>22 DEF CommitFail, Go, Finish, NoFlags, NewTransport, FlowChanges, BootChanged, LogStatChanged
<1>23. ASSUME NEW t \in Threads, TimerOn(t)
     PROVE  ConfOK'
  BY <1>23 DEF TimerOn, Go, Finish, LogsSomething, NoFlags
<1>24. CASE TimePasses
  BY <1>24 DEF TimePasses
<1>25. CASE UNCHANGED vars
  BY <1>25 DEF vars
<1>. QED
  BY <1>1, <1>2, <1>3, <1>4, <1>5, <1>6, <1>7, <1>8, <1>9, <1>10, <1>11, <1>12,
     <1>13, <1>14, <1>15, <1>16, <1>17, <1>18, <1>19, <1>20, <1>21, <1>22, <1>23, <1>24,
     <1>25
  DEF Next, Session, Request, Continue

(* Where threads are: no callback leaves its own places. *)
LEMMA StepPc ==
  ASSUME PartsOK, [Next]_vars
  PROVE  PcOK'
<1> USE DeviceAssumption, NoneAssumption
    DEF deviceVars, confVars, timerVars, provVars, workVars, localVars, ghosts,
        PartsOK, PcOK, Threads, Places, AllPlaces, ReauthPlaces
<1>1. ASSUME NEW c \in Clients, Create(c)
     PROVE  PcOK'
  BY <1>1 DEF Create, Go
<1>2. ASSUME NEW c \in Clients, Validate(c)
     PROVE  PcOK'
  BY <1>2 DEF Validate, Go
<1>3. ASSUME NEW c \in Clients, CleanupBegin(c)
     PROVE  PcOK'
  BY <1>3 DEF CleanupBegin, Go, Begin, ClosedFlags
<1>4. ASSUME NEW c \in Clients, NEW C \in Confs, SetConf(c, C)
     PROVE  PcOK'
  BY <1>4 DEF SetConf, Go, Begin, Accepted, Replaced, OldFlags
<1>5. ASSUME NEW c \in Clients, NEW F \in FlagSets, SetFlags(c, F)
     PROVE  PcOK'
  BY <1>5 DEF SetFlags, Go, Begin, Accepted, OldFlags, NoFlags
<1>6. ASSUME NEW c \in Clients, SetApp(c)
     PROVE  PcOK'
  BY <1>6 DEF SetApp, Go, Begin, Accepted
<1>7. ASSUME NEW c \in Clients, SetZones(c)
     PROVE  PcOK'
  BY <1>7 DEF SetZones, Go, Begin, Accepted
<1>8. ASSUME NEW w \in Workers, WorkerStart(w)
     PROVE  PcOK'
  BY <1>8 DEF WorkerStart, Go, Begin
<1>9. ASSUME NEW d \in Callbacks, CallbackBegin(d)
     PROVE  PcOK'
  BY <1>9 DEF CallbackBegin, Go, Begin
<1>10. ASSUME NEW t \in Threads, CleanupConf(t)
     PROVE  PcOK'
  BY <1>10 DEF CleanupConf, Go, Replaced, OldFlags, ClearedFlags, NoFlags
<1>11. ASSUME NEW t \in Threads, CleanupZones(t)
     PROVE  PcOK'
  BY <1>11 DEF CleanupZones, Go, ClearedZones
<1>12. ASSUME NEW t \in Threads, WorkerClear(t)
     PROVE  PcOK'
  BY <1>12 DEF WorkerClear, Go, ClearedBits
<1>13. ASSUME NEW t \in Threads, ReadOld(t)
     PROVE  PcOK'
  BY <1>13 DEF ReadOld, Go
<1>14. ASSUME NEW t \in Threads, QueueWork(t)
     PROVE  PcOK'
  BY <1>14 DEF QueueWork, Go, QueuedNow
<1>15. ASSUME NEW t \in Threads, PeriodNone(t)
     PROVE  PcOK'
  BY <1>15 DEF PeriodNone, Go, AfterNone, HasPeriods
<1>16. ASSUME NEW t \in Threads, PeriodRead(t)
     PROVE  PcOK'
  BY <1>16 DEF PeriodRead, Go, HasPeriods
<1>17. ASSUME NEW t \in Threads, PeriodWrite(t)
     PROVE  PcOK'
  BY <1>17 DEF PeriodWrite, Go, AfterChange
<1>18. ASSUME NEW t \in Threads, TimerOff(t)
     PROVE  PcOK'
  BY <1>18 DEF TimerOff, Go
<1>19. ASSUME NEW t \in Threads, ReadFlags(t)
     PROVE  PcOK'
  BY <1>19 DEF ReadFlags, Go
<1>20. ASSUME NEW t \in Threads, UpdateStat(t)
     PROVE  PcOK'
  BY <1>20 DEF UpdateStat, Go, LogStatChanged
<1>21. ASSUME NEW t \in Threads, Commit(t)
     PROVE  PcOK'
  BY <1>21 DEF Commit, Go, BootChanged, NewTransport, FlowChanges, LogStatChanged
<1>22. ASSUME NEW t \in Threads, CommitFail(t)
     PROVE  PcOK'
  BY <1>22 DEF CommitFail, Go, Finish, NoFlags, NewTransport, FlowChanges, BootChanged, LogStatChanged
<1>23. ASSUME NEW t \in Threads, TimerOn(t)
     PROVE  PcOK'
  BY <1>23 DEF TimerOn, Go, Finish, LogsSomething, NoFlags
<1>24. CASE TimePasses
  BY <1>24 DEF TimePasses
<1>25. CASE UNCHANGED vars
  BY <1>25 DEF vars
<1>. QED
  BY <1>1, <1>2, <1>3, <1>4, <1>5, <1>6, <1>7, <1>8, <1>9, <1>10, <1>11, <1>12,
     <1>13, <1>14, <1>15, <1>16, <1>17, <1>18, <1>19, <1>20, <1>21, <1>22, <1>23, <1>24,
     <1>25
  DEF Next, Session, Request, Continue

(* The filters of the provider. *)
LEMMA StepProv ==
  ASSUME PartsOK, [Next]_vars
  PROVE  ProvOK'
<1> USE DeviceAssumption, NoneAssumption
    DEF deviceVars, confVars, timerVars, provVars, workVars, localVars, ghosts,
        PartsOK, BoolsOK, FlagsOK, ProvOK, Threads, Flags
<1>1. ASSUME NEW c \in Clients, Create(c)
     PROVE  ProvOK'
  BY <1>1 DEF Create, Go
<1>2. ASSUME NEW c \in Clients, Validate(c)
     PROVE  ProvOK'
  BY <1>2 DEF Validate, Go
<1>3. ASSUME NEW c \in Clients, CleanupBegin(c)
     PROVE  ProvOK'
  BY <1>3 DEF CleanupBegin, Go, Begin, ClosedFlags
<1>4. ASSUME NEW c \in Clients, NEW C \in Confs, SetConf(c, C)
     PROVE  ProvOK'
  BY <1>4 DEF SetConf, Go, Begin, Accepted, Replaced, OldFlags
<1>5. ASSUME NEW c \in Clients, NEW F \in FlagSets, SetFlags(c, F)
     PROVE  ProvOK'
  BY <1>5 DEF SetFlags, Go, Begin, Accepted, OldFlags, NoFlags
<1>6. ASSUME NEW c \in Clients, SetApp(c)
     PROVE  ProvOK'
  BY <1>6 DEF SetApp, Go, Begin, Accepted
<1>7. ASSUME NEW c \in Clients, SetZones(c)
     PROVE  ProvOK'
  BY <1>7 DEF SetZones, Go, Begin, Accepted
<1>8. ASSUME NEW w \in Workers, WorkerStart(w)
     PROVE  ProvOK'
  BY <1>8 DEF WorkerStart, Go, Begin
<1>9. ASSUME NEW d \in Callbacks, CallbackBegin(d)
     PROVE  ProvOK'
  BY <1>9 DEF CallbackBegin, Go, Begin
<1>10. ASSUME NEW t \in Threads, CleanupConf(t)
     PROVE  ProvOK'
  BY <1>10 DEF CleanupConf, Go, Replaced, OldFlags, ClearedFlags, NoFlags
<1>11. ASSUME NEW t \in Threads, CleanupZones(t)
     PROVE  ProvOK'
  BY <1>11 DEF CleanupZones, Go, ClearedZones
<1>12. ASSUME NEW t \in Threads, WorkerClear(t)
     PROVE  ProvOK'
  BY <1>12 DEF WorkerClear, Go, ClearedBits
<1>13. ASSUME NEW t \in Threads, ReadOld(t)
     PROVE  ProvOK'
  BY <1>13 DEF ReadOld, Go
<1>14. ASSUME NEW t \in Threads, QueueWork(t)
     PROVE  ProvOK'
  BY <1>14 DEF QueueWork, Go, QueuedNow
<1>15. ASSUME NEW t \in Threads, PeriodNone(t)
     PROVE  ProvOK'
  BY <1>15 DEF PeriodNone, Go, AfterNone, HasPeriods
<1>16. ASSUME NEW t \in Threads, PeriodRead(t)
     PROVE  ProvOK'
  BY <1>16 DEF PeriodRead, Go, HasPeriods
<1>17. ASSUME NEW t \in Threads, PeriodWrite(t)
     PROVE  ProvOK'
  BY <1>17 DEF PeriodWrite, Go, AfterChange
<1>18. ASSUME NEW t \in Threads, TimerOff(t)
     PROVE  ProvOK'
  BY <1>18 DEF TimerOff, Go
<1>19. ASSUME NEW t \in Threads, ReadFlags(t)
     PROVE  ProvOK'
  BY <1>19 DEF ReadFlags, Go
<1>20. ASSUME NEW t \in Threads, UpdateStat(t)
     PROVE  ProvOK'
  BY <1>20 DEF UpdateStat, Go, LogStatChanged
<1>21. ASSUME NEW t \in Threads, Commit(t)
     PROVE  ProvOK'
  BY <1>21 DEF Commit, Go, BootChanged, NewTransport, FlowChanges, LogStatChanged
<1>22. ASSUME NEW t \in Threads, CommitFail(t)
     PROVE  ProvOK'
  BY <1>22 DEF CommitFail, Go, Finish, NoFlags, NewTransport, FlowChanges, BootChanged, LogStatChanged
<1>23. ASSUME NEW t \in Threads, TimerOn(t)
     PROVE  ProvOK'
  BY <1>23 DEF TimerOn, Go, Finish, LogsSomething, NoFlags
<1>24. CASE TimePasses
  BY <1>24 DEF TimePasses
<1>25. CASE UNCHANGED vars
  BY <1>25 DEF vars
<1>. QED
  BY <1>1, <1>2, <1>3, <1>4, <1>5, <1>6, <1>7, <1>8, <1>9, <1>10, <1>11, <1>12,
     <1>13, <1>14, <1>15, <1>16, <1>17, <1>18, <1>19, <1>20, <1>21, <1>22, <1>23, <1>24,
     <1>25
  DEF Next, Session, Request, Continue

(* Types, and what a thread is about to write. *)
LEMMA StepTypes ==
  ASSUME TypeOK, UpdateInv, [Next]_vars
  PROVE  TypeOK' /\ UpdateInv'
<1>1. PartsOK
  BY TypeParts
<1>2. PartsOK'
  BY <1>1, StepBools, StepFlags, StepConf, StepPc, StepProv DEF PartsOK
<1>3. TypeOK' /\ UpdateInv' <=> PartsOK'
  BY TypeParts, PTL
<1>. QED
  BY <1>2, <1>3

(* The work item: only callbacks queue it, and only its own callback      *)
(* clears the bits.                                                       *)
LEMMA StepWork ==
  ASSUME TypeOK, WorkInv, [Next]_vars
  PROVE  WorkInv'
<1> USE DeviceAssumption, NoneAssumption
    DEF deviceVars, confVars, timerVars, provVars, workVars, localVars, ghosts,
        TypeOK, WorkInv, ItemQueuedOnce, Threads, Places, ReauthPlaces
<1>1. ASSUME NEW c \in Clients, Create(c)
     PROVE  WorkInv'
  BY <1>1 DEF Create, Go
<1>2. ASSUME NEW c \in Clients, Validate(c)
     PROVE  WorkInv'
  BY <1>2 DEF Validate, Go
<1>3. ASSUME NEW c \in Clients, CleanupBegin(c)
     PROVE  WorkInv'
  BY <1>3 DEF CleanupBegin, Go, Begin, ClosedFlags
<1>4. ASSUME NEW c \in Clients, NEW C \in Confs, SetConf(c, C)
     PROVE  WorkInv'
  BY <1>4 DEF SetConf, Go, Begin, Accepted, Replaced, OldFlags
<1>5. ASSUME NEW c \in Clients, NEW F \in FlagSets, SetFlags(c, F)
     PROVE  WorkInv'
  BY <1>5 DEF SetFlags, Go, Begin, Accepted, OldFlags, NoFlags
<1>6. ASSUME NEW c \in Clients, SetApp(c)
     PROVE  WorkInv'
  BY <1>6 DEF SetApp, Go, Begin, Accepted
<1>7. ASSUME NEW c \in Clients, SetZones(c)
     PROVE  WorkInv'
  BY <1>7 DEF SetZones, Go, Begin, Accepted
<1>8. ASSUME NEW w \in Workers, WorkerStart(w)
     PROVE  WorkInv'
  BY <1>8 DEF WorkerStart, Go, Begin
<1>9. ASSUME NEW d \in Callbacks, CallbackBegin(d)
     PROVE  WorkInv'
  BY <1>9 DEF CallbackBegin, Go, Begin
<1>10. ASSUME NEW t \in Threads, CleanupConf(t)
     PROVE  WorkInv'
  BY <1>10 DEF CleanupConf, Go, Replaced, OldFlags, ClearedFlags, NoFlags
<1>11. ASSUME NEW t \in Threads, CleanupZones(t)
     PROVE  WorkInv'
  BY <1>11 DEF CleanupZones, Go, ClearedZones
<1>12. ASSUME NEW t \in Threads, WorkerClear(t)
     PROVE  WorkInv'
  BY <1>12 DEF WorkerClear, Go, ClearedBits
<1>13. ASSUME NEW t \in Threads, ReadOld(t)
     PROVE  WorkInv'
  BY <1>13 DEF ReadOld, Go
<1>14. ASSUME NEW t \in Threads, QueueWork(t)
     PROVE  WorkInv'
  BY <1>14 DEF QueueWork, Go, QueuedNow
<1>15. ASSUME NEW t \in Threads, PeriodNone(t)
     PROVE  WorkInv'
  BY <1>15 DEF PeriodNone, Go, AfterNone, HasPeriods
<1>16. ASSUME NEW t \in Threads, PeriodRead(t)
     PROVE  WorkInv'
  BY <1>16 DEF PeriodRead, Go, HasPeriods
<1>17. ASSUME NEW t \in Threads, PeriodWrite(t)
     PROVE  WorkInv'
  BY <1>17 DEF PeriodWrite, Go, AfterChange
<1>18. ASSUME NEW t \in Threads, TimerOff(t)
     PROVE  WorkInv'
  BY <1>18 DEF TimerOff, Go
<1>19. ASSUME NEW t \in Threads, ReadFlags(t)
     PROVE  WorkInv'
  BY <1>19 DEF ReadFlags, Go
<1>20. ASSUME NEW t \in Threads, UpdateStat(t)
     PROVE  WorkInv'
  BY <1>20 DEF UpdateStat, Go, LogStatChanged
<1>21. ASSUME NEW t \in Threads, Commit(t)
     PROVE  WorkInv'
  BY <1>21 DEF Commit, Go, BootChanged, NewTransport, FlowChanges, LogStatChanged
<1>22. ASSUME NEW t \in Threads, CommitFail(t)
     PROVE  WorkInv'
  BY <1>22 DEF CommitFail, Go, Finish, NoFlags, NewTransport, FlowChanges, BootChanged, LogStatChanged
<1>23. ASSUME NEW t \in Threads, TimerOn(t)
     PROVE  WorkInv'
  BY <1>23 DEF TimerOn, Go, Finish, LogsSomething, NoFlags
<1>24. CASE TimePasses
  BY <1>24 DEF TimePasses
<1>25. CASE UNCHANGED vars
  BY <1>25 DEF vars
<1>. QED
  BY <1>1, <1>2, <1>3, <1>4, <1>5, <1>6, <1>7, <1>8, <1>9, <1>10, <1>11, <1>12,
     <1>13, <1>14, <1>15, <1>16, <1>17, <1>18, <1>19, <1>20, <1>21, <1>22, <1>23, <1>24,
     <1>25
  DEF Next, Session, Request, Continue

(* Whoever changes a decision goes on to a reauthorization, or leaves it   *)
(* to the work item.                                                      *)
LEMMA StepStale ==
  ASSUME TypeOK, WorkInv, NoStaleDecisions, [Next]_vars
  PROVE  NoStaleDecisions'
<1> USE DeviceAssumption, NoneAssumption
    DEF deviceVars, confVars, timerVars, provVars, workVars, localVars, ghosts,
        TypeOK, WorkInv, ItemQueuedOnce, NoStaleDecisions, WillReauth, Threads, Places, ReauthPlaces
<1>1. ASSUME NEW c \in Clients, Create(c)
     PROVE  NoStaleDecisions'
  BY <1>1 DEF Create, Go
<1>2. ASSUME NEW c \in Clients, Validate(c)
     PROVE  NoStaleDecisions'
  BY <1>2 DEF Validate, Go
<1>3. ASSUME NEW c \in Clients, CleanupBegin(c)
     PROVE  NoStaleDecisions'
  BY <1>3 DEF CleanupBegin, Go, Begin, ClosedFlags
<1>4. ASSUME NEW c \in Clients, NEW C \in Confs, SetConf(c, C)
     PROVE  NoStaleDecisions'
  BY <1>4 DEF SetConf, Go, Begin, Accepted, Replaced, OldFlags
<1>5. ASSUME NEW c \in Clients, NEW F \in FlagSets, SetFlags(c, F)
     PROVE  NoStaleDecisions'
  BY <1>5 DEF SetFlags, Go, Begin, Accepted, OldFlags, NoFlags
<1>6. ASSUME NEW c \in Clients, SetApp(c)
     PROVE  NoStaleDecisions'
  BY <1>6 DEF SetApp, Go, Begin, Accepted
<1>7. ASSUME NEW c \in Clients, SetZones(c)
     PROVE  NoStaleDecisions'
  BY <1>7 DEF SetZones, Go, Begin, Accepted
<1>8. ASSUME NEW w \in Workers, WorkerStart(w)
     PROVE  NoStaleDecisions'
  BY <1>8 DEF WorkerStart, Go, Begin
<1>9. ASSUME NEW d \in Callbacks, CallbackBegin(d)
     PROVE  NoStaleDecisions'
  BY <1>9 DEF CallbackBegin, Go, Begin
<1>10. ASSUME NEW t \in Threads, CleanupConf(t)
     PROVE  NoStaleDecisions'
  BY <1>10 DEF CleanupConf, Go, Replaced, OldFlags, ClearedFlags, NoFlags
<1>11. ASSUME NEW t \in Threads, CleanupZones(t)
     PROVE  NoStaleDecisions'
  BY <1>11 DEF CleanupZones, Go, ClearedZones
<1>12. ASSUME NEW t \in Threads, WorkerClear(t)
     PROVE  NoStaleDecisions'
  BY <1>12 DEF WorkerClear, Go, ClearedBits
<1>13. ASSUME NEW t \in Threads, ReadOld(t)
     PROVE  NoStaleDecisions'
  BY <1>13 DEF ReadOld, Go
<1>14. ASSUME NEW t \in Threads, QueueWork(t)
     PROVE  NoStaleDecisions'
  BY <1>14 DEF QueueWork, Go, QueuedNow
<1>15. ASSUME NEW t \in Threads, PeriodNone(t)
     PROVE  NoStaleDecisions'
  BY <1>15 DEF PeriodNone, Go, AfterNone, HasPeriods
<1>16. ASSUME NEW t \in Threads, PeriodRead(t)
     PROVE  NoStaleDecisions'
  BY <1>16 DEF PeriodRead, Go, HasPeriods
<1>17. ASSUME NEW t \in Threads, PeriodWrite(t)
     PROVE  NoStaleDecisions'
  <2>1. pc[t] = "write" /\ pc \in [Threads -> AllPlaces] /\ queued' = queued /\ failed' = failed
    BY <1>17 DEF PeriodWrite, workVars
  <2>2. CASE t \in Callbacks /\ conf_flags.group = update[t].group
    <3>1. dirty' = dirty /\ pc' = [pc EXCEPT ![t] = "idle"]
      BY <1>17, <2>2 DEF PeriodWrite, Go
    <3>2. ~ WillReauth(t)
      BY <2>1, <2>2
    <3>3. \A u \in Threads : WillReauth(u) => WillReauth(u)'
      BY <2>1, <3>1, <3>2
    <3>. QED
      BY <2>1, <3>1, <3>3
  <2>3. CASE ~ (t \in Callbacks /\ conf_flags.group = update[t].group)
    <3>1. pc' = [pc EXCEPT ![t] = IF t \in Callbacks THEN "queue" ELSE "flags"]
      BY <1>17, <2>3 DEF PeriodWrite, Go, AfterChange
    <3>2. WillReauth(t)'
      BY <2>1, <3>1
    <3>. QED
      BY <3>2
  <2>. QED
    BY <2>2, <2>3
<1>18. ASSUME NEW t \in Threads, TimerOff(t)
     PROVE  NoStaleDecisions'
  BY <1>18 DEF TimerOff, Go
<1>19. ASSUME NEW t \in Threads, ReadFlags(t)
     PROVE  NoStaleDecisions'
  BY <1>19 DEF ReadFlags, Go
<1>20. ASSUME NEW t \in Threads, UpdateStat(t)
     PROVE  NoStaleDecisions'
  BY <1>20 DEF UpdateStat, Go, LogStatChanged
<1>21. ASSUME NEW t \in Threads, Commit(t)
     PROVE  NoStaleDecisions'
  BY <1>21 DEF Commit, Go, BootChanged, NewTransport, FlowChanges, LogStatChanged
<1>22. ASSUME NEW t \in Threads, CommitFail(t)
     PROVE  NoStaleDecisions'
  BY <1>22 DEF CommitFail, Go, Finish, NoFlags, NewTransport, FlowChanges, BootChanged, LogStatChanged
<1>23. ASSUME NEW t \in Threads, TimerOn(t)
     PROVE  NoStaleDecisions'
  BY <1>23 DEF TimerOn, Go, Finish, LogsSomething, NoFlags
<1>24. CASE TimePasses
  BY <1>24 DEF TimePasses
<1>25. CASE UNCHANGED vars
  BY <1>25 DEF vars
<1>. QED
  BY <1>1, <1>2, <1>3, <1>4, <1>5, <1>6, <1>7, <1>8, <1>9, <1>10, <1>11, <1>12,
     <1>13, <1>14, <1>15, <1>16, <1>17, <1>18, <1>19, <1>20, <1>21, <1>22, <1>23, <1>24,
     <1>25
  DEF Next, Session, Request, Continue

(* Sessions. *)
LEMMA StepSession ==
  ASSUME TypeOK, UpdateInv, SessionInv, [Next]_vars
  PROVE  SessionInv'
<1> USE DeviceAssumption, NoneAssumption
    DEF deviceVars, confVars, timerVars, provVars, workVars, localVars, ghosts,
        TypeOK, UpdateInv, SessionInv, Connected, Threads, Places, ReauthPlaces, ConfValues, Updates
<1>1. ASSUME NEW c \in Clients, Create(c)
     PROVE  SessionInv'
  BY <1>1 DEF Create, Go
<1>2. ASSUME NEW c \in Clients, Validate(c)
     PROVE  SessionInv'
  BY <1>2 DEF Validate, Go
<1>3. ASSUME NEW c \in Clients, CleanupBegin(c)
     PROVE  SessionInv'
  BY <1>3 DEF CleanupBegin, Go, Begin, ClosedFlags
<1>4. ASSUME NEW c \in Clients, NEW C \in Confs, SetConf(c, C)
     PROVE  SessionInv'
  BY <1>4 DEF SetConf, Go, Begin, Accepted, Replaced, OldFlags
<1>5. ASSUME NEW c \in Clients, NEW F \in FlagSets, SetFlags(c, F)
     PROVE  SessionInv'
  BY <1>5 DEF SetFlags, Go, Begin, Accepted, OldFlags, NoFlags
<1>6. ASSUME NEW c \in Clients, SetApp(c)
     PROVE  SessionInv'
  BY <1>6 DEF SetApp, Go, Begin, Accepted
<1>7. ASSUME NEW c \in Clients, SetZones(c)
     PROVE  SessionInv'
  BY <1>7 DEF SetZones, Go, Begin, Accepted
<1>8. ASSUME NEW w \in Workers, WorkerStart(w)
     PROVE  SessionInv'
  BY <1>8 DEF WorkerStart, Go, Begin
<1>9. ASSUME NEW d \in Callbacks, CallbackBegin(d)
     PROVE  SessionInv'
  BY <1>9 DEF CallbackBegin, Go, Begin
<1>10. ASSUME NEW t \in Threads, CleanupConf(t)
     PROVE  SessionInv'
  BY <1>10 DEF CleanupConf, Go, Replaced, OldFlags, ClearedFlags, NoFlags
<1>11. ASSUME NEW t \in Threads, CleanupZones(t)
     PROVE  SessionInv'
  BY <1>11 DEF CleanupZones, Go, ClearedZones
<1>12. ASSUME NEW t \in Threads, WorkerClear(t)
     PROVE  SessionInv'
  BY <1>12 DEF WorkerClear, Go, ClearedBits
<1>13. ASSUME NEW t \in Threads, ReadOld(t)
     PROVE  SessionInv'
  BY <1>13 DEF ReadOld, Go
<1>14. ASSUME NEW t \in Threads, QueueWork(t)
     PROVE  SessionInv'
  BY <1>14 DEF QueueWork, Go, QueuedNow
<1>15. ASSUME NEW t \in Threads, PeriodNone(t)
     PROVE  SessionInv'
  BY <1>15 DEF PeriodNone, Go, AfterNone, HasPeriods
<1>16. ASSUME NEW t \in Threads, PeriodRead(t)
     PROVE  SessionInv'
  BY <1>16 DEF PeriodRead, Go, HasPeriods
<1>17. ASSUME NEW t \in Threads, PeriodWrite(t)
     PROVE  SessionInv'
  BY <1>17 DEF PeriodWrite, Go, AfterChange
<1>18. ASSUME NEW t \in Threads, TimerOff(t)
     PROVE  SessionInv'
  BY <1>18 DEF TimerOff, Go
<1>19. ASSUME NEW t \in Threads, ReadFlags(t)
     PROVE  SessionInv'
  BY <1>19 DEF ReadFlags, Go
<1>20. ASSUME NEW t \in Threads, UpdateStat(t)
     PROVE  SessionInv'
  BY <1>20 DEF UpdateStat, Go, LogStatChanged
<1>21. ASSUME NEW t \in Threads, Commit(t)
     PROVE  SessionInv'
  BY <1>21 DEF Commit, Go, BootChanged, NewTransport, FlowChanges, LogStatChanged
<1>22. ASSUME NEW t \in Threads, CommitFail(t)
     PROVE  SessionInv'
  BY <1>22 DEF CommitFail, Go, Finish, NoFlags, NewTransport, FlowChanges, BootChanged, LogStatChanged
<1>23. ASSUME NEW t \in Threads, TimerOn(t)
     PROVE  SessionInv'
  BY <1>23 DEF TimerOn, Go, Finish, LogsSomething, NoFlags
<1>24. CASE TimePasses
  BY <1>24 DEF TimePasses
<1>25. CASE UNCHANGED vars
  BY <1>25 DEF vars
<1>. QED
  BY <1>1, <1>2, <1>3, <1>4, <1>5, <1>6, <1>7, <1>8, <1>9, <1>10, <1>11, <1>12,
     <1>13, <1>14, <1>15, <1>16, <1>17, <1>18, <1>19, <1>20, <1>21, <1>22, <1>23, <1>24,
     <1>25
  DEF Next, Session, Request, Continue

-----------------------------------------------------------------------------
IInv == TypeOK /\ UpdateInv /\ WorkInv /\ NoStaleDecisions /\ SessionInv

(* The inductive invariant of the control plane. *)
THEOREM DeviceInvariant == Spec => []IInv
<1>1. Init => WorkInv /\ NoStaleDecisions /\ SessionInv
  BY DEF Init, WorkInv, ItemQueuedOnce, NoStaleDecisions, SessionInv, Connected, Threads
<1>2. Init => IInv
  BY <1>1, InitTypes DEF IInv
<1>3. IInv /\ [Next]_vars => IInv'
  BY StepTypes, StepWork, StepStale, StepSession DEF IInv
<1>. QED
  BY <1>2, <1>3, PTL DEF Spec

(* Threads stay in their places (no callback gets to the provider's        *)
(* transaction, fort_app_period_timer), and the state keeps its types.     *)
THEOREM DeviceTypes == Spec => []TypeOK
BY DeviceInvariant, PTL DEF IInv

(* The work item is not queued before its callback has cleared the bits    *)
(* (fort_worker_queue, fort_worker_callback), for any number of callbacks. *)
THEOREM QueuedOnce == Spec => []ItemQueuedOnce
<1>1. IInv => ItemQueuedOnce
  BY DEF IInv, WorkInv
<1>. QED
  BY <1>1, DeviceInvariant, PTL

(* Decisions that are out of date are about to be replaced, unless the     *)
(* provider failed (fort_callout_force_reauth), whatever overlaps.         *)
THEOREM DecisionsNotStale == Spec => []NoStaleDecisions
BY DeviceInvariant, PTL DEF IInv

(* Nothing of a session is left after the last one (fort_device_cleanup),  *)
(* for any clients whose sessions and cleanups overlap.                    *)
THEOREM ClosedDeviceIsClear == Spec => []ClosedIsClear
<1>1. IInv => ClosedIsClear
  BY DEF IInv, SessionInv, ClosedIsClear
<1>. QED
  BY <1>1, DeviceInvariant, PTL

-----------------------------------------------------------------------------
(* Operations that do not overlap: whatever was requested, the controls    *)
(* follow the flags in the end.                                            *)

(* The flow filters of some flags; the app timer of the configuration. *)
FlowOf(stat, transport) == IF ~ stat THEN "none" ELSE IF transport THEN "transport" ELSE "stat"
AppTimerOf == HasPeriods /\ conf.flags.group

(* Operations do not overlap. *)
Alone == \A s, t \in Threads : s \in Busy /\ t \in Busy => s = t

(* The device's flags are the configuration's.                             *)
ConfInv == IF conf = None THEN ~ conf_flags.log_stat
  ELSE /\ conf_flags.log_stat = conf.flags.log_stat
       /\ conf_flags.prov_boot = conf.flags.prov_boot /\ prov_boot = conf.flags.prov_boot
       /\ conf.mask = conf_flags.group

(* What is about to be written was read from the configuration that is set. *)
ReadInv == \A t \in Threads : update[t] # None =>
   pc[t] = "write" /\ update[t].current /\ HasPeriods /\ update[t].n = conf.flags.group

(* A thread that has changed nothing of what the controls follow: all is   *)
(* in line as long as every thread is there.                               *)
Before(t) == pc[t] \in Idle \cup {"clearConf", "clear", "readOld"} \/ t \in Callbacks
Quiet ==
  /\ log_stat = conf_flags.log_stat /\ (~ failed => log_timer = LogsSomething(conf_flags))
  /\ app_timer = AppTimerOf
  /\ ~ faulty => prov = [boot |-> prov_boot, flow |-> FlowOf(log_stat, filter_transport)]
QuietInv == (\A t \in Threads : Before(t)) => Quiet

(* The device's transport flag, when no change of period is waited for.    *)
TransportInv ==
  (~ faulty /\ ~ queued /\ \A t \in Threads : pc[t] \in Idle \/ (t \in Callbacks /\ pc[t] # "queue"))
    => filter_transport = (conf_flags.group /\ filter)

(* The boot filters are right, or will be when the transaction finds flags *)
(* F differ.                                                               *)
BootToSet(F) ==
  IF F.prov_boot = conf_flags.prov_boot
  THEN prov.boot = prov_boot ELSE conf_flags.prov_boot = prov_boot

(* How far a reauthorization has come, and what is in line by then.        *)
Phase(t) ==
  /\ pc[t] \in {"clearZones", "off", "take", "write", "flags", "stat"} => log_stat = old[t].log_stat
  /\ pc[t] \in {"clearZones", "off", "take", "write", "flags", "stat", "commit"} /\ ~ faulty =>
      BootToSet(old[t]) /\ prov.flow = FlowOf(old[t].log_stat, filter_transport)
  /\ pc[t] \in {"flags", "stat", "commit", "on"} => app_timer = AppTimerOf
  /\ pc[t] \in {"stat", "commit", "on"} => seen[t] = conf_flags
  /\ pc[t] \in {"commit", "on"} => log_stat = conf_flags.log_stat
  /\ pc[t] = "on" =>
      /\ ~ failed
      /\ ~ faulty => /\ prov = [boot |-> prov_boot, flow |-> FlowOf(log_stat, filter_transport)]
                     /\ filter_transport = (conf_flags.group /\ filter)

PhasesInv == \A t \in Threads \ Callbacks : Phase(t)

(* The parts together. *)
Inside == Alone /\ ConfInv /\ ReadInv /\ (failed => faulty) /\ QuietInv /\ TransportInv
  /\ PhasesInv

(* A step, if the provider fails in the behaviours only where it may. *)
Goes == Next /\ (failed' => faulty) /\ UNCHANGED faulty

(* An operation that does not overlap: every other thread is idle. *)
LEMMA Others ==
  ASSUME Alone, NEW t \in Threads, pc[t] \notin Idle
  PROVE  \A s \in Threads \ {t} : pc[s] \in Idle
BY DEF Alone, Busy

(* Before an operation has changed anything the controls are in line. *)
LEMMA QuietBefore ==
  ASSUME Alone, QuietInv, NEW t \in Threads, pc[t] \in Idle => Busy = {}, Before(t)
  PROVE  Quiet /\ \A s \in Threads \ {t} : pc[s] \in Idle
<1>1. \A s \in Threads \ {t} : pc[s] \in Idle
  BY Others DEF Busy
<1>2. \A s \in Threads : Before(s)
  BY <1>1 DEF Before
<1>. QED
  BY <1>1, <1>2 DEF QuietInv

(* Only the thread of the operation is in a phase of it. *)
LEMMA OnePhase ==
  ASSUME NEW t \in Threads, \A s \in Threads \ {t} : pc'[s] \in Idle, t \notin Callbacks => Phase(t)'
  PROVE  PhasesInv'
<1> SUFFICES ASSUME NEW s \in Threads \ Callbacks PROVE Phase(s)'
  BY DEF PhasesInv
<1>1. CASE s = t
  BY <1>1
<1>2. CASE s # t
  BY <1>2 DEF Phase, Idle
<1>. QED
  BY <1>1, <1>2

(* The configuration and its flags have their types. *)
LEMMA ConfKnown ==
  ASSUME PartsOK, conf # None
  PROVE  /\ conf \in ConfValues /\ conf.flags \in Flags
         /\ conf = [owner |-> conf.owner, flags |-> conf.flags, periods |-> conf.periods,
                    mask |-> conf.mask]
         /\ conf.periods \in BOOLEAN /\ conf.flags.group \in BOOLEAN
BY DEF PartsOK, ConfOK, ConfValues, Flags

(* What a request takes for the old flags is what the controls follow. *)
LEMMA OldFollowed ==
  ASSUME PartsOK, ConfInv
  PROVE  OldFlags.log_stat = conf_flags.log_stat /\ OldFlags.prov_boot = prov_boot
<1>1. conf_flags.log_stat \in BOOLEAN
  BY DEF PartsOK, FlagsOK, Flags
<1>2. CASE conf = None
  BY <1>1, <1>2 DEF ConfInv, OldFlags, NoFlags
<1>3. CASE conf # None
  BY <1>3 DEF ConfInv, OldFlags
<1>. QED
  BY <1>2, <1>3

(* SETFLAGS: the device's flags and the configuration's change together. *)
LEMMA SetFlagsConf ==
  ASSUME PartsOK, NEW c \in Clients, NEW F \in FlagSets, SetFlags(c, F)
  PROVE  ConfInv'
<1>0. F \in Flags
  BY DeviceAssumption
<1>1. CASE conf = None
  BY <1>1 DEF SetFlags, ConfInv, NoFlags
<1>2. CASE conf # None
  <2>1. conf' = [conf EXCEPT !.flags = F, !.mask = F.group] /\ conf_flags' = F
        /\ prov_boot' = F.prov_boot
    BY <1>2 DEF SetFlags
  <2>2. conf' = [owner |-> conf.owner, flags |-> F, periods |-> conf.periods, mask |-> F.group]
    BY <1>2, <2>1, ConfKnown
  <2>3. conf' \in ConfValues
    BY <1>0, <1>2, <2>2, ConfKnown DEF ConfValues, Flags
  <2>4. conf' # None
    BY <2>3, NoneAssumption
  <2>. QED
    BY <2>1, <2>2, <2>4 DEF ConfInv
<1>. QED
  BY <1>1, <1>2

(* A period's change, as the rest of the configuration sees it. *)
LEMMA PeriodWriteEffects ==
  ASSUME PartsOK, NEW t \in Threads, PeriodWrite(t)
  PROVE  /\ conf_flags'.log_stat = conf_flags.log_stat /\ conf_flags'.log = conf_flags.log
         /\ conf_flags'.prov_boot = conf_flags.prov_boot
         /\ AppTimerOf' = AppTimerOf /\ HasPeriods' = HasPeriods
<1>1. conf_flags' = conf_flags \/ \E g : conf_flags' = [conf_flags EXCEPT !.group = g]
  BY DEF PeriodWrite
<1>2. /\ conf_flags'.log_stat = conf_flags.log_stat /\ conf_flags'.log = conf_flags.log
      /\ conf_flags'.prov_boot = conf_flags.prov_boot
  BY <1>1 DEF PartsOK, FlagsOK, Flags
<1>3. conf' = conf \/ (conf # None /\ \E g \in BOOLEAN : conf' = [conf EXCEPT !.mask = g])
  <2>1. update[t] \in Updates /\ (update[t].current => conf # None)
    BY DEF PeriodWrite, PartsOK, ConfOK, UpdateInv
  <2>. QED
    BY <2>1 DEF PeriodWrite, Updates
<1>4. AppTimerOf' = AppTimerOf /\ HasPeriods' = HasPeriods
  <2>1. CASE conf' = conf
    BY <2>1 DEF AppTimerOf, HasPeriods
  <2>2. CASE conf # None /\ \E g \in BOOLEAN : conf' = [conf EXCEPT !.mask = g]
    <3>1. PICK g \in BOOLEAN : conf' = [conf EXCEPT !.mask = g]
      BY <2>2
    <3>2. conf'.periods = conf.periods /\ conf'.flags = conf.flags /\ conf' \in ConfValues
      BY <2>2, <3>1, ConfKnown DEF ConfValues
    <3>3. conf' # None
      BY <3>2, NoneAssumption
    <3>. QED
      BY <2>2, <3>2, <3>3 DEF AppTimerOf, HasPeriods
  <2>. QED
    BY <1>3, <2>1, <2>2
<1>. QED
  BY <1>2, <1>4

(* A period's change is written: by a callback, which leaves the controls  *)
(* as they were, or by a reauthorization that goes on.                     *)
LEMMA PeriodWriteQuiet ==
  ASSUME PartsOK, Inside, NEW t \in Threads, PeriodWrite(t), failed' = failed, UNCHANGED faulty
  PROVE  QuietInv'
<1>1. pc[t] = "write" /\ pc \in [Threads -> AllPlaces] /\ t \in Threads
  BY DEF PeriodWrite, PartsOK, PcOK
<1>2. CASE t \notin Callbacks
  <2>1. pc'[t] = "flags"
    BY <1>1, <1>2 DEF PeriodWrite, Go, AfterChange
  <2>2. ~ Before(t)'
    BY <1>2, <2>1 DEF Before, Idle
  <2>. QED
    BY <2>2 DEF QuietInv
<1>3. CASE t \in Callbacks
  <2>1. Quiet
    BY <1>1, <1>3, QuietBefore DEF Inside, Before, Idle
  <2>2. conf_flags'.log_stat = conf_flags.log_stat /\ conf_flags'.log = conf_flags.log
        /\ AppTimerOf' = AppTimerOf
    BY PeriodWriteEffects
  <2>3. /\ app_timer' = app_timer /\ log_stat' = log_stat /\ log_timer' = log_timer
        /\ prov' = prov /\ prov_boot' = prov_boot /\ filter_transport' = filter_transport
    BY <1>3 DEF PeriodWrite, provVars
  <2>4. Quiet'
    BY <2>1, <2>2, <2>3 DEF Quiet, LogsSomething
  <2>. QED
    BY <2>4 DEF QuietInv
<1>. QED
  BY <1>2, <1>3

(* Places of the threads that reach the transaction. *)
LEMMA NotACallback ==
  ASSUME PartsOK, NEW t \in Threads, pc[t] \in {"commit", "on", "readOld", "clearConf"}
  PROVE  t \notin Callbacks
BY DEF PartsOK, PcOK, Places

(* The transaction fails: the statistics and the app timer are in line     *)
(* already.                                                                *)
LEMMA CommitFailQuiet ==
  ASSUME PartsOK, Inside, NEW t \in Threads, CommitFail(t), failed' => faulty, UNCHANGED faulty
  PROVE  QuietInv'
<1>1. pc[t] = "commit" /\ failed' = TRUE
  BY DEF CommitFail
<1>2. log_stat = conf_flags.log_stat /\ app_timer = AppTimerOf
  BY <1>1, NotACallback DEF Inside, PhasesInv, Phase
<1>3. log_stat' = log_stat /\ conf_flags' = conf_flags /\ app_timer' = app_timer /\ conf' = conf
  BY DEF CommitFail, confVars, timerVars
<1>4. AppTimerOf' = AppTimerOf
  BY <1>3 DEF AppTimerOf, HasPeriods
<1>5. Quiet'
  BY <1>1, <1>2, <1>3, <1>4 DEF Quiet
<1>. QED
  BY <1>5 DEF QuietInv

(* The end of a reauthorization: the log timer follows, and everything is  *)
(* in line.                                                                *)
LEMMA TimerOnQuiet ==
  ASSUME PartsOK, Inside, NEW t \in Threads, TimerOn(t), UNCHANGED faulty
  PROVE  QuietInv' /\ TransportInv' /\ PhasesInv'
<1>1. pc[t] = "on" /\ t \notin Callbacks /\ pc \in [Threads -> AllPlaces]
  BY NotACallback DEF TimerOn, PartsOK, PcOK
<1>2. Phase(t)
  BY <1>1 DEF Inside, PhasesInv
<1>3. /\ app_timer = AppTimerOf /\ seen[t] = conf_flags /\ log_stat = conf_flags.log_stat
      /\ (~ faulty => prov = [boot |-> prov_boot, flow |-> FlowOf(log_stat, filter_transport)]
                      /\ filter_transport = (conf_flags.group /\ filter))
  BY <1>1, <1>2 DEF Phase
<1>4. /\ log_timer' = LogsSomething(conf_flags) /\ log_stat' = log_stat /\ conf_flags' = conf_flags
      /\ app_timer' = app_timer /\ conf' = conf /\ prov' = prov /\ prov_boot' = prov_boot
      /\ filter_transport' = filter_transport /\ filter' = filter
  BY <1>3 DEF TimerOn, confVars, provVars
<1>5. AppTimerOf' = AppTimerOf /\ log_timer' = LogsSomething(conf_flags')
  BY <1>4 DEF AppTimerOf, HasPeriods
<1>6. Quiet'
  BY <1>3, <1>4, <1>5 DEF Quiet
<1>7. filter_transport' = (conf_flags'.group /\ filter') \/ faulty'
  BY <1>3, <1>4
<1>8. pc'[t] \in Idle /\ \A s \in Threads \ {t} : pc'[s] \in Idle
  <2>1. \A s \in Threads \ {t} : pc[s] \in Idle
    BY <1>1, Others DEF Inside, Idle
  <2>. QED
    BY <1>1, <2>1 DEF TimerOn, Finish, Go, Idle
<1>9. PhasesInv'
  BY <1>8, OnePhase DEF Phase, Idle
<1>. QED
  BY <1>6, <1>7, <1>9 DEF QuietInv, TransportInv

(* The app timer runs if the configuration that was read has a group with   *)
(* periods; the old flags are still to be compared.                         *)
LEMMA PeriodWritePhases ==
  ASSUME PartsOK, Inside, NEW t \in Threads, PeriodWrite(t), UNCHANGED faulty
  PROVE  PhasesInv'
<1>1. pc[t] = "write" /\ pc \in [Threads -> AllPlaces] /\ update[t] # None
  BY DEF PeriodWrite, PartsOK, PcOK, ConfOK, UpdateInv
<1>2. pc' = [pc EXCEPT ![t] = pc'[t]] /\ (t \notin Callbacks => pc'[t] = "flags")
  BY <1>1 DEF PeriodWrite, Go, AfterChange
<1>3. \A s \in Threads \ {t} : pc'[s] \in Idle
  BY <1>1, <1>2, Others DEF Inside, Idle
<1>4. ASSUME t \notin Callbacks PROVE Phase(t)'
  <2>1. log_stat = old[t].log_stat /\ (~ faulty => BootToSet(old[t])
          /\ prov.flow = FlowOf(old[t].log_stat, filter_transport))
    BY <1>1, <1>4 DEF Inside, PhasesInv, Phase
  <2>2. app_timer' = update[t].n /\ HasPeriods /\ update[t].n = conf.flags.group
    BY <1>1, <1>4 DEF PeriodWrite, Inside, ReadInv
  <2>3. app_timer' = AppTimerOf'
    <3>1. conf.flags.group \in BOOLEAN
      BY <2>2, ConfKnown DEF HasPeriods
    <3>. QED
      BY <2>2, <3>1, PeriodWriteEffects DEF AppTimerOf
  <2>4. /\ old' = old /\ log_stat' = log_stat /\ prov' = prov /\ prov_boot' = prov_boot
        /\ filter_transport' = filter_transport
    BY DEF PeriodWrite, provVars
  <2>5. ~ faulty => BootToSet(old[t])'
    BY <2>1, <2>4, PeriodWriteEffects DEF BootToSet
  <2>. QED
    BY <1>2, <1>4, <2>1, <2>3, <2>4, <2>5 DEF Phase
<1>. QED
  BY <1>3, <1>4, OnePhase

(* SETCONF begins with the controls that the flags it replaces ask for. *)
LEMMA SetConfPhases ==
  ASSUME PartsOK, ~ Overlaps, Inside, NEW c \in Clients, NEW C \in Confs, SetConf(c, C),
         UNCHANGED faulty
  PROVE  PhasesInv'
<1>1. pc[c] = "in" /\ pc \in [Threads -> AllPlaces] /\ old \in [Threads -> Flags] /\ c \in Threads
  BY DEF SetConf, Accepted, PartsOK, PcOK, FlagsOK, Threads
<1>2. Busy = {} /\ pc' = [pc EXCEPT ![c] = "off"] /\ old' = [old EXCEPT ![c] = OldFlags]
      /\ conf_flags' = C.flags /\ prov_boot' = C.flags.prov_boot /\ log_stat' = log_stat
      /\ prov' = prov /\ filter_transport' = filter_transport
  BY DEF SetConf, Begin, Go, provVars
<1>3. Quiet /\ \A s \in Threads \ {c} : pc[s] \in Idle
  BY <1>1, <1>2, QuietBefore DEF Inside, Before, Idle
<1>4. old'[c].log_stat = log_stat /\ old'[c].prov_boot = prov_boot
  BY <1>1, <1>2, <1>3, OldFollowed DEF Inside, Quiet
<1>5. ~ faulty => prov.boot = prov_boot /\ prov.flow = FlowOf(log_stat, filter_transport)
  BY <1>3 DEF Quiet
<1>6. pc'[c] = "off" /\ \A s \in Threads \ {c} : pc'[s] \in Idle
  BY <1>1, <1>2, <1>3
<1>7. ~ faulty' => BootToSet(old[c])' /\ prov'.flow = FlowOf(old'[c].log_stat, filter_transport')
  BY <1>2, <1>4, <1>5 DEF BootToSet
<1>8. Phase(c)'
  BY <1>2, <1>4, <1>6, <1>7 DEF Phase
<1>. QED
  BY <1>1, <1>6, <1>8, OnePhase

(* SETFLAGS likewise, with a configuration or without. *)
LEMMA SetFlagsPhases ==
  ASSUME PartsOK, ~ Overlaps, Inside, NEW c \in Clients, NEW F \in FlagSets, SetFlags(c, F),
         UNCHANGED faulty
  PROVE  PhasesInv'
<1>1. pc[c] = "in" /\ pc \in [Threads -> AllPlaces] /\ old \in [Threads -> Flags] /\ c \in Threads
  BY DEF SetFlags, Accepted, PartsOK, PcOK, FlagsOK, Threads
<1>2. Busy = {} /\ pc' = [pc EXCEPT ![c] = "off"] /\ old' = [old EXCEPT ![c] = OldFlags]
      /\ conf_flags'.prov_boot = prov_boot' /\ log_stat' = log_stat
      /\ prov' = prov /\ filter_transport' = filter_transport
  BY DEF SetFlags, Begin, Go, provVars, NoFlags
<1>3. Quiet /\ \A s \in Threads \ {c} : pc[s] \in Idle
  BY <1>1, <1>2, QuietBefore DEF Inside, Before, Idle
<1>4. old'[c].log_stat = log_stat /\ old'[c].prov_boot = prov_boot
  BY <1>1, <1>2, <1>3, OldFollowed DEF Inside, Quiet
<1>5. ~ faulty => prov.boot = prov_boot /\ prov.flow = FlowOf(log_stat, filter_transport)
  BY <1>3 DEF Quiet
<1>6. pc'[c] = "off" /\ \A s \in Threads \ {c} : pc'[s] \in Idle
  BY <1>1, <1>2, <1>3
<1>7. ~ faulty' => BootToSet(old[c])' /\ prov'.flow = FlowOf(old'[c].log_stat, filter_transport')
  BY <1>2, <1>4, <1>5 DEF BootToSet
<1>8. Phase(c)'
  BY <1>2, <1>4, <1>6, <1>7 DEF Phase
<1>. QED
  BY <1>1, <1>6, <1>8, OnePhase

(* A cleanup drops the configuration. *)
LEMMA CleanupPhases ==
  ASSUME PartsOK, Inside, NEW t \in Threads, CleanupConf(t), UNCHANGED faulty
  PROVE  PhasesInv'
<1>1. pc[t] = "clearConf" /\ pc \in [Threads -> AllPlaces] /\ old \in [Threads -> Flags]
  BY DEF CleanupConf, PartsOK, PcOK, FlagsOK
<1>2. pc' = [pc EXCEPT ![t] = "clearZones"] /\ old' = [old EXCEPT ![t] = OldFlags]
      /\ conf_flags'.prov_boot = prov_boot' /\ log_stat' = log_stat
      /\ prov' = prov /\ filter_transport' = filter_transport
  BY DEF CleanupConf, Go, provVars, NoFlags, ClearedFlags
<1>3. Quiet /\ \A s \in Threads \ {t} : pc[s] \in Idle
  BY <1>1, <1>2, QuietBefore DEF Inside, Before, Idle
<1>4. old'[t].log_stat = log_stat /\ old'[t].prov_boot = prov_boot
  BY <1>1, <1>2, <1>3, OldFollowed DEF Inside, Quiet
<1>5. ~ faulty => prov.boot = prov_boot /\ prov.flow = FlowOf(log_stat, filter_transport)
  BY <1>3 DEF Quiet
<1>6. pc'[t] = "clearZones" /\ \A s \in Threads \ {t} : pc'[s] \in Idle
  BY <1>1, <1>2, <1>3
<1>7. ~ faulty' => BootToSet(old[t])' /\ prov'.flow = FlowOf(old'[t].log_stat, filter_transport')
  BY <1>2, <1>4, <1>5 DEF BootToSet
<1>8. Phase(t)'
  BY <1>2, <1>4, <1>6, <1>7 DEF Phase
<1>. QED
  BY <1>6, <1>8, OnePhase

(* A reauthorization that reads the old flags itself. *)
LEMMA ReadOldPhases ==
  ASSUME PartsOK, Inside, NEW t \in Threads, ReadOld(t), UNCHANGED faulty
  PROVE  PhasesInv'
<1>1. pc[t] = "readOld" /\ pc \in [Threads -> AllPlaces] /\ old \in [Threads -> Flags]
  BY DEF ReadOld, PartsOK, PcOK, FlagsOK
<1>2. pc' = [pc EXCEPT ![t] = "off"] /\ old' = [old EXCEPT ![t] = conf_flags]
      /\ conf_flags' = conf_flags /\ prov_boot' = prov_boot /\ log_stat' = log_stat
      /\ prov' = prov /\ filter_transport' = filter_transport
  BY DEF ReadOld, Go, provVars, confVars
<1>3. Quiet /\ \A s \in Threads \ {t} : pc[s] \in Idle
  BY <1>1, <1>2, QuietBefore DEF Inside, Before, Idle
<1>4. old'[t] = conf_flags /\ log_stat = conf_flags.log_stat
  BY <1>1, <1>2, <1>3 DEF Quiet
<1>5. ~ faulty => prov.boot = prov_boot /\ prov.flow = FlowOf(log_stat, filter_transport)
  BY <1>3 DEF Quiet
<1>6. pc'[t] = "off" /\ \A s \in Threads \ {t} : pc'[s] \in Idle
  BY <1>1, <1>2, <1>3
<1>7. ~ faulty' => BootToSet(old[t])' /\ prov'.flow = FlowOf(old'[t].log_stat, filter_transport')
  BY <1>2, <1>4, <1>5 DEF BootToSet
<1>8. Phase(t)'
  BY <1>2, <1>4, <1>6, <1>7 DEF Phase
<1>. QED
  BY <1>6, <1>8, OnePhase

(* A callback begins: no reauthorization is in any phase. *)
LEMMA CallbackPhases ==
  ASSUME PartsOK, ~ Overlaps, NEW d \in Callbacks, CallbackBegin(d)
  PROVE  PhasesInv'
<1>1. Busy = {} /\ pc' = [pc EXCEPT ![d] = "take"] /\ pc \in [Threads -> AllPlaces] /\ d \in Threads
  BY DEF CallbackBegin, Begin, Go, PartsOK, PcOK, Threads
<1>2. \A s \in Threads \ {d} : pc'[s] \in Idle
  BY <1>1 DEF Busy
<1>. QED
  BY <1>1, <1>2, OnePhase

(* One operation at a time. *)
LEMMA StepAlone ==
  ASSUME ~ Overlaps, PartsOK, WorkInv, Inside, Goes
  PROVE  Alone'
<1> USE DeviceAssumption, NoneAssumption
    DEF deviceVars, confVars, timerVars, provVars, workVars, localVars, ghosts,
        PartsOK, BoolsOK, FlagsOK, ConfOK, UpdateInv, PcOK, ProvOK, Threads, Flags, ConfValues, Updates,
        Inside, Alone, Busy, Idle, ConfInv, ReadInv, Places, ReauthPlaces,
        Busy, Idle, Goes, WorkInv, ItemQueuedOnce
<1>1. ASSUME NEW c \in Clients, Create(c)
     PROVE  Alone'
  BY <1>1 DEF Create, Go
<1>2. ASSUME NEW c \in Clients, Validate(c)
     PROVE  Alone'
  BY <1>2 DEF Validate
<1>3. ASSUME NEW c \in Clients, CleanupBegin(c)
     PROVE  Alone'
  BY <1>3 DEF CleanupBegin, Go, Begin, ClosedFlags
<1>4. ASSUME NEW c \in Clients, NEW C \in Confs, SetConf(c, C)
     PROVE  Alone'
  BY <1>4 DEF SetConf, Go, Begin, Accepted, Replaced, OldFlags, NoFlags
<1>5. ASSUME NEW c \in Clients, NEW F \in FlagSets, SetFlags(c, F)
     PROVE  Alone'
  BY <1>5 DEF SetFlags, Go, Begin, Accepted, OldFlags, NoFlags
<1>6. ASSUME NEW c \in Clients, SetApp(c)
     PROVE  Alone'
  BY <1>6 DEF SetApp, Go, Begin, Accepted
<1>7. ASSUME NEW c \in Clients, SetZones(c)
     PROVE  Alone'
  BY <1>7 DEF SetZones, Go, Begin, Accepted
<1>8. ASSUME NEW w \in Workers, WorkerStart(w)
     PROVE  Alone'
  BY <1>8 DEF WorkerStart, Go, Begin
<1>9. ASSUME NEW d \in Callbacks, CallbackBegin(d)
     PROVE  Alone'
  BY <1>9 DEF CallbackBegin, Go, Begin
<1>10. ASSUME NEW t \in Threads, CleanupConf(t)
     PROVE  Alone'
  BY <1>10 DEF CleanupConf, Go, Replaced, OldFlags, ClearedFlags, NoFlags
<1>11. ASSUME NEW t \in Threads, CleanupZones(t)
     PROVE  Alone'
  BY <1>11 DEF CleanupZones, Go, ClearedZones
<1>12. ASSUME NEW t \in Threads, WorkerClear(t)
     PROVE  Alone'
  BY <1>12 DEF WorkerClear, Go, ClearedBits
<1>13. ASSUME NEW t \in Threads, ReadOld(t)
     PROVE  Alone'
  BY <1>13 DEF ReadOld, Go
<1>14. ASSUME NEW t \in Threads, QueueWork(t)
     PROVE  Alone'
  BY <1>14 DEF QueueWork, Go, QueuedNow
<1>15. ASSUME NEW t \in Threads, PeriodNone(t)
     PROVE  Alone'
  BY <1>15 DEF PeriodNone, Go, AfterNone
<1>16. ASSUME NEW t \in Threads, PeriodRead(t)
     PROVE  Alone'
  BY <1>16 DEF PeriodRead, Go
<1>17. ASSUME NEW t \in Threads, PeriodWrite(t)
     PROVE  Alone'
  BY <1>17 DEF PeriodWrite, Go, AfterChange
<1>18. ASSUME NEW t \in Threads, TimerOff(t)
     PROVE  Alone'
  BY <1>18 DEF TimerOff, Go
<1>19. ASSUME NEW t \in Threads, ReadFlags(t)
     PROVE  Alone'
  BY <1>19 DEF ReadFlags, Go
<1>20. ASSUME NEW t \in Threads, UpdateStat(t)
     PROVE  Alone'
  BY <1>20 DEF UpdateStat, Go, LogStatChanged
<1>21. ASSUME NEW t \in Threads, Commit(t)
     PROVE  Alone'
  BY <1>21 DEF Commit, Go, BootChanged, NewTransport, FlowChanges, LogStatChanged
<1>22. ASSUME NEW t \in Threads, CommitFail(t)
     PROVE  Alone'
  BY <1>22 DEF CommitFail, Go, Finish, NewTransport, FlowChanges, BootChanged, LogStatChanged, NoFlags
<1>23. ASSUME NEW t \in Threads, TimerOn(t)
     PROVE  Alone'
  BY <1>23 DEF TimerOn, Go, Finish, NoFlags
<1>24. CASE TimePasses
  BY <1>24 DEF TimePasses
<1>. QED
  BY <1>1, <1>2, <1>3, <1>4, <1>5, <1>6, <1>7, <1>8, <1>9, <1>10, <1>11, <1>12,
     <1>13, <1>14, <1>15, <1>16, <1>17, <1>18, <1>19, <1>20, <1>21, <1>22, <1>23, <1>24
  DEF Next, Session, Request, Continue

(* The flags of the device and of the configuration change together. *)
LEMMA StepConfInv ==
  ASSUME ~ Overlaps, PartsOK, WorkInv, Inside, Goes
  PROVE  ConfInv'
<1> USE DeviceAssumption, NoneAssumption
    DEF deviceVars, confVars, timerVars, provVars, workVars, localVars, ghosts,
        PartsOK, BoolsOK, FlagsOK, ConfOK, UpdateInv, PcOK, ProvOK, Threads, Flags, ConfValues, Updates,
        Inside, Alone, Busy, Idle, ConfInv, ReadInv, Places, ReauthPlaces,
        ConfInv, Goes, WorkInv, ItemQueuedOnce
<1>1. ASSUME NEW c \in Clients, Create(c)
     PROVE  ConfInv'
  BY <1>1 DEF Create, Go
<1>2. ASSUME NEW c \in Clients, Validate(c)
     PROVE  ConfInv'
  BY <1>2 DEF Validate
<1>3. ASSUME NEW c \in Clients, CleanupBegin(c)
     PROVE  ConfInv'
  BY <1>3 DEF CleanupBegin, Go, Begin, ClosedFlags
<1>4. ASSUME NEW c \in Clients, NEW C \in Confs, SetConf(c, C)
     PROVE  ConfInv'
  BY <1>4 DEF SetConf, Go, Begin, Accepted, Replaced, OldFlags, NoFlags
<1>5. ASSUME NEW c \in Clients, NEW F \in FlagSets, SetFlags(c, F)
     PROVE  ConfInv'
  BY <1>5, SetFlagsConf
<1>6. ASSUME NEW c \in Clients, SetApp(c)
     PROVE  ConfInv'
  BY <1>6 DEF SetApp, Go, Begin, Accepted
<1>7. ASSUME NEW c \in Clients, SetZones(c)
     PROVE  ConfInv'
  BY <1>7 DEF SetZones, Go, Begin, Accepted
<1>8. ASSUME NEW w \in Workers, WorkerStart(w)
     PROVE  ConfInv'
  BY <1>8 DEF WorkerStart, Go, Begin
<1>9. ASSUME NEW d \in Callbacks, CallbackBegin(d)
     PROVE  ConfInv'
  BY <1>9 DEF CallbackBegin, Go, Begin
<1>10. ASSUME NEW t \in Threads, CleanupConf(t)
     PROVE  ConfInv'
  BY <1>10 DEF CleanupConf, Go, Replaced, OldFlags, ClearedFlags, NoFlags
<1>11. ASSUME NEW t \in Threads, CleanupZones(t)
     PROVE  ConfInv'
  BY <1>11 DEF CleanupZones, Go, ClearedZones
<1>12. ASSUME NEW t \in Threads, WorkerClear(t)
     PROVE  ConfInv'
  BY <1>12 DEF WorkerClear, Go, ClearedBits
<1>13. ASSUME NEW t \in Threads, ReadOld(t)
     PROVE  ConfInv'
  BY <1>13 DEF ReadOld, Go
<1>14. ASSUME NEW t \in Threads, QueueWork(t)
     PROVE  ConfInv'
  BY <1>14 DEF QueueWork, Go, QueuedNow
<1>15. ASSUME NEW t \in Threads, PeriodNone(t)
     PROVE  ConfInv'
  BY <1>15 DEF PeriodNone, Go, AfterNone
<1>16. ASSUME NEW t \in Threads, PeriodRead(t)
     PROVE  ConfInv'
  BY <1>16 DEF PeriodRead, Go
<1>17. ASSUME NEW t \in Threads, PeriodWrite(t)
     PROVE  ConfInv'
  BY <1>17 DEF PeriodWrite, Go, AfterChange
<1>18. ASSUME NEW t \in Threads, TimerOff(t)
     PROVE  ConfInv'
  BY <1>18 DEF TimerOff, Go
<1>19. ASSUME NEW t \in Threads, ReadFlags(t)
     PROVE  ConfInv'
  BY <1>19 DEF ReadFlags, Go
<1>20. ASSUME NEW t \in Threads, UpdateStat(t)
     PROVE  ConfInv'
  BY <1>20 DEF UpdateStat, Go, LogStatChanged
<1>21. ASSUME NEW t \in Threads, Commit(t)
     PROVE  ConfInv'
  BY <1>21 DEF Commit, Go, BootChanged, NewTransport, FlowChanges, LogStatChanged
<1>22. ASSUME NEW t \in Threads, CommitFail(t)
     PROVE  ConfInv'
  BY <1>22 DEF CommitFail, Go, Finish, NewTransport, FlowChanges, BootChanged, LogStatChanged, NoFlags
<1>23. ASSUME NEW t \in Threads, TimerOn(t)
     PROVE  ConfInv'
  BY <1>23 DEF TimerOn, Go, Finish, NoFlags
<1>24. CASE TimePasses
  BY <1>24 DEF TimePasses
<1>. QED
  BY <1>1, <1>2, <1>3, <1>4, <1>5, <1>6, <1>7, <1>8, <1>9, <1>10, <1>11, <1>12,
     <1>13, <1>14, <1>15, <1>16, <1>17, <1>18, <1>19, <1>20, <1>21, <1>22, <1>23, <1>24
  DEF Next, Session, Request, Continue

(* A replaced configuration is not written to, as nothing overlaps. *)
LEMMA StepReadInv ==
  ASSUME ~ Overlaps, PartsOK, WorkInv, Inside, Goes
  PROVE  ReadInv'
<1> USE DeviceAssumption, NoneAssumption
    DEF deviceVars, confVars, timerVars, provVars, workVars, localVars, ghosts,
        PartsOK, BoolsOK, FlagsOK, ConfOK, UpdateInv, PcOK, ProvOK, Threads, Flags, ConfValues, Updates,
        Inside, Alone, Busy, Idle, ConfInv, ReadInv, Places, ReauthPlaces,
        ReadInv, HasPeriods, Goes, WorkInv, ItemQueuedOnce
<1>1. ASSUME NEW c \in Clients, Create(c)
     PROVE  ReadInv'
  BY <1>1 DEF Create, Go
<1>2. ASSUME NEW c \in Clients, Validate(c)
     PROVE  ReadInv'
  BY <1>2 DEF Validate
<1>3. ASSUME NEW c \in Clients, CleanupBegin(c)
     PROVE  ReadInv'
  BY <1>3 DEF CleanupBegin, Go, Begin, ClosedFlags
<1>4. ASSUME NEW c \in Clients, NEW C \in Confs, SetConf(c, C)
     PROVE  ReadInv'
  BY <1>4 DEF SetConf, Go, Begin, Accepted, Replaced, OldFlags, NoFlags
<1>5. ASSUME NEW c \in Clients, NEW F \in FlagSets, SetFlags(c, F)
     PROVE  ReadInv'
  BY <1>5 DEF SetFlags, Go, Begin, Accepted, OldFlags, NoFlags
<1>6. ASSUME NEW c \in Clients, SetApp(c)
     PROVE  ReadInv'
  BY <1>6 DEF SetApp, Go, Begin, Accepted
<1>7. ASSUME NEW c \in Clients, SetZones(c)
     PROVE  ReadInv'
  BY <1>7 DEF SetZones, Go, Begin, Accepted
<1>8. ASSUME NEW w \in Workers, WorkerStart(w)
     PROVE  ReadInv'
  BY <1>8 DEF WorkerStart, Go, Begin
<1>9. ASSUME NEW d \in Callbacks, CallbackBegin(d)
     PROVE  ReadInv'
  BY <1>9 DEF CallbackBegin, Go, Begin
<1>10. ASSUME NEW t \in Threads, CleanupConf(t)
     PROVE  ReadInv'
  BY <1>10 DEF CleanupConf, Go, Replaced, OldFlags, ClearedFlags, NoFlags
<1>11. ASSUME NEW t \in Threads, CleanupZones(t)
     PROVE  ReadInv'
  BY <1>11 DEF CleanupZones, Go, ClearedZones
<1>12. ASSUME NEW t \in Threads, WorkerClear(t)
     PROVE  ReadInv'
  BY <1>12 DEF WorkerClear, Go, ClearedBits
<1>13. ASSUME NEW t \in Threads, ReadOld(t)
     PROVE  ReadInv'
  BY <1>13 DEF ReadOld, Go
<1>14. ASSUME NEW t \in Threads, QueueWork(t)
     PROVE  ReadInv'
  BY <1>14 DEF QueueWork, Go, QueuedNow
<1>15. ASSUME NEW t \in Threads, PeriodNone(t)
     PROVE  ReadInv'
  BY <1>15 DEF PeriodNone, Go, AfterNone
<1>16. ASSUME NEW t \in Threads, PeriodRead(t)
     PROVE  ReadInv'
  BY <1>16 DEF PeriodRead, Go
<1>17. ASSUME NEW t \in Threads, PeriodWrite(t)
     PROVE  ReadInv'
  BY <1>17 DEF PeriodWrite, Go, AfterChange
<1>18. ASSUME NEW t \in Threads, TimerOff(t)
     PROVE  ReadInv'
  BY <1>18 DEF TimerOff, Go
<1>19. ASSUME NEW t \in Threads, ReadFlags(t)
     PROVE  ReadInv'
  BY <1>19 DEF ReadFlags, Go
<1>20. ASSUME NEW t \in Threads, UpdateStat(t)
     PROVE  ReadInv'
  BY <1>20 DEF UpdateStat, Go, LogStatChanged
<1>21. ASSUME NEW t \in Threads, Commit(t)
     PROVE  ReadInv'
  BY <1>21 DEF Commit, Go, BootChanged, NewTransport, FlowChanges, LogStatChanged
<1>22. ASSUME NEW t \in Threads, CommitFail(t)
     PROVE  ReadInv'
  BY <1>22 DEF CommitFail, Go, Finish, NewTransport, FlowChanges, BootChanged, LogStatChanged, NoFlags
<1>23. ASSUME NEW t \in Threads, TimerOn(t)
     PROVE  ReadInv'
  BY <1>23 DEF TimerOn, Go, Finish, NoFlags
<1>24. CASE TimePasses
  BY <1>24 DEF TimePasses
<1>. QED
  BY <1>1, <1>2, <1>3, <1>4, <1>5, <1>6, <1>7, <1>8, <1>9, <1>10, <1>11, <1>12,
     <1>13, <1>14, <1>15, <1>16, <1>17, <1>18, <1>19, <1>20, <1>21, <1>22, <1>23, <1>24
  DEF Next, Session, Request, Continue

(* The controls are in line while nothing has changed them. *)
LEMMA StepQuietInv ==
  ASSUME ~ Overlaps, PartsOK, WorkInv, Inside, Goes
  PROVE  QuietInv'
<1> USE DeviceAssumption, NoneAssumption
    DEF deviceVars, confVars, timerVars, provVars, workVars, localVars, ghosts,
        PartsOK, BoolsOK, FlagsOK, ConfOK, UpdateInv, PcOK, ProvOK, Threads, Flags, ConfValues, Updates,
        Inside, Alone, Busy, Idle, ConfInv, ReadInv, Places, ReauthPlaces,
        QuietInv, Quiet, Before, Idle, AppTimerOf, HasPeriods, FlowOf, Goes, WorkInv, ItemQueuedOnce
<1>1. ASSUME NEW c \in Clients, Create(c)
     PROVE  QuietInv'
  BY <1>1 DEF Create, Go
<1>2. ASSUME NEW c \in Clients, Validate(c)
     PROVE  QuietInv'
  BY <1>2 DEF Validate
<1>3. ASSUME NEW c \in Clients, CleanupBegin(c)
     PROVE  QuietInv'
  BY <1>3 DEF CleanupBegin, Go, Begin, ClosedFlags
<1>4. ASSUME NEW c \in Clients, NEW C \in Confs, SetConf(c, C)
     PROVE  QuietInv'
  BY <1>4 DEF SetConf, Go, Begin, Accepted, Replaced, OldFlags, NoFlags
<1>5. ASSUME NEW c \in Clients, NEW F \in FlagSets, SetFlags(c, F)
     PROVE  QuietInv'
  BY <1>5 DEF SetFlags, Go, Begin, Accepted, OldFlags, NoFlags
<1>6. ASSUME NEW c \in Clients, SetApp(c)
     PROVE  QuietInv'
  BY <1>6 DEF SetApp, Go, Begin, Accepted
<1>7. ASSUME NEW c \in Clients, SetZones(c)
     PROVE  QuietInv'
  BY <1>7 DEF SetZones, Go, Begin, Accepted
<1>8. ASSUME NEW w \in Workers, WorkerStart(w)
     PROVE  QuietInv'
  BY <1>8 DEF WorkerStart, Go, Begin
<1>9. ASSUME NEW d \in Callbacks, CallbackBegin(d)
     PROVE  QuietInv'
  BY <1>9 DEF CallbackBegin, Go, Begin
<1>10. ASSUME NEW t \in Threads, CleanupConf(t)
     PROVE  QuietInv'
  BY <1>10 DEF CleanupConf, Go, Replaced, OldFlags, ClearedFlags, NoFlags
<1>11. ASSUME NEW t \in Threads, CleanupZones(t)
     PROVE  QuietInv'
  BY <1>11 DEF CleanupZones, Go, ClearedZones
<1>12. ASSUME NEW t \in Threads, WorkerClear(t)
     PROVE  QuietInv'
  BY <1>12 DEF WorkerClear, Go, ClearedBits
<1>13. ASSUME NEW t \in Threads, ReadOld(t)
     PROVE  QuietInv'
  BY <1>13 DEF ReadOld, Go
<1>14. ASSUME NEW t \in Threads, QueueWork(t)
     PROVE  QuietInv'
  BY <1>14 DEF QueueWork, Go, QueuedNow
<1>15. ASSUME NEW t \in Threads, PeriodNone(t)
     PROVE  QuietInv'
  BY <1>15 DEF PeriodNone, Go, AfterNone
<1>16. ASSUME NEW t \in Threads, PeriodRead(t)
     PROVE  QuietInv'
  BY <1>16 DEF PeriodRead, Go
<1>17. ASSUME NEW t \in Threads, PeriodWrite(t)
     PROVE  QuietInv'
  BY <1>17, PeriodWriteQuiet DEF PeriodWrite
<1>18. ASSUME NEW t \in Threads, TimerOff(t)
     PROVE  QuietInv'
  BY <1>18 DEF TimerOff, Go
<1>19. ASSUME NEW t \in Threads, ReadFlags(t)
     PROVE  QuietInv'
  BY <1>19 DEF ReadFlags, Go
<1>20. ASSUME NEW t \in Threads, UpdateStat(t)
     PROVE  QuietInv'
  BY <1>20 DEF UpdateStat, Go, LogStatChanged
<1>21. ASSUME NEW t \in Threads, Commit(t)
     PROVE  QuietInv'
  BY <1>21 DEF Commit, Go, BootChanged, NewTransport, FlowChanges, LogStatChanged
<1>22. ASSUME NEW t \in Threads, CommitFail(t)
     PROVE  QuietInv'
  BY <1>22, CommitFailQuiet
<1>23. ASSUME NEW t \in Threads, TimerOn(t)
     PROVE  QuietInv'
  BY <1>23, TimerOnQuiet
<1>24. CASE TimePasses
  BY <1>24 DEF TimePasses
<1>. QED
  BY <1>1, <1>2, <1>3, <1>4, <1>5, <1>6, <1>7, <1>8, <1>9, <1>10, <1>11, <1>12,
     <1>13, <1>14, <1>15, <1>16, <1>17, <1>18, <1>19, <1>20, <1>21, <1>22, <1>23, <1>24
  DEF Next, Session, Request, Continue

(* The transport flag, once a change of period has been followed. *)
LEMMA StepTransportInv ==
  ASSUME ~ Overlaps, PartsOK, WorkInv, Inside, Goes
  PROVE  TransportInv'
<1> USE DeviceAssumption, NoneAssumption
    DEF deviceVars, confVars, timerVars, provVars, workVars, localVars, ghosts,
        PartsOK, BoolsOK, FlagsOK, ConfOK, UpdateInv, PcOK, ProvOK, Threads, Flags, ConfValues, Updates,
        Inside, Alone, Busy, Idle, ConfInv, ReadInv, Places, ReauthPlaces,
        TransportInv, Idle, Goes, WorkInv, ItemQueuedOnce
<1>1. ASSUME NEW c \in Clients, Create(c)
     PROVE  TransportInv'
  BY <1>1 DEF Create, Go
<1>2. ASSUME NEW c \in Clients, Validate(c)
     PROVE  TransportInv'
  BY <1>2 DEF Validate
<1>3. ASSUME NEW c \in Clients, CleanupBegin(c)
     PROVE  TransportInv'
  BY <1>3 DEF CleanupBegin, Go, Begin, ClosedFlags
<1>4. ASSUME NEW c \in Clients, NEW C \in Confs, SetConf(c, C)
     PROVE  TransportInv'
  BY <1>4 DEF SetConf, Go, Begin, Accepted, Replaced, OldFlags, NoFlags
<1>5. ASSUME NEW c \in Clients, NEW F \in FlagSets, SetFlags(c, F)
     PROVE  TransportInv'
  BY <1>5 DEF SetFlags, Go, Begin, Accepted, OldFlags, NoFlags
<1>6. ASSUME NEW c \in Clients, SetApp(c)
     PROVE  TransportInv'
  BY <1>6 DEF SetApp, Go, Begin, Accepted
<1>7. ASSUME NEW c \in Clients, SetZones(c)
     PROVE  TransportInv'
  BY <1>7 DEF SetZones, Go, Begin, Accepted
<1>8. ASSUME NEW w \in Workers, WorkerStart(w)
     PROVE  TransportInv'
  BY <1>8 DEF WorkerStart, Go, Begin
<1>9. ASSUME NEW d \in Callbacks, CallbackBegin(d)
     PROVE  TransportInv'
  BY <1>9 DEF CallbackBegin, Go, Begin
<1>10. ASSUME NEW t \in Threads, CleanupConf(t)
     PROVE  TransportInv'
  BY <1>10 DEF CleanupConf, Go, Replaced, OldFlags, ClearedFlags, NoFlags
<1>11. ASSUME NEW t \in Threads, CleanupZones(t)
     PROVE  TransportInv'
  BY <1>11 DEF CleanupZones, Go, ClearedZones
<1>12. ASSUME NEW t \in Threads, WorkerClear(t)
     PROVE  TransportInv'
  BY <1>12 DEF WorkerClear, Go, ClearedBits
<1>13. ASSUME NEW t \in Threads, ReadOld(t)
     PROVE  TransportInv'
  BY <1>13 DEF ReadOld, Go
<1>14. ASSUME NEW t \in Threads, QueueWork(t)
     PROVE  TransportInv'
  BY <1>14 DEF QueueWork, Go, QueuedNow
<1>15. ASSUME NEW t \in Threads, PeriodNone(t)
     PROVE  TransportInv'
  BY <1>15 DEF PeriodNone, Go, AfterNone
<1>16. ASSUME NEW t \in Threads, PeriodRead(t)
     PROVE  TransportInv'
  BY <1>16 DEF PeriodRead, Go
<1>17. ASSUME NEW t \in Threads, PeriodWrite(t)
     PROVE  TransportInv'
  BY <1>17 DEF PeriodWrite, Go, AfterChange
<1>18. ASSUME NEW t \in Threads, TimerOff(t)
     PROVE  TransportInv'
  BY <1>18 DEF TimerOff, Go
<1>19. ASSUME NEW t \in Threads, ReadFlags(t)
     PROVE  TransportInv'
  BY <1>19 DEF ReadFlags, Go
<1>20. ASSUME NEW t \in Threads, UpdateStat(t)
     PROVE  TransportInv'
  BY <1>20 DEF UpdateStat, Go, LogStatChanged
<1>21. ASSUME NEW t \in Threads, Commit(t)
     PROVE  TransportInv'
  BY <1>21 DEF Commit, Go, BootChanged, NewTransport, FlowChanges, LogStatChanged
<1>22. ASSUME NEW t \in Threads, CommitFail(t)
     PROVE  TransportInv'
  BY <1>22 DEF CommitFail, Go, Finish, NewTransport, FlowChanges, BootChanged, LogStatChanged, NoFlags
<1>23. ASSUME NEW t \in Threads, TimerOn(t)
     PROVE  TransportInv'
  BY <1>23, TimerOnQuiet
<1>24. CASE TimePasses
  BY <1>24 DEF TimePasses
<1>. QED
  BY <1>1, <1>2, <1>3, <1>4, <1>5, <1>6, <1>7, <1>8, <1>9, <1>10, <1>11, <1>12,
     <1>13, <1>14, <1>15, <1>16, <1>17, <1>18, <1>19, <1>20, <1>21, <1>22, <1>23, <1>24
  DEF Next, Session, Request, Continue

(* From one phase of a reauthorization to the next. *)
LEMMA StepPhaseInv ==
  ASSUME ~ Overlaps, PartsOK, WorkInv, Inside, Goes
  PROVE  PhasesInv'
<1> USE DeviceAssumption, NoneAssumption
    DEF deviceVars, confVars, timerVars, provVars, workVars, localVars, ghosts,
        PartsOK, BoolsOK, FlagsOK, ConfOK, UpdateInv, PcOK, ProvOK, Threads, Flags, ConfValues, Updates,
        Inside, Alone, Busy, Idle, ConfInv, ReadInv, Places, ReauthPlaces,
        PhasesInv, Phase, BootToSet, Idle, AppTimerOf, HasPeriods, FlowOf, Goes, WorkInv, ItemQueuedOnce
<1>1. ASSUME NEW c \in Clients, Create(c)
     PROVE  PhasesInv'
  BY <1>1 DEF Create, Go
<1>2. ASSUME NEW c \in Clients, Validate(c)
     PROVE  PhasesInv'
  BY <1>2 DEF Validate
<1>3. ASSUME NEW c \in Clients, CleanupBegin(c)
     PROVE  PhasesInv'
  BY <1>3 DEF CleanupBegin, Go, Begin, ClosedFlags
<1>4. ASSUME NEW c \in Clients, NEW C \in Confs, SetConf(c, C)
     PROVE  PhasesInv'
  BY <1>4, SetConfPhases
<1>5. ASSUME NEW c \in Clients, NEW F \in FlagSets, SetFlags(c, F)
     PROVE  PhasesInv'
  BY <1>5, SetFlagsPhases
<1>6. ASSUME NEW c \in Clients, SetApp(c)
     PROVE  PhasesInv'
  BY <1>6 DEF SetApp, Go, Begin, Accepted
<1>7. ASSUME NEW c \in Clients, SetZones(c)
     PROVE  PhasesInv'
  BY <1>7 DEF SetZones, Go, Begin, Accepted
<1>8. ASSUME NEW w \in Workers, WorkerStart(w)
     PROVE  PhasesInv'
  BY <1>8 DEF WorkerStart, Go, Begin
<1>9. ASSUME NEW d \in Callbacks, CallbackBegin(d)
     PROVE  PhasesInv'
  BY <1>9, CallbackPhases
<1>10. ASSUME NEW t \in Threads, CleanupConf(t)
     PROVE  PhasesInv'
  BY <1>10, CleanupPhases
<1>11. ASSUME NEW t \in Threads, CleanupZones(t)
     PROVE  PhasesInv'
  BY <1>11 DEF CleanupZones, Go, ClearedZones
<1>12. ASSUME NEW t \in Threads, WorkerClear(t)
     PROVE  PhasesInv'
  BY <1>12 DEF WorkerClear, Go, ClearedBits
<1>13. ASSUME NEW t \in Threads, ReadOld(t)
     PROVE  PhasesInv'
  BY <1>13, ReadOldPhases
<1>14. ASSUME NEW t \in Threads, QueueWork(t)
     PROVE  PhasesInv'
  BY <1>14 DEF QueueWork, Go, QueuedNow
<1>15. ASSUME NEW t \in Threads, PeriodNone(t)
     PROVE  PhasesInv'
  BY <1>15 DEF PeriodNone, Go, AfterNone
<1>16. ASSUME NEW t \in Threads, PeriodRead(t)
     PROVE  PhasesInv'
  BY <1>16 DEF PeriodRead, Go
<1>17. ASSUME NEW t \in Threads, PeriodWrite(t)
     PROVE  PhasesInv'
  BY <1>17, PeriodWritePhases
<1>18. ASSUME NEW t \in Threads, TimerOff(t)
     PROVE  PhasesInv'
  BY <1>18 DEF TimerOff, Go
<1>19. ASSUME NEW t \in Threads, ReadFlags(t)
     PROVE  PhasesInv'
  BY <1>19 DEF ReadFlags, Go
<1>20. ASSUME NEW t \in Threads, UpdateStat(t)
     PROVE  PhasesInv'
  BY <1>20 DEF UpdateStat, Go, LogStatChanged
<1>21. ASSUME NEW t \in Threads, Commit(t)
     PROVE  PhasesInv'
  BY <1>21 DEF Commit, Go, BootChanged, NewTransport, FlowChanges, LogStatChanged
<1>22. ASSUME NEW t \in Threads, CommitFail(t)
     PROVE  PhasesInv'
  BY <1>22 DEF CommitFail, Go, Finish, NewTransport, FlowChanges, BootChanged, LogStatChanged, NoFlags
<1>23. ASSUME NEW t \in Threads, TimerOn(t)
     PROVE  PhasesInv'
  BY <1>23, TimerOnQuiet
<1>24. CASE TimePasses
  BY <1>24 DEF TimePasses
<1>. QED
  BY <1>1, <1>2, <1>3, <1>4, <1>5, <1>6, <1>7, <1>8, <1>9, <1>10, <1>11, <1>12,
     <1>13, <1>14, <1>15, <1>16, <1>17, <1>18, <1>19, <1>20, <1>21, <1>22, <1>23, <1>24
  DEF Next, Session, Request, Continue

(* Everything a step keeps, and a stutter. *)
LEMMA StepInside ==
  ASSUME ~ Overlaps, PartsOK, WorkInv, Inside, [FaultsNext]_<<vars, faulty>>
  PROVE  Inside'
<1>1. CASE FaultsNext
  <2>1. Goes
    BY <1>1 DEF FaultsNext, Goes
  <2>2. failed' => faulty'
    BY <2>1 DEF Goes
  <2>. QED
    BY <2>1, <2>2, StepAlone, StepConfInv, StepReadInv, StepQuietInv, StepTransportInv, StepPhaseInv
    DEF Inside
<1>2. CASE UNCHANGED <<vars, faulty>>
  <2> USE <1>2 DEF vars, deviceVars, confVars, timerVars, provVars, workVars, localVars, ghosts, Inside
  <2>1. Alone' /\ (failed => faulty)'
    BY DEF Alone, Busy
  <2>2. ConfInv' /\ ReadInv'
    BY DEF ConfInv, ReadInv, HasPeriods
  <2>3. QuietInv'
    BY DEF QuietInv, Before, Quiet, AppTimerOf, HasPeriods
  <2>4. TransportInv'
    BY DEF TransportInv
  <2>5. PhasesInv'
    BY DEF PhasesInv, Phase, BootToSet, AppTimerOf, HasPeriods
  <2>. QED
    BY <2>1, <2>2, <2>3, <2>4, <2>5
<1>. QED
  BY <1>1, <1>2

(* The driver is loaded with everything in line. *)
LEMMA InitInside == FaultsInit => Inside
<1> SUFFICES ASSUME FaultsInit PROVE Inside
  OBVIOUS
<1>1. \A t \in Threads : pc[t] \in Idle /\ update[t] = None
  BY DEF FaultsInit, Init, Idle
<1>2. Alone /\ ReadInv /\ (failed => faulty)
  BY <1>1 DEF Alone, ReadInv, Busy, FaultsInit, Init
<1>3. ConfInv
  BY DEF ConfInv, FaultsInit, Init, NoFlags
<1>4. Quiet
  BY DEF Quiet, FaultsInit, Init, NoFlags, AppTimerOf, HasPeriods, FlowOf, LogsSomething
<1>5. TransportInv
  BY DEF TransportInv, FaultsInit, Init, NoFlags
<1>6. PhasesInv
  BY <1>1 DEF PhasesInv, Phase, Idle
<1>. QED
  BY <1>2, <1>3, <1>4, <1>5, <1>6 DEF Inside, QuietInv

(* What an operation that does not overlap keeps. *)
SettleInv == ~ Overlaps => Inside

(* The inductive invariant of operations that do not overlap. *)
THEOREM SettleInvariant == FaultsSpec => [](IInv /\ SettleInv)
<1>1. FaultsInit => Init
  BY DEF FaultsInit
<1>2. [FaultsNext]_<<vars, faulty>> => [Next]_vars
  BY DEF FaultsNext
<1>3. FaultsSpec => Spec
  BY <1>1, <1>2, PTL DEF FaultsSpec, Spec
<1>4. FaultsInit => SettleInv
  BY InitInside DEF SettleInv
<1>5. IInv /\ SettleInv /\ [FaultsNext]_<<vars, faulty>> => SettleInv'
  <2> SUFFICES ASSUME IInv, SettleInv, [FaultsNext]_<<vars, faulty>>, ~ Overlaps PROVE Inside'
    BY DEF SettleInv
  <2>1. PartsOK /\ WorkInv /\ Inside
    BY TypeParts DEF IInv, SettleInv
  <2>. QED
    BY <2>1, StepInside
<1>. QED
  BY <1>3, <1>4, <1>5, DeviceInvariant, PTL DEF FaultsSpec

(* When no operation runs and the worker has nothing to do, the            *)
(* statistics, the timers, the masks and the filters are what the flags    *)
(* ask for (fort_callout_force_reauth), through any sequence of sessions,  *)
(* requests and changes of period of any clients that do not overlap.      *)
THEOREM ControlsSettle == FaultsSpec => []Settled
<1>1. IInv /\ SettleInv => Settled
  <2> SUFFICES ASSUME IInv, SettleInv, Busy = {}, ~ queued, ~ Overlaps
               PROVE  (~ failed => ControlsInLine) /\ (~ faulty => FiltersInLine)
    BY DEF Settled
  <2>1. Inside
    BY DEF SettleInv
  <2>2. \A t \in Threads : pc[t] \in Idle
    BY DEF Busy
  <2>3. Quiet
    BY <2>1, <2>2 DEF Inside, QuietInv, Before
  <2>4. ~ faulty => filter_transport = (conf_flags.group /\ filter)
    BY <2>1, <2>2 DEF Inside, TransportInv
  <2>5. conf # None => conf.mask = conf_flags.group
    BY <2>1 DEF Inside, ConfInv
  <2>6. ~ failed => ControlsInLine
    BY <2>3, <2>5 DEF Quiet, ControlsInLine, AppTimerOf, LogsSomething
  <2>7. ~ faulty => FiltersInLine
    BY <2>3, <2>4 DEF Quiet, FiltersInLine, FlowWanted, FlowOf
  <2>. QED
    BY <2>6, <2>7
<1>. QED
  BY <1>1, SettleInvariant, PTL
=============================================================================
