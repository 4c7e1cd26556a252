----------------------------- MODULE ConfigProofs -----------------------------
(***************************************************************************)
(* Proofs about ConfigLifecycle, for any configs and handlers and any      *)
(* bound: what config_history and king:config_update say is true.          *)
(***************************************************************************)
EXTENDS ConfigLifecycle, TLAPS

Watcher == [pc : {"idle", "read", "backup", "log", "announce"},
            config : Configs \cup {None}, backup : Seconds \cup {NoBackup}]

\* The name of the backup that the lifecycle carries from step to step.
CarriesBackup ==
  /\ watcher.pc \notin {"log", "announce"} => watcher.backup = NoBackup
  /\ watcher.backup # NoBackup /\ watcher.backup \notin twice =>
       /\ watcher.backup \in DOMAIN backups
       /\ backups[watcher.backup] = watcher.config

\* Notified of everything so far, the lifecycle is at work on the config of
\* the file, or is done with it.
Informed ==
  (noticed /\ events = 0 /\ faults = 0 /\ file \in Configs) =>
    CASE watcher.pc = "read" -> TRUE
      [] watcher.pc \in {"backup", "log"} -> watcher.config = file
      [] watcher.pc = "announce" ->
           /\ watcher.config = file
           /\ history # <<>> /\ history[Len(history)].config = file
      [] watcher.pc = "idle" ->
           /\ announced = file
           /\ history # <<>> /\ history[Len(history)].config = file

ConfigInv == TypeOK /\ CarriesBackup /\ BackupTrue /\ Informed

-----------------------------------------------------------------------------
(* Type correctness                                                        *)

LEMMA ModifyOK ==
  ASSUME TypeOK, NEW content \in Configs \cup {Empty, Broken}, Modify(content)
  PROVE  /\ file' = content
         /\ events' \in Nat /\ (events' > 0 => watching)
         /\ noticed' \in BOOLEAN
         /\ noticed' => events' > 0
         /\ events' >= events
BY DEF TypeOK, Modify

\* The bounded counters.
Counters ==
  /\ clock \in Seconds
  /\ changes \in 0 .. MaxChanges /\ faults \in 0 .. MaxFaults
  /\ crashes \in 0 .. MaxCrashes

LEMMA CountersStep == Counters /\ [Next]_vars => Counters'
<1>. SUFFICES ASSUME Counters, [Next]_vars PROVE Counters'
  OBVIOUS
<1>. USE ConfigConstantsOK
<1>1. /\ clock' \in {clock, clock + 1} /\ (clock' # clock => clock < MaxSeconds)
      /\ changes' \in {changes, changes + 1}
      /\ (changes' # changes => changes < MaxChanges)
      /\ faults' \in {faults, faults + 1} /\ (faults' # faults => faults < MaxFaults)
      /\ crashes' \in {crashes, crashes + 1}
      /\ (crashes' # crashes => crashes < MaxCrashes)
  BY DEF Next, BeginPut, Truncate, WriteFile, PutFails, Edit, WatcherStep,
         StartWatching, TakeEvent, ReadConfig, Backup, LogEvent, Announce,
         Tick, Crash, Fault, vars, files, writes, record
<1>. QED BY <1>1 DEF Counters, Seconds

\* The file, its writers and the notifications.
FileOK ==
  /\ file \in Configs \cup {Empty, Broken}
  /\ put \in [Handlers -> [pc : {"idle", "open", "write"},
                           config : Configs \cup {None}]]
  /\ \A h \in Handlers : put[h].pc # "idle" => put[h].config \in Configs
  /\ crossed \subseteq Handlers
  /\ watching \in BOOLEAN /\ noticed \in BOOLEAN
  /\ events \in Nat /\ (events > 0 => watching)

\* The lifecycle and what it writes.
RecordOK ==
  /\ watcher \in Watcher
  /\ watcher.pc \in {"backup", "log", "announce"} => watcher.config \in Configs
  /\ DOMAIN backups \subseteq 0 .. clock
  /\ \A s \in DOMAIN backups : backups[s] \in Configs
  /\ twice \subseteq DOMAIN backups
  /\ history \in Seq([config : Configs, backup : Seconds \cup {NoBackup}])
  /\ announced \in Configs \cup {None}

LEMMA TypeParts ==
  /\ TypeOK <=> FileOK /\ RecordOK /\ Counters
  /\ TypeOK' <=> FileOK' /\ RecordOK' /\ Counters'
BY DEF TypeOK, FileOK, RecordOK, Counters, Watcher

LEMMA TypeInit == Init => TypeOK
<1>. SUFFICES ASSUME Init PROVE TypeOK
  OBVIOUS
<1>1. Counters
  BY ConfigConstantsOK DEF Init, Counters, Seconds
<1>2. FileOK
  <2>1. \A h \in Handlers : put[h] = [pc |-> "idle", config |-> None]
    BY DEF Init
  <2>2. put \in [Handlers -> [pc : {"idle", "open", "write"},
                             config : Configs \cup {None}]]
    BY DEF Init
  <2>3. file \in Configs \cup {Empty, Broken}
    BY DEF Init
  <2>4. /\ crossed \subseteq Handlers
        /\ watching \in BOOLEAN /\ noticed \in BOOLEAN
        /\ events \in Nat /\ (events > 0 => watching)
    <3>1. watching = FALSE /\ noticed = FALSE /\ events = 0 /\ crossed = {}
      BY DEF Init
    <3>2. ~(events > 0)
      BY <3>1
    <3>. QED BY <3>1, <3>2
  <2>. QED BY <2>1, <2>2, <2>3, <2>4 DEF FileOK
<1>3. RecordOK
  <2>1. DOMAIN backups = {}
    BY DEF Init
  <2>2. watcher \in Watcher /\ watcher.pc = "idle"
    BY DEF Init, Resting, Watcher
  <2>. QED BY <2>1, <2>2 DEF Init, RecordOK
<1>. QED BY <1>1, <1>2, <1>3, TypeParts

\* The writers of the file leave the lifecycle alone.
WriterAct ==
  \/ \E h \in Handlers : BeginPut(h) \/ Truncate(h) \/ WriteFile(h) \/ PutFails(h)
  \/ Edit

LEMMA OverOK ==
  ASSUME NEW x, NEW c \in Configs
  PROVE  Over(x, c) \subseteq Configs \cup {Broken}
BY DEF Over

LEMMA WriterStepOK ==
  ASSUME TypeOK, WriterAct
  PROVE  /\ FileOK'
         /\ UNCHANGED <<watching, watcher, record, clock, crashes>>
         /\ faults' >= faults
         /\ (noticed' /\ events' = 0) =>
              noticed /\ events = 0 /\ file' = file
<1>. USE TypeParts DEF FileOK, Counters
<1>1. ASSUME NEW h \in Handlers, BeginPut(h)
      PROVE  FileOK' /\ UNCHANGED <<files, watching, watcher, record, clock, faults, crashes>>
  BY <1>1 DEF BeginPut, files
<1>2. ASSUME NEW h \in Handlers, Truncate(h)
      PROVE  /\ FileOK' /\ UNCHANGED <<watching, watcher, record, clock, faults, crashes>>
             /\ noticed' => events' > 0
  BY <1>2, ModifyOK DEF Truncate, Cross
<1>3. ASSUME NEW h \in Handlers, WriteFile(h)
      PROVE  /\ FileOK' /\ UNCHANGED <<watching, watcher, record, clock, faults, crashes>>
             /\ noticed' => events' > 0
  <2>1. put[h].config \in Configs
    BY <1>3 DEF WriteFile
  <2>. QED BY <1>3, <2>1, ModifyOK, OverOK DEF WriteFile, Cross
<1>4. ASSUME NEW h \in Handlers, PutFails(h)
      PROVE  /\ FileOK' /\ UNCHANGED <<files, watching, watcher, record, clock, crashes>>
             /\ faults' >= faults
  BY <1>4, ConfigConstantsOK DEF PutFails, Fault, files
<1>5. ASSUME Edit
      PROVE  /\ FileOK' /\ UNCHANGED <<watching, watcher, record, clock, faults, crashes>>
             /\ noticed' => events' > 0
  BY <1>5, ModifyOK DEF Edit
<1>. QED
  BY <1>1, <1>2, <1>3, <1>4, <1>5, ConfigConstantsOK DEF WriterAct, files

-----------------------------------------------------------------------------
(* What the lifecycle writes                                               *)

LEMMA BackupStepOK ==
  ASSUME TypeOK, BackupTrue, CarriesBackup, Backup
  PROVE  /\ RecordOK' /\ BackupTrue' /\ CarriesBackup'
         /\ watcher'.pc = "log" /\ watcher'.config = watcher.config
<1>. USE TypeParts
<1>. USE DEF RecordOK
<1>1. /\ watcher \in Watcher /\ watcher.pc = "backup"
      /\ watcher.config \in Configs /\ clock \in Seconds
  BY DEF Backup, Counters
<1>2. CASE WriteBackup(watcher.config)
  <2>1. /\ watcher' = [watcher EXCEPT !.pc = "log", !.backup = clock]
        /\ DOMAIN backups' = DOMAIN backups \cup {clock}
        /\ backups'[clock] = watcher.config
        /\ \A s \in DOMAIN backups \ {clock} : backups'[s] = backups[s]
        /\ twice' = IF clock \in DOMAIN backups THEN twice \cup {clock} ELSE twice
    BY <1>2 DEF WriteBackup
  <2>2. UNCHANGED <<history, announced, clock>>
    BY DEF Backup
  <2>3. /\ watcher' \in Watcher /\ watcher'.pc = "log"
        /\ watcher'.config = watcher.config /\ watcher'.backup = clock
    BY <1>1, <2>1 DEF Watcher
  <2>4. RecordOK'
    <3>1. DOMAIN backups' \subseteq 0 .. clock' /\ twice' \subseteq DOMAIN backups'
      BY <1>1, <2>1, <2>2 DEF Seconds
    <3>2. \A s \in DOMAIN backups' : backups'[s] \in Configs
      BY <1>1, <2>1
    <3>. QED BY <1>1, <2>2, <2>3, <3>1, <3>2
  <2>5. ASSUME NEW s, NEW c,
               s # NoBackup /\ s \notin twice => s \in DOMAIN backups /\ backups[s] = c
        PROVE  s # NoBackup /\ s \notin twice' => s \in DOMAIN backups' /\ backups'[s] = c
    BY <2>1, <2>5
  <2>6. BackupTrue'
    BY <2>2, <2>5 DEF BackupTrue
  <2>7. CarriesBackup'
    BY <2>1, <2>3 DEF CarriesBackup
  <2>. QED BY <2>3, <2>4, <2>6, <2>7
<1>3. CASE watcher' = [watcher EXCEPT !.pc = "log"] /\ UNCHANGED <<backups, twice>>
  <2>1. /\ watcher' \in Watcher /\ watcher'.pc = "log"
        /\ watcher'.config = watcher.config /\ watcher'.backup = watcher.backup
    BY <1>1, <1>3 DEF Watcher
  <2>2. UNCHANGED <<backups, twice, history, announced, clock>>
    BY <1>3 DEF Backup
  <2>3. RecordOK'
    BY <1>1, <2>1, <2>2
  <2>4. BackupTrue' /\ CarriesBackup'
    BY <1>1, <2>1, <2>2 DEF BackupTrue, CarriesBackup
  <2>. QED BY <2>1, <2>3, <2>4
<1>. QED BY <1>2, <1>3 DEF Backup

LEMMA LogEventOK ==
  ASSUME TypeOK, BackupTrue, CarriesBackup, LogEvent
  PROVE  /\ RecordOK' /\ BackupTrue' /\ CarriesBackup'
         /\ watcher.pc = "log" /\ watcher'.pc = "announce"
         /\ watcher'.config = watcher.config
         /\ faults' = 0 => /\ history' # <<>>
                           /\ history'[Len(history')].config = watcher.config
<1>. USE TypeParts DEF RecordOK
<1>. DEFINE row == [config |-> watcher.config, backup |-> watcher.backup]
<1>1. /\ watcher \in Watcher /\ watcher.pc = "log" /\ watcher.config \in Configs
      /\ row \in [config : Configs, backup : Seconds \cup {NoBackup}]
      /\ history \in Seq([config : Configs, backup : Seconds \cup {NoBackup}])
  BY DEF LogEvent, Watcher
<1>2. /\ watcher' \in Watcher /\ watcher'.pc = "announce"
      /\ watcher'.config = watcher.config /\ watcher'.backup = watcher.backup
  BY <1>1 DEF LogEvent, Watcher
<1>3. UNCHANGED <<backups, twice, announced, clock>>
  BY DEF LogEvent
<1>4. CarriesBackup'
  BY <1>1, <1>2, <1>3 DEF CarriesBackup
<1>5. CASE history' = Append(history, row)
  <2>1. /\ Len(history') = Len(history) + 1 /\ Len(history) \in Nat
        /\ history'[Len(history')] = row
        /\ \A i \in 1 .. Len(history) : history'[i] = history[i]
        /\ history' \in Seq([config : Configs, backup : Seconds \cup {NoBackup}])
    BY <1>1, <1>5
  <2>2. RecordOK'
    BY <1>1, <1>2, <1>3, <2>1
  <2>3. BackupTrue'
    <3>. HIDE DEF row
    <3>1. SUFFICES ASSUME NEW i \in 1 .. Len(history'),
                          history'[i].backup # NoBackup, history'[i].backup \notin twice
                   PROVE  /\ history'[i].backup \in DOMAIN backups
                          /\ backups[history'[i].backup] = history'[i].config
      BY <1>3 DEF BackupTrue
    <3>2. CASE i \in 1 .. Len(history)
      BY <2>1, <3>1, <3>2 DEF BackupTrue
    <3>3. CASE i = Len(history')
      <4>1. history'[i].backup = watcher.backup /\ history'[i].config = watcher.config
        BY <2>1, <3>3 DEF row
      <4>. QED BY <3>1, <4>1 DEF CarriesBackup
    <3>. QED BY <2>1, <3>2, <3>3
  <2>4. history' # <<>>
    BY <2>1
  <2>. QED BY <1>1, <1>2, <1>4, <2>1, <2>2, <2>3, <2>4
<1>6. CASE UNCHANGED history /\ Fault
  <2>1. faults' # 0
    BY <1>6 DEF Counters, Fault
  <2>2. RecordOK'
    BY <1>1, <1>2, <1>3, <1>6
  <2>3. BackupTrue'
    BY <1>3, <1>6 DEF BackupTrue
  <2>. QED BY <1>1, <1>2, <1>4, <2>1, <2>2, <2>3
<1>. QED BY <1>5, <1>6 DEF LogEvent

\* Every step of the watcher and of the clock, and a restart.
LEMMA RecordStep ==
  ASSUME TypeOK, BackupTrue, CarriesBackup, [Next]_vars
  PROVE  RecordOK' /\ BackupTrue' /\ CarriesBackup'
<1>. USE TypeParts
<1>1. /\ watcher \in Watcher /\ clock \in Seconds
      /\ MaxSeconds \in Nat
  BY ConfigConstantsOK DEF RecordOK, Counters
<1>2. ASSUME UNCHANGED <<watcher, record>>, clock' \in {clock, clock + 1}
      PROVE  RecordOK' /\ BackupTrue' /\ CarriesBackup'
  <2>1. DOMAIN backups' \subseteq 0 .. clock'
    BY <1>1, <1>2 DEF RecordOK, Seconds, record
  <2>2. UNCHANGED <<watcher, backups, twice, history, announced>>
    BY <1>2 DEF record
  <2>3. RecordOK'
    BY <2>1, <2>2 DEF RecordOK
  <2>. QED BY <2>2, <2>3 DEF BackupTrue, CarriesBackup
<1>3. ASSUME UNCHANGED <<backups, twice, history, clock>>, watcher' \in Watcher,
             watcher'.pc \notin {"log", "announce"}, watcher'.backup = NoBackup,
             watcher'.pc = "backup" => watcher'.config \in Configs,
             announced' \in Configs \cup {None}
      PROVE  RecordOK' /\ BackupTrue' /\ CarriesBackup'
  BY <1>3 DEF RecordOK, BackupTrue, CarriesBackup
<1>4. Resting \in Watcher /\ Resting.pc = "idle" /\ Resting.backup = NoBackup
  BY DEF Resting, Watcher
<1>5. watcher.pc \notin {"log", "announce"} => watcher.backup = NoBackup
  BY DEF CarriesBackup
<1>6. announced \in Configs \cup {None}
  BY DEF RecordOK
<1>7. CASE WriterAct
  BY <1>2, <1>7, WriterStepOK
<1>8. CASE StartWatching
  BY <1>2, <1>8 DEF StartWatching
<1>9. CASE TakeEvent
  <2>1. /\ watcher' \in Watcher /\ watcher'.pc = "read"
        /\ watcher'.backup = NoBackup
    BY <1>1, <1>5, <1>9 DEF TakeEvent, Watcher
  <2>. QED BY <1>3, <1>6, <1>9, <2>1 DEF TakeEvent, record
<1>10. CASE ReadConfig
  <2>1. /\ watcher' \in Watcher /\ watcher'.pc \in {"idle", "backup"}
        /\ watcher'.backup = NoBackup
        /\ watcher'.pc = "backup" => watcher'.config \in Configs
    BY <1>1, <1>4, <1>5, <1>10 DEF ReadConfig, Watcher
  <2>. QED BY <1>3, <1>6, <1>10, <2>1 DEF ReadConfig, record
<1>11. CASE Backup
  BY <1>11, BackupStepOK
<1>12. CASE LogEvent
  BY <1>12, LogEventOK
<1>13. CASE Announce
  <2>1. announced' \in Configs \cup {None}
    BY <1>6, <1>13 DEF Announce, RecordOK
  <2>. QED BY <1>3, <1>4, <1>13, <2>1 DEF Announce
<1>14. CASE Tick
  BY <1>2, <1>14 DEF Tick
<1>15. CASE Crash
  BY <1>3, <1>4, <1>6, <1>15 DEF Crash, record
<1>16. CASE UNCHANGED vars
  BY <1>2, <1>16 DEF vars
<1>. QED
  BY <1>7, <1>8, <1>9, <1>10, <1>11, <1>12, <1>13, <1>14, <1>15, <1>16
  DEF Next, WatcherStep, WriterAct

-----------------------------------------------------------------------------
(* What the agents are told                                                *)

LEMMA InformedStep ==
  ASSUME TypeOK, BackupTrue, CarriesBackup, Informed, [Next]_vars
  PROVE  Informed'
<1>. SUFFICES ASSUME noticed', events' = 0, faults' = 0, file' \in Configs
              PROVE  /\ watcher'.pc \in {"backup", "log", "announce"} =>
                          watcher'.config = file'
                     /\ watcher'.pc \in {"announce", "idle"} =>
                          history' # <<>> /\ history'[Len(history')].config = file'
                     /\ watcher'.pc = "idle" => announced' = file'
                     /\ watcher'.pc \in {"idle", "read", "backup", "log", "announce"}
  BY DEF Informed
<1>. USE TypeParts
<1>1. /\ watcher' \in Watcher /\ watcher \in Watcher /\ faults \in Nat
      /\ watcher'.pc \in {"idle", "read", "backup", "log", "announce"}
  <2>1. watcher' \in Watcher /\ watcher \in Watcher
    BY RecordStep DEF RecordOK
  <2>. QED BY <2>1 DEF Watcher, Counters
<1>2. ASSUME noticed, events = 0, faults = 0, file \in Configs
      PROVE  /\ watcher.pc \in {"backup", "log", "announce"} => watcher.config = file
             /\ watcher.pc \in {"announce", "idle"} =>
                  history # <<>> /\ history[Len(history)].config = file
             /\ watcher.pc = "idle" => announced = file
  BY <1>2 DEF Informed
<1>3. ASSUME UNCHANGED <<watcher, record>>, noticed, events = 0, file' = file, faults = 0
      PROVE  /\ watcher'.pc \in {"backup", "log", "announce"} =>
                  watcher'.config = file'
             /\ watcher'.pc \in {"announce", "idle"} =>
                  history' # <<>> /\ history'[Len(history')].config = file'
             /\ watcher'.pc = "idle" => announced' = file'
  BY <1>2, <1>3 DEF record
<1>0. ~Fault
  BY <1>1 DEF Fault
<1>4. CASE WriterAct
  <2>1. faults = 0
    BY <1>1, <1>4, WriterStepOK
  <2>. QED BY <1>1, <1>3, <1>4, <2>1, WriterStepOK
<1>5. CASE StartWatching
  BY <1>1, <1>3, <1>5 DEF StartWatching, files
<1>6. CASE TakeEvent
  BY <1>1, <1>6 DEF TakeEvent, Watcher
<1>7. CASE ReadConfig
  <2>1. file' = file
    BY <1>7 DEF ReadConfig, files
  <2>2. watcher' = [watcher EXCEPT !.pc = "backup", !.config = file]
    BY <1>0, <1>7, <2>1 DEF ReadConfig
  <2>. QED BY <1>1, <2>1, <2>2 DEF Watcher
<1>8. CASE Backup
  <2>0. faults' = faults /\ UNCHANGED files
    BY <1>0, <1>8 DEF Backup
  <2>1. faults = 0 /\ noticed /\ events = 0 /\ file' = file
    BY <2>0 DEF files
  <2>2. watcher.pc = "backup"
    BY <1>8 DEF Backup
  <2>. QED BY <1>1, <1>2, <1>8, <2>1, <2>2, BackupStepOK DEF files
<1>9. CASE LogEvent
  <2>0. faults' = faults /\ UNCHANGED files
    BY <1>0, <1>9 DEF LogEvent
  <2>1. faults = 0 /\ noticed /\ events = 0 /\ file' = file
    BY <2>0 DEF files
  <2>. QED BY <1>1, <1>2, <1>9, <2>1, LogEventOK DEF files
<1>10. CASE Announce
  <2>0. /\ faults' = faults /\ UNCHANGED <<files, history>>
        /\ watcher.pc = "announce" /\ announced' = watcher.config
    BY <1>0, <1>10 DEF Announce
  <2>1. faults = 0 /\ noticed /\ events = 0 /\ file' = file
    BY <2>0 DEF files
  <2>2. watcher'.pc = "idle"
    BY <1>10 DEF Announce, Resting
  <2>. QED BY <1>1, <1>2, <2>0, <2>1, <2>2
<1>11. CASE Tick
  BY <1>1, <1>3, <1>11 DEF Tick, files
<1>12. CASE Crash
  BY <1>12 DEF Crash
<1>13. CASE UNCHANGED vars
  BY <1>1, <1>3, <1>13 DEF vars, files
<1>. QED
  BY <1>4, <1>5, <1>6, <1>7, <1>8, <1>9, <1>10, <1>11, <1>12, <1>13
  DEF Next, WatcherStep, WriterAct

-----------------------------------------------------------------------------
(* The invariant                                                           *)

LEMMA FileStep ==
  ASSUME TypeOK, [Next]_vars
  PROVE  FileOK'
<1>. USE TypeParts
<1>0. FileOK
  OBVIOUS
<1>1. ASSUME UNCHANGED <<files, put, crossed, watching>>
      PROVE  FileOK'
  BY <1>0, <1>1 DEF FileOK, files
<1>2. CASE WriterAct
  BY <1>2, WriterStepOK
<1>3. CASE StartWatching
  BY <1>0, <1>3 DEF StartWatching, FileOK, files, writes
<1>4. CASE TakeEvent
  BY <1>0, <1>4 DEF TakeEvent, FileOK, writes
<1>5. CASE ReadConfig
  BY <1>1, <1>5 DEF ReadConfig, writes
<1>6. CASE Backup
  BY <1>1, <1>6 DEF Backup, writes
<1>7. CASE LogEvent
  BY <1>1, <1>7 DEF LogEvent, writes
<1>8. CASE Announce
  BY <1>1, <1>8 DEF Announce, writes
<1>9. CASE Tick
  BY <1>1, <1>9 DEF Tick, writes
<1>10. CASE Crash
  <2>1. put' \in [Handlers -> [pc : {"idle", "open", "write"},
                               config : Configs \cup {None}]]
    BY <1>10 DEF Crash
  <2>2. \A h \in Handlers : put'[h].pc = "idle"
    BY <1>10 DEF Crash
  <2>3. watching' = FALSE /\ noticed' = FALSE /\ events' = 0
        /\ crossed' = {} /\ file' = file
    BY <1>10 DEF Crash
  <2>4. ~(events' > 0)
    BY <2>3
  <2>. QED BY <1>0, <2>1, <2>2, <2>3, <2>4 DEF FileOK
<1>11. CASE UNCHANGED vars
  BY <1>1, <1>11 DEF vars, writes
<1>. QED
  BY <1>2, <1>3, <1>4, <1>5, <1>6, <1>7, <1>8, <1>9, <1>10, <1>11
  DEF Next, WatcherStep, WriterAct

LEMMA ConfigInductive == Spec => []ConfigInv
<1>1. Init => ConfigInv
  <2>. SUFFICES ASSUME Init PROVE ConfigInv
    OBVIOUS
  <2>1. history = <<>> /\ noticed = FALSE /\ watcher = Resting
    BY DEF Init
  <2>2. watcher.pc = "idle" /\ watcher.backup = NoBackup
    BY <2>1 DEF Resting
  <2>. QED BY <2>1, <2>2, TypeInit
           DEF ConfigInv, CarriesBackup, BackupTrue, Informed
<1>2. ConfigInv /\ [Next]_vars => ConfigInv'
  <2>. SUFFICES ASSUME ConfigInv, [Next]_vars PROVE ConfigInv'
    OBVIOUS
  <2>1. TypeOK'
    BY TypeParts, FileStep, RecordStep, CountersStep DEF ConfigInv
  <2>. QED BY <2>1, RecordStep, InformedStep DEF ConfigInv
<1>. QED BY <1>1, <1>2, PTL DEF Spec

\* The variables of the configuration life cycle have their types: in
\* particular what is backed up, recorded and announced has been validated.
THEOREM TypeCorrect == Spec => []TypeOK
<1>1. ConfigInv => TypeOK
  BY DEF ConfigInv
<1>. QED BY <1>1, ConfigInductive, PTL

\* Every row of config_history that names a backup can be restored from it,
\* unless two changes fell into one second (gateway_manager.rs, backup_config).
THEOREM BackupsAreTrue == Spec => []BackupTrue
<1>1. ConfigInv => BackupTrue
  BY DEF ConfigInv
<1>. QED BY <1>1, ConfigInductive, PTL

\* With every notification dealt with and no call failed, the agents have
\* been told of the config in the file (config_watcher.rs, watch_config).
THEOREM SettledIsAnnounced == Spec => []SettledAnnounced
<1>1. ConfigInv => SettledAnnounced
  BY DEF ConfigInv, Informed, SettledAnnounced
<1>. QED BY <1>1, ConfigInductive, PTL

-----------------------------------------------------------------------------
(* What PUT /gateway/config writes                                         *)

\* Between the two calls of a write nobody has crossed the file is empty.
Truncated ==
  \A h \in Handlers : put[h].pc = "write" /\ h \notin crossed => file = Empty

LEMMA TruncatedStep == TypeOK /\ Truncated /\ [Next]_vars => Truncated'
<1>. SUFFICES ASSUME TypeOK, Truncated, [Next]_vars PROVE Truncated'
  OBVIOUS
<1>0. put \in [Handlers -> [pc : {"idle", "open", "write"},
                            config : Configs \cup {None}]]
  BY DEF TypeOK
<1>1. CASE UNCHANGED <<file, put, crossed>>
  BY <1>1 DEF Truncated
<1>2. ASSUME NEW h \in Handlers, BeginPut(h)
      PROVE  Truncated'
  <2>1. \A g \in Handlers : put'[g].pc = "write" => put[g].pc = "write"
    BY <1>0, <1>2 DEF BeginPut
  <2>. QED BY <1>2, <2>1 DEF BeginPut, files, Truncated
<1>3. ASSUME NEW h \in Handlers, Truncate(h)
      PROVE  Truncated'
  <2>1. file' = Empty
    BY <1>3 DEF Truncate, Modify
  <2>. QED BY <2>1 DEF Truncated
\* The others that are between their calls are crossed by this write.
<1>4. ASSUME NEW h \in Handlers, WriteFile(h)
      PROVE  Truncated'
  <2>1. put'[h].pc = "idle" /\ \A g \in Handlers \ {h} : put'[g] = put[g]
    BY <1>0, <1>4 DEF WriteFile
  <2>2. \A g \in Handlers \ {h} : put[g].pc = "write" => g \in crossed'
    BY <1>4 DEF WriteFile, Cross
  <2>. QED BY <2>1, <2>2 DEF Truncated
<1>5. ASSUME NEW h \in Handlers, PutFails(h)
      PROVE  Truncated'
  <2>1. put'[h].pc = "idle" /\ \A g \in Handlers \ {h} : put'[g] = put[g]
    BY <1>0, <1>5 DEF PutFails
  <2>. QED BY <1>5, <2>1 DEF PutFails, files, Truncated
<1>6. CASE Edit
  BY <1>6 DEF Edit, Truncated
<1>7. CASE Crash
  BY <1>7 DEF Crash, Truncated
<1>8. CASE WatcherStep \/ Tick \/ UNCHANGED vars
  BY <1>1, <1>8 DEF WatcherStep, StartWatching, TakeEvent, ReadConfig, Backup,
     LogEvent, Announce, Tick, vars, files, writes
<1>. QED BY <1>2, <1>3, <1>4, <1>5, <1>6, <1>7, <1>8 DEF Next

\* When a PUT ends without an error and nobody wrote the file between its two
\* calls, the file holds its config, however long the one before was: the
\* first call has emptied it (main.rs, gateway_config_put_handler).
THEOREM PutsTakeEffect == Spec => PutTakesEffect
<1>1. Init => Truncated
  <2>. SUFFICES ASSUME Init PROVE Truncated
    OBVIOUS
  <2>1. ASSUME NEW h \in Handlers
        PROVE  put[h].pc = "idle"
    <3>1. put[h] = [pc |-> "idle", config |-> None]
      BY DEF Init
    <3>. QED BY <3>1
  <2>. QED BY <2>1 DEF Truncated
<1>2. ASSUME TypeOK, Truncated, Next
      PROVE  \A h \in Handlers, c \in Configs :
               (/\ put[h] = [pc |-> "write", config |-> c] /\ put'[h].pc = "idle"
                /\ h \notin crossed /\ faults' = faults /\ crashes' = crashes)
               => file' = c
  <2>0. SUFFICES ASSUME NEW h \in Handlers, NEW c \in Configs,
                        put[h] = [pc |-> "write", config |-> c],
                        put'[h].pc = "idle", h \notin crossed,
                        faults' = faults, crashes' = crashes
        PROVE  file' = c
    OBVIOUS
  <2>1. /\ put \in [Handlers -> [pc : {"idle", "open", "write"},
                                 config : Configs \cup {None}]]
        /\ faults \in Nat /\ crashes \in Nat
    BY <1>2 DEF TypeOK
  <2>2. put[h].pc = "write" /\ put[h].config = c
    BY <2>0
  <2>3. file = Empty
    BY <1>2, <2>0, <2>2 DEF Truncated
  <2>4. WriteFile(h)
    <3>1. put' # put
      BY <2>0, <2>2
    <3>2. ~Crash
      BY <2>0, <2>1 DEF Crash
    <3>3. \A g \in Handlers : ~PutFails(g)
      BY <2>0, <2>1 DEF PutFails, Fault
    <3>4. \A g \in Handlers : BeginPut(g) \/ Truncate(g) => put'[h].pc # "idle"
      BY <2>1, <2>2 DEF BeginPut, Truncate
    <3>5. \A g \in Handlers : WriteFile(g) => g = h
      BY <2>0, <2>1, <2>2 DEF WriteFile
    <3>6. ~Edit /\ ~WatcherStep /\ ~Tick
      BY <3>1 DEF Edit, WatcherStep, StartWatching, TakeEvent, ReadConfig,
                  Backup, LogEvent, Announce, Tick, writes
    <3>. QED BY <1>2, <2>0, <3>2, <3>3, <3>4, <3>5, <3>6 DEF Next
  <2>5. file' \in Over(Empty, c)
    BY <2>2, <2>3, <2>4 DEF WriteFile, Modify
  <2>6. Over(Empty, c) = {c}
    BY ConfigConstantsOK DEF Over, Empty, Broken
  <2>. QED BY <2>5, <2>6
<1>. QED BY <1>1, <1>2, TruncatedStep, TypeCorrect, PTL DEF Spec, PutTakesEffect
=============================================================================
