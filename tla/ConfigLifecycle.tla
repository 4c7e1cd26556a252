--------------------------- MODULE ConfigLifecycle ---------------------------
(***************************************************************************)
(* The life of gateway.json: PUT /gateway/config and editors write it, the *)
(* watcher (config_watcher.rs) is told of each modification by the file    *)
(* system, and gateway_manager.rs reads, validates, backs up, records and  *)
(* announces it.                                                           *)
(*                                                                         *)
(* The handlers of PUT run side by side and write the file in place: they  *)
(* truncate it and write it in two system calls.  A notification says only *)
(* that the file has changed; what is read later may be a later content,   *)
(* or half of one.                                                         *)
(***************************************************************************)
EXTENDS Naturals, Sequences

CONSTANTS
  Handlers,
  Configs,       \* the valid contents
  Long,          \* those longer than the others
  None,
  MaxChanges,    \* bound: PUTs and edits
  MaxSeconds,    \* bound: seconds on the clock
  MaxFaults,     \* bound: failed calls
  MaxCrashes     \* bound: restarts of king

Seconds == 0 .. MaxSeconds
Empty   == "empty"      \* the file between the two calls of a write
Broken  == "broken"     \* any other content that does not validate
NoBackup == MaxSeconds + 1

\* A config is a content that validates, which an empty file does not.
ASSUME ConfigConstantsOK ==
  /\ Long \subseteq Configs
  /\ Empty \notin Configs
  /\ {MaxChanges, MaxSeconds, MaxFaults, MaxCrashes} \subseteq Nat

VARIABLES
  file,         \* gateway.json
  put,          \* the handlers of PUT
  crossed,      \* those whose file another has written meanwhile
  watching,     \* the watch on the directory is set up
  noticed,      \* it was when the file last changed
  events,       \* notifications sent and not taken
  watcher,      \* watch_config and the lifecycle it runs
  backups,      \* backups/gateway-backup-{timestamp}.json, by second
  twice,        \* the seconds in which more than one backup was written
  history,      \* table config_history
  announced,    \* the config of the last king:config_update
  clock, changes, faults, crashes

files  == <<file, noticed, events>>
writes == <<put, crossed, changes>>
record == <<backups, twice, history, announced>>
vars == <<files, writes, watching, watcher, record, clock, faults, crashes>>

Resting == [pc |-> "idle", config |-> None, backup |-> NoBackup]

Init ==
  /\ file \in Configs \cup {Broken}
  /\ put = [h \in Handlers |-> [pc |-> "idle", config |-> None]]
  /\ crossed = {}
  /\ watching = FALSE
  /\ noticed = FALSE
  /\ events = 0
  /\ watcher = Resting
  /\ backups = [s \in {} |-> None]
  /\ twice = {}
  /\ history = <<>>
  /\ announced = None
  /\ clock = 0
  /\ changes = 0
  /\ faults = 0
  /\ crashes = 0

Fault == faults < MaxFaults /\ faults' = faults + 1

-----------------------------------------------------------------------------
(* Writers of the file                                                     *)

\* A modification: the file system queues a notification, which may coincide
\* with one that is still queued.
Modify(content) ==
  /\ file' = content
  /\ noticed' = watching
  /\ IF watching
     THEN events' \in (IF events = 0 THEN {1} ELSE {events, events + 1})
     ELSE UNCHANGED events

\* h modifies the file: other writes under way are crossed.
Cross(h) ==
  crossed' = (crossed \ {h})
               \cup {g \in Handlers \ {h} : put[g].pc = "write"}

\* PUT /gateway/config; an invalid body is refused.
BeginPut(h) ==
  /\ put[h].pc = "idle" /\ changes < MaxChanges
  /\ \E c \in Configs : put' = [put EXCEPT ![h] = [pc |-> "open", config |-> c]]
  /\ changes' = changes + 1
  /\ UNCHANGED <<files, crossed, watching, watcher, record, clock, faults, crashes>>

\* Mutant: the file is opened without truncating it.
OpenInPlace(h) ==
  /\ put[h].pc = "open"
  /\ put' = [put EXCEPT ![h].pc = "write"]
  /\ UNCHANGED <<files, crossed, changes, watching, watcher, record, clock, faults, crashes>>

\* std::fs::write, opening the file.
Truncate(h) ==
  /\ put[h].pc = "open"
  /\ Modify(Empty)
  /\ Cross(h)
  /\ put' = [put EXCEPT ![h].pc = "write"]
  /\ UNCHANGED <<changes, watching, watcher, record, clock, faults, crashes>>

\* What c written over x leaves: the tail of x if it is longer.
Over(x, c) ==
  IF x = Broken THEN {c, Broken}
  ELSE IF x \in Long /\ c \notin Long THEN {Broken} ELSE {c}

\* std::fs::write, writing it.
WriteFile(h) ==
  /\ put[h].pc = "write"
  /\ \E content \in Over(file, put[h].config) : Modify(content)
  /\ Cross(h)
  /\ put' = [put EXCEPT ![h] = [pc |-> "idle", config |-> None]]
  /\ UNCHANGED <<changes, watching, watcher, record, clock, faults, crashes>>

\* Either call fails, and the handler answers so.
PutFails(h) ==
  /\ put[h].pc # "idle" /\ Fault
  /\ put' = [put EXCEPT ![h] = [pc |-> "idle", config |-> None]]
  /\ UNCHANGED <<files, crossed, changes, watching, watcher, record, clock, crashes>>

\* An agent or a person edits the file.
Edit ==
  /\ changes < MaxChanges
  /\ changes' = changes + 1
  /\ \E content \in Configs \cup {Broken} : Modify(content)
  /\ crossed' = {g \in Handlers : put[g].pc = "write"}
  /\ UNCHANGED <<put, watching, watcher, record, clock, faults, crashes>>

-----------------------------------------------------------------------------
(* watch_config                                                            *)

StartWatching ==
  /\ ~watching
  /\ watching' = TRUE
  /\ UNCHANGED <<files, writes, watcher, record, clock, faults, crashes>>

TakeEvent ==
  /\ watching /\ watcher.pc = "idle" /\ events > 0
  /\ events' = events - 1
  /\ watcher' = [watcher EXCEPT !.pc = "read"]
  /\ UNCHANGED <<file, noticed, writes, watching, record, clock, faults, crashes>>

\* Mutant: a config announced before is not announced again.
ReadNewConfig ==
  /\ watcher.pc = "read"
  /\ watcher' = IF file \in Configs /\ \A i \in 1 .. Len(history) :
                                          history[i].config # file
                THEN [watcher EXCEPT !.pc = "backup", !.config = file]
                ELSE Resting
  /\ UNCHANGED <<files, writes, watching, record, clock, faults, crashes>>

\* Mutant: the text is not validated.
ReadUnvalidated ==
  /\ watcher.pc = "read"
  /\ watcher' = [watcher EXCEPT !.pc = "backup", !.config = file]
  /\ UNCHANGED <<files, writes, watching, record, clock, faults, crashes>>

\* on_config_change reads and validates; an invalid file is left as it is.
ReadConfig ==
  /\ watcher.pc = "read"
  /\ \/ /\ watcher' = IF file \in Configs
                      THEN [watcher EXCEPT !.pc = "backup", !.config = file]
                      ELSE Resting
        /\ UNCHANGED faults
     \/ watcher' = Resting /\ Fault
  /\ UNCHANGED <<files, writes, watching, record, clock, crashes>>

WriteBackup(content) ==
  /\ backups' = [s \in DOMAIN backups \cup {clock} |->
                   IF s = clock THEN content ELSE backups[s]]
  /\ twice' = IF clock \in DOMAIN backups THEN twice \cup {clock} ELSE twice
  /\ watcher' = [watcher EXCEPT !.pc = "log", !.backup = clock]

\* Mutant: the file is copied instead of the text that was read.
CopyBackup ==
  /\ watcher.pc = "backup"
  /\ WriteBackup(file)
  /\ UNCHANGED <<files, writes, watching, history, announced, clock, faults, crashes>>

\* Mutant: a backup of this second is taken for one of this change.
BackupOncePerSecond ==
  /\ watcher.pc = "backup"
  /\ IF clock \in DOMAIN backups
     THEN watcher' = Resting /\ UNCHANGED <<backups, twice>>
     ELSE WriteBackup(watcher.config)
  /\ UNCHANGED <<files, writes, watching, history, announced, clock, faults, crashes>>

\* backup_config: the name has the second; a failure is survived without it.
Backup ==
  /\ watcher.pc = "backup"
  /\ \/ WriteBackup(watcher.config) /\ UNCHANGED faults
     \/ /\ watcher' = [watcher EXCEPT !.pc = "log"]
        /\ Fault /\ UNCHANGED <<backups, twice>>
  /\ UNCHANGED <<files, writes, watching, history, announced, clock, crashes>>

\* log_config_event; a failure is survived.
LogEvent ==
  /\ watcher.pc = "log"
  /\ \/ /\ history' = Append(history, [config |-> watcher.config,
                                       backup |-> watcher.backup])
        /\ UNCHANGED faults
     \/ UNCHANGED history /\ Fault
  /\ watcher' = [watcher EXCEPT !.pc = "announce"]
  /\ UNCHANGED <<files, writes, watching, backups, twice, announced, clock, crashes>>

\* king:config_update to all agents.
Announce ==
  /\ watcher.pc = "announce"
  /\ \/ announced' = watcher.config /\ UNCHANGED faults
     \/ UNCHANGED announced /\ Fault
  /\ watcher' = Resting
  /\ UNCHANGED <<files, writes, watching, backups, twice, history, clock, crashes>>

-----------------------------------------------------------------------------
Tick ==
  /\ clock < MaxSeconds
  /\ clock' = clock + 1
  /\ UNCHANGED <<files, writes, watching, watcher, record, faults, crashes>>

\* King stops: the files and the table stay, notifications are lost, and the
\* next start watches again without looking at the file.
Crash ==
  /\ crashes < MaxCrashes
  /\ crashes' = crashes + 1
  /\ put' = [h \in Handlers |-> [pc |-> "idle", config |-> None]]
  /\ crossed' = {}
  /\ watching' = FALSE /\ noticed' = FALSE /\ events' = 0
  /\ watcher' = Resting
  /\ UNCHANGED <<file, changes, record, clock, faults>>

WatcherStep ==
  StartWatching \/ TakeEvent \/ ReadConfig \/ Backup \/ LogEvent \/ Announce

Next ==
  \/ \E h \in Handlers : BeginPut(h) \/ Truncate(h) \/ WriteFile(h) \/ PutFails(h)
  \/ Edit \/ WatcherStep \/ Tick \/ Crash

Spec == Init /\ [][Next]_vars

\* The loop of the watcher goes on; its calls return.
FairSpec == Spec /\ WF_vars(WatcherStep)

-----------------------------------------------------------------------------
(* Properties                                                              *)

TypeOK ==
  /\ file \in Configs \cup {Empty, Broken}
  /\ put \in [Handlers -> [pc : {"idle", "open", "write"},
                           config : Configs \cup {None}]]
  /\ \A h \in Handlers : put[h].pc # "idle" => put[h].config \in Configs
  /\ crossed \subseteq Handlers
  /\ watching \in BOOLEAN /\ noticed \in BOOLEAN
  /\ events \in Nat /\ (events > 0 => watching)
  /\ watcher \in [pc : {"idle", "read", "backup", "log", "announce"},
                  config : Configs \cup {None}, backup : Seconds \cup {NoBackup}]
  /\ watcher.pc \in {"backup", "log", "announce"} => watcher.config \in Configs
  /\ DOMAIN backups \subseteq 0 .. clock
  /\ \A s \in DOMAIN backups : backups[s] \in Configs
  /\ twice \subseteq DOMAIN backups
  /\ history \in Seq([config : Configs, backup : Seconds \cup {NoBackup}])
  /\ announced \in Configs \cup {None}
  /\ clock \in Seconds
  /\ changes \in 0 .. MaxChanges /\ faults \in 0 .. MaxFaults
  /\ crashes \in 0 .. MaxCrashes

\* When all notifications are dealt with, the agents have been told of the
\* config that is in the file, and it is the last of the history, though a
\* notification does not say which content it is about and the file may have
\* changed again since, even between being read and being announced.
SettledAnnounced ==
  (noticed /\ events = 0 /\ watcher.pc = "idle" /\ faults = 0 /\ file \in Configs)
    => /\ announced = file
       /\ history # <<>> /\ history[Len(history)].config = file

\* A row of config_history that names a backup can be restored from it,
\* unless two changes fell into the same second, whatever was written to the
\* file meanwhile and wherever the lifecycle was cut off.
BackupTrue ==
  \A i \in 1 .. Len(history) :
    LET s == history[i].backup IN
    s # NoBackup /\ s \notin twice =>
      s \in DOMAIN backups /\ backups[s] = history[i].config

\* When PUT /gateway/config has written the file it holds the config of the
\* request, unless another writer came between its two system calls.
PutTakesEffect ==
  [][\A h \in Handlers, c \in Configs :
       (/\ put[h] = [pc |-> "write", config |-> c] /\ put'[h].pc = "idle"
        /\ h \notin crossed /\ faults' = faults /\ crashes' = crashes)
       => file' = c]_vars

\* A valid config that is noticed is announced, unless it is replaced, a call
\* fails, or king stops.
ChangeAnnounced ==
  \A c \in Configs :
    (noticed /\ file = c) ~> (announced = c \/ file # c \/ ~noticed \/ faults > 0)
=============================================================================
