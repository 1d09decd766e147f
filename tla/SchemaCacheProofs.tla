------------------------- MODULE SchemaCacheProofs -------------------------
(***************************************************************************)
(* Type correctness, the honesty of the cache file's timestamp, the        *)
(* freshness of what a load ends with and the order in which schemas       *)
(* replace each other, for every number of processes, threads and          *)
(* migrations and every TTL.                                               *)
(***************************************************************************)
EXTENDS SchemaCache, TLAPS

\* The schemas the database has had end with the one it has.
History ==
    /\ outdated[source] = Current /\ file.version <= source
    /\ \A v \in Versions : v > source => outdated[v] = Current

\* A schema in memory, and the places of the loader past bind, mean that the
\* connection is bound.
IsBound(p) ==
    /\ proc[p].schema # NoSchema => proc[p].registered /\ proc[p].bound
    /\ proc[p].at \in Loading \ {"register", "bind"} => proc[p].registered /\ proc[p].bound
    /\ proc[p].at = "bind" => proc[p].registered /\ ~proc[p].bound

\* What a loader holds between fetch and the end of the save was the database's
\* schema within the hour, and is the one in memory.
InFlight(p) ==
    /\ proc[p].at \in {"store", "truncate", "write"} <=> proc[p].synced \in Versions
    /\ proc[p].synced # NoSchema => outdated[proc[p].synced] <= 0
    /\ proc[p].at \in {"truncate", "write"} => proc[p].schema = proc[p].synced

\* No hour passes between is_expired and load, so a file that was fresh then,
\* or has been saved since, is fresh.
FreshWhenRead(p) ==
    proc[p].at = "load" /\ ~proc[p].expired /\ file.is = "saved" => file.age <= Ttl

\* No schema is newer than the database's, and a load in its first steps has
\* none in memory.
NotNewer(p) ==
    /\ proc[p].schema <= source /\ proc[p].cached <= source /\ proc[p].synced <= source
    /\ proc[p].at \in Loading \ {"register", "truncate", "write"} => proc[p].schema = NoSchema

Sound(p) == IsBound(p) /\ InFlight(p) /\ FreshWhenRead(p) /\ NotNewer(p)

\* A command runs in a process that has loaded the connection; one that
\* overlaps no other of its process is alone there, and has read a schema at
\* least as new as the process has.
CommandSound(t) ==
    command[t] # Idle =>
        /\ proc[command[t].of].at \in {"ready", "register"}
        /\ proc[command[t].of].registered /\ proc[command[t].of].bound
        /\ command[t].read <= source
        /\ t \notin raced => /\ proc[command[t].of].schema <= command[t].read
                             /\ Syncing(command[t].of) = {t}

IInv == /\ TypeOK /\ TimestampHonest /\ History
        /\ \A p \in Processes : Sound(p)
        /\ \A t \in Threads : CommandSound(t)

USE CacheAssumption DEF Versions, NoSchema, Current, Known, Loading

\* Initially no file is saved, nothing runs and nothing is outdated.
LEMMA InitInv == Init => IInv
BY DEF Init, IInv, TypeOK, TimestampHonest, History, Sound, IsBound, InFlight, FreshWhenRead,
       NotNewer, CommandSound, Missing, Files, Off, Idle, ProcessStates

-----------------------------------------------------------------------------
(***************************************************************************)
(* A step of one process, and maybe of the file, keeps the invariant if it *)
(* leaves the process sound and the file honest, and the process either    *)
(* keeps what commands need of it or runs none.                            *)
(***************************************************************************)
LEMMA LocalStep ==
    ASSUME IInv, NEW p \in Processes, UNCHANGED Others,
           proc' \in [Processes -> ProcessStates],
           \A q \in Processes \ {p} : proc'[q] = proc[q],
           Sound(p)',
           \/ \A t \in Threads : command[t] # Idle => command[t].of # p
           \/ /\ proc'[p].at \in {"ready", "register"}
              /\ proc'[p].registered = proc[p].registered /\ proc'[p].bound = proc[p].bound
              /\ proc'[p].schema = proc[p].schema,
           file' \in Files, TimestampHonest', file'.version <= source,
           file' = file \/ (file'.is = "saved" => file'.age = 0)
    PROVE  IInv'
<1> USE DEF Others
<1>1. TypeOK' /\ History'
  BY DEF IInv, TypeOK, History, Sound, IsBound
<1>2. ASSUME NEW q \in Processes \ {p} PROVE Sound(q)'
  BY <1>2 DEF IInv, Sound, IsBound, InFlight, FreshWhenRead, NotNewer
<1>3. ASSUME NEW t \in Threads PROVE CommandSound(t)'
  <2>1. CommandSound(t) /\ command[t] \in {Idle} \union [in : {"store"}, of : Processes, read : Versions]
    BY DEF IInv, TypeOK
  <2>2. Syncing(command[t].of)' = Syncing(command[t].of)
    BY DEF Syncing
  <2> QED
    BY <2>1, <2>2 DEF CommandSound
<1> QED
  BY <1>1, <1>2, <1>3 DEF IInv

\* Where a load fails, the schema it may bring back is what the file had.
LEMMA SyncFailsStep ==
    ASSUME IInv, NEW p \in Processes, UNCHANGED Others, SyncFails(p, file'),
           proc[p].at \in {"fetch", "truncate", "write"},
           file' \in Files, file' = file \/ file'.is # "saved"
    PROVE  IInv'
<1>1. proc \in [Processes -> ProcessStates] /\ Sound(p) /\ proc[p] \in ProcessStates
  BY DEF IInv, TypeOK
<1>2. /\ proc[p].cached \in Known /\ proc[p].schema \in Known
      /\ Ended(proc[p]) \in ProcessStates /\ Ended(proc[p]).schema = proc[p].schema
  BY <1>1 DEF ProcessStates, Ended
<1>3. PICK c \in {proc[p].schema, proc[p].cached} :
          proc' = [proc EXCEPT ![p] = [Ended(proc[p]) EXCEPT !.failed = TRUE, !.schema = c]]
  <2>1. proc' = [proc EXCEPT ![p] = [Ended(proc[p]) EXCEPT !.failed = TRUE, !.schema =
                    IF proc[p].cached = NoSchema THEN proc[p].schema ELSE proc[p].cached]]
    BY DEF SyncFails
  <2> QED
    BY <2>1
<1>4. /\ proc' \in [Processes -> ProcessStates]
      /\ \A q \in Processes \ {p} : proc'[q] = proc[q]
  BY <1>1, <1>3 DEF Ended, ProcessStates
<1>5. /\ proc'[p].at = "ready" /\ proc'[p].synced = NoSchema /\ proc'[p].cached = NoSchema
      /\ proc'[p].registered = proc[p].registered /\ proc'[p].bound = proc[p].bound
      /\ proc'[p].schema \in {proc[p].schema, proc[p].cached}
  BY <1>1, <1>3 DEF Ended, ProcessStates
<1>6. Sound(p)'
  BY <1>1, <1>5 DEF Sound, IsBound, InFlight, FreshWhenRead, NotNewer, Others, IInv, TypeOK
<1>7. \A t \in Threads : command[t] # Idle => command[t].of # p
  BY DEF IInv, CommandSound
<1>8. TimestampHonest' /\ file'.version <= source
  BY DEF IInv, TypeOK, TimestampHonest, History, Files, Missing, Empty, Torn, Others
<1> QED
  BY <1>4, <1>6, <1>7, <1>8, LocalStep

\* What the invariant says of p, for the steps below.
LEMMA LocalState ==
    ASSUME IInv, NEW p \in Processes
    PROVE  /\ proc \in [Processes -> ProcessStates] /\ proc[p] \in ProcessStates
           /\ Sound(p) /\ TimestampHonest /\ History /\ file \in Files /\ source \in Versions
           /\ file.version \in Known /\ source \in Known
           /\ Ended(proc[p]) \in ProcessStates
           /\ proc[p].at \notin {"ready", "register"} =>
                  \A t \in Threads : command[t] # Idle => command[t].of # p
<1>1. proc[p] \in ProcessStates
  BY DEF IInv, TypeOK
<1>2. Ended(proc[p]) \in ProcessStates
  BY <1>1 DEF Ended, ProcessStates
<1> QED
  BY <1>1, <1>2 DEF IInv, TypeOK, CommandSound, Files, Missing, Empty, Torn

\* Each step of the loader keeps the invariant.
LEMMA LoadStepInv ==
    ASSUME IInv, NEW p \in Processes, Start(p) \/ Reload(p) \/ LoadStep(p)
    PROVE  IInv'
<1> DEFINE others == \A q \in Processes \ {p} : proc'[q] = proc[q]
<1> HIDE DEF Known
<1> USE DEF At, Goto
<1>0. /\ proc \in [Processes -> ProcessStates] /\ proc[p] \in ProcessStates
      /\ Ended(proc[p]) \in ProcessStates
      /\ file \in Files /\ source \in Versions
      /\ file.version \in Known /\ source \in Known
  BY LocalState
<1>s. Sound(p) /\ TimestampHonest /\ History
  BY LocalState
<1>c. proc[p].at \notin {"ready", "register"} =>
          \A t \in Threads : command[t] # Idle => command[t].of # p
  BY LocalState
<1>1. CASE Start(p)
  <2>1. /\ proc' \in [Processes -> ProcessStates] /\ others
        /\ proc'[p] = [proc[p] EXCEPT !.at = "register"]
    <3>1. [proc[p] EXCEPT !.at = "register"] \in ProcessStates
      BY <1>0 DEF ProcessStates
    <3> QED
      BY <1>0, <1>1, <3>1 DEF Start
  <2>2. Sound(p)' /\ TimestampHonest'
    BY <1>0, <1>s, <1>1, <2>1 DEF Start, Sound, IsBound, InFlight, FreshWhenRead, NotNewer, ProcessStates,
          TimestampHonest, Others
  <2> QED
    BY <1>0, <1>s, <1>c, <1>1, <2>1, <2>2, LocalStep DEF Start, History
<1>2. CASE Reload(p)
  <2>1. /\ proc' \in [Processes -> ProcessStates] /\ others
        /\ proc'[p] = [proc[p] EXCEPT !.at = "register"]
    BY <1>0, <1>2 DEF Reload, ProcessStates
  <2>2. Sound(p)' /\ TimestampHonest'
    BY <1>0, <1>s, <1>2, <2>1 DEF Reload, Sound, IsBound, InFlight, FreshWhenRead, NotNewer, ProcessStates,
          TimestampHonest, Others
  <2> QED
    BY <1>0, <1>s, <1>c, <1>2, <2>1, <2>2, LocalStep DEF Reload, History, ProcessStates
<1>3. CASE Register(p)
  <2>1. /\ proc' \in [Processes -> ProcessStates] /\ others
        /\ proc'[p] = [proc[p] EXCEPT !.registered = TRUE,
                          !.at = IF proc[p].registered THEN "ready" ELSE "bind"]
    BY <1>0, <1>3 DEF Register, ProcessStates
  <2>2. Sound(p)' /\ TimestampHonest'
    BY <1>0, <1>s, <1>3, <2>1 DEF Register, Sound, IsBound, InFlight, FreshWhenRead, NotNewer, ProcessStates,
          TimestampHonest, Others
  <2>3. \/ \A t \in Threads : command[t] # Idle => command[t].of # p
        \/ proc[p].registered
    BY <1>0, <1>s DEF IInv, CommandSound
  <2> QED
    BY <1>0, <1>s, <1>c, <1>3, <2>1, <2>2, <2>3, LocalStep DEF Register, History, ProcessStates
<1>4. CASE Bind(p)
  <2>1. /\ proc' \in [Processes -> ProcessStates] /\ others
        /\ \/ proc'[p] = [proc[p] EXCEPT !.bound = TRUE, !.at = "isExpired"]
           \/ proc'[p] = [proc[p] EXCEPT !.failed = TRUE, !.at = "ready"]
    BY <1>0, <1>4 DEF Bind, ProcessStates
  <2>2. Sound(p)' /\ TimestampHonest'
    BY <1>0, <1>s, <1>4, <2>1 DEF Bind, Sound, IsBound, InFlight, FreshWhenRead, NotNewer, ProcessStates,
          TimestampHonest, Others
  <2> QED
    BY <1>0, <1>s, <1>c, <1>4, <2>1, <2>2, LocalStep DEF Bind, History
<1>5. CASE IsExpired(p)
  <2>1. /\ proc' \in [Processes -> ProcessStates] /\ others
        /\ proc'[p] = [proc[p] EXCEPT !.expired = Stale, !.at = "load"]
    BY <1>0, <1>5 DEF IsExpired, Stale, ProcessStates
  <2>2. Sound(p)' /\ TimestampHonest'
    BY <1>0, <1>s, <1>5, <2>1 DEF IsExpired, Stale, Sound, IsBound, InFlight, FreshWhenRead, NotNewer,
          ProcessStates, Files, Missing, Empty, Torn, TimestampHonest, Others
  <2> QED
    BY <1>0, <1>s, <1>c, <1>5, <2>1, <2>2, LocalStep DEF IsExpired, History
<1>6. CASE Load(p)
  <2>1. CASE file.version # NoSchema /\ ~proc[p].expired
    <3>1. /\ proc' \in [Processes -> ProcessStates] /\ others
          /\ proc'[p] = [Ended(proc[p]) EXCEPT !.schema = file.version]
      <4>1. [Ended(proc[p]) EXCEPT !.schema = file.version] \in ProcessStates
        BY <1>0 DEF ProcessStates
      <4> QED
        BY <1>0, <1>6, <2>1, <4>1 DEF Load
    <3>2. Sound(p)' /\ TimestampHonest'
      BY <1>0, <1>s, <1>6, <3>1 DEF Load, Ended, Sound, IsBound, InFlight, FreshWhenRead, NotNewer,
            ProcessStates, TimestampHonest, History, Others
    <3> QED
      BY <1>0, <1>s, <1>c, <1>6, <3>1, <3>2, LocalStep DEF Load, History
  <2>2. CASE ~(file.version # NoSchema /\ ~proc[p].expired)
    <3>1. /\ proc' \in [Processes -> ProcessStates] /\ others
          /\ proc'[p] = [proc[p] EXCEPT !.cached = file.version, !.at = "fetch"]
      <4>1. [proc[p] EXCEPT !.cached = file.version, !.at = "fetch"] \in ProcessStates
        BY <1>0 DEF ProcessStates
      <4> QED
        BY <1>0, <1>6, <2>2, <4>1 DEF Load
    <3>2. Sound(p)' /\ TimestampHonest'
      BY <1>0, <1>s, <1>6, <3>1 DEF Load, Sound, IsBound, InFlight, FreshWhenRead, NotNewer,
            ProcessStates, TimestampHonest, History, Others
    <3> QED
      BY <1>0, <1>s, <1>c, <1>6, <3>1, <3>2, LocalStep DEF Load, History
  <2> QED
    BY <1>0, <2>1, <2>2
<1>7. CASE Fetch(p)
  <2>1. CASE SyncFails(p, file)
    BY <1>0, <1>s, <1>c, <1>7, <2>1, SyncFailsStep DEF Fetch, SyncFails
  <2>2. CASE proc' = [proc EXCEPT ![p].synced = source, ![p].at = "store"] /\ UNCHANGED file
    <3>1. /\ proc' \in [Processes -> ProcessStates] /\ others
          /\ proc'[p] = [proc[p] EXCEPT !.synced = source, !.at = "store"]
      <4>1. [proc[p] EXCEPT !.synced = source, !.at = "store"] \in ProcessStates
        BY <1>0 DEF ProcessStates
      <4> QED
        BY <1>0, <2>2, <4>1
    <3>2. Sound(p)' /\ TimestampHonest'
      BY <1>0, <1>s, <1>7, <2>2, <3>1 DEF Fetch, Sound, IsBound, InFlight, FreshWhenRead, NotNewer,
            ProcessStates, TimestampHonest, History, Others
    <3> QED
      BY <1>0, <1>s, <1>c, <1>7, <2>2, <3>1, <3>2, LocalStep DEF Fetch, History
  <2> QED
    BY <1>0, <1>7, <2>1, <2>2 DEF Fetch
<1>8. CASE Store(p)
  <2>1. /\ proc' \in [Processes -> ProcessStates] /\ others
        /\ proc'[p] = [proc[p] EXCEPT !.schema = proc[p].synced, !.at = "truncate"]
    BY <1>0, <1>8 DEF Store, ProcessStates
  <2>2. Sound(p)' /\ TimestampHonest'
    BY <1>0, <1>s, <1>8, <2>1 DEF Store, Sound, IsBound, InFlight, FreshWhenRead, NotNewer, ProcessStates,
          TimestampHonest, Others
  <2> QED
    BY <1>0, <1>s, <1>c, <1>8, <2>1, <2>2, LocalStep DEF Store, History
<1>9. CASE Truncate(p)
  <2>1. CASE SyncFails(p, file)
    BY <1>0, <1>s, <1>c, <1>9, <2>1, SyncFailsStep DEF Truncate, SyncFails
  <2>2. CASE file' = Empty /\ Goto(p, "write")
    <3>1. /\ proc' \in [Processes -> ProcessStates] /\ others
          /\ proc'[p] = [proc[p] EXCEPT !.at = "write"]
      BY <1>0, <2>2 DEF ProcessStates
    <3>2. Sound(p)' /\ TimestampHonest' /\ file'.version <= source /\ file' \in Files
      BY <1>0, <1>s, <1>9, <2>2, <3>1 DEF Truncate, Empty, Files, Sound, IsBound, InFlight, FreshWhenRead,
            NotNewer, ProcessStates, TimestampHonest, Others
    <3> QED
      BY <1>0, <1>s, <1>c, <1>9, <2>2, <3>1, <3>2, LocalStep DEF Truncate, Empty
  <2> QED
    BY <1>0, <1>9, <2>1, <2>2 DEF Truncate
<1>10. CASE Write(p)
  <2>1. CASE file' \in Written(p) /\ proc' = [proc EXCEPT ![p] = Ended(@)]
    <3>1. /\ proc' \in [Processes -> ProcessStates] /\ others
          /\ proc'[p] = Ended(proc[p])
      BY <1>0, <2>1
    <3>2. /\ file' = file \/ file' = Torn \/ file' = Saved(proc[p].synced)
          /\ proc[p].synced \in Versions
      BY <1>0, <1>s, <1>10, <2>1 DEF Write, Written, Sound, InFlight
    <3>3. Sound(p)'
      BY <1>0, <1>s, <1>10, <3>1 DEF Write, Ended, Sound, IsBound, InFlight, FreshWhenRead,
            NotNewer, ProcessStates, Others
    <3>4. TimestampHonest' /\ file'.version <= source /\ file' \in Files
      BY <1>0, <1>s, <1>10, <3>2 DEF Write, Saved, Torn, Files, Sound, InFlight, NotNewer,
            TimestampHonest, History, Others
    <3> QED
      BY <1>0, <1>s, <1>c, <1>10, <3>1, <3>2, <3>3, <3>4, LocalStep DEF Write, Torn, Saved
  <2>2. CASE \E f \in {file, IF proc[p].unlinked THEN file ELSE Torn} : SyncFails(p, f)
    <3>1. SyncFails(p, file') /\ (file' = file \/ file' = Torn)
      BY <1>0, <2>2 DEF SyncFails
    <3> QED
      BY <1>0, <1>s, <1>c, <1>10, <3>1, SyncFailsStep DEF Write, Torn, Files
  <2> QED
    BY <1>0, <1>10, <2>1, <2>2 DEF Write
<1> QED
  BY <1>1, <1>2, <1>3, <1>4, <1>5, <1>6, <1>7, <1>8, <1>9, <1>10 DEF LoadStep

\* So does each half of a sync command.
LEMMA CommandInv ==
    ASSUME IInv, NEW t \in Threads,
           StoreCommand(t) \/ \E p \in Processes : SyncCommand(t, p)
    PROVE  IInv'
<1>0. \A u \in Threads : command[u] \in {Idle} \union
                                        [in : {"store"}, of : Processes, read : Versions]
  BY DEF IInv, TypeOK
<1>1. CASE StoreCommand(t)
  <2>1. PICK q \in Processes, v \in Versions :
            /\ command[t].of = q /\ command[t].read = v /\ command[t].in = "store"
            /\ proc' = [proc EXCEPT ![q].schema = v]
    BY <1>0, <1>1 DEF StoreCommand
  <2>2. /\ proc \in [Processes -> ProcessStates] /\ Sound(q) /\ proc[q] \in ProcessStates
        /\ CommandSound(t)
    BY DEF IInv, TypeOK
  <2>3. [proc[q] EXCEPT !.schema = v] \in ProcessStates
    BY <2>2 DEF ProcessStates
  <2>4. /\ proc' \in [Processes -> ProcessStates]
        /\ \A p \in Processes \ {q} : proc'[p] = proc[p]
        /\ proc'[q] = [proc[q] EXCEPT !.schema = v]
    BY <2>1, <2>2, <2>3
  <2>5. TypeOK' /\ TimestampHonest' /\ History'
    <3>1. TypeOK'
      BY <1>0, <1>1, <2>1, <2>2, <2>4 DEF StoreCommand, IInv, TypeOK, CommandSound
    <3> QED
      BY <1>1, <3>1 DEF StoreCommand, IInv, TimestampHonest, History
  <2>6. ASSUME NEW p \in Processes PROVE Sound(p)'
    <3>1. CASE p = q
      BY <1>1, <2>1, <2>2, <2>4, <3>1 DEF StoreCommand, CommandSound, Sound, IsBound, InFlight,
            FreshWhenRead, NotNewer, ProcessStates
    <3>2. CASE p # q
      BY <1>1, <2>4, <3>2 DEF StoreCommand, IInv, Sound, IsBound, InFlight, FreshWhenRead, NotNewer
    <3> QED
      BY <3>1, <3>2
  <2>7. ASSUME NEW u \in Threads PROVE CommandSound(u)'
    <3>1. CASE u = t
      BY <1>1, <3>1, <1>0 DEF StoreCommand, CommandSound, IInv, TypeOK
    <3>2. CASE u # t
      <4>1. CommandSound(u) /\ command'[u] = command[u] /\ raced' = raced /\ source' = source
        BY <1>0, <1>1, <3>2 DEF StoreCommand, IInv
      <4>2. u \notin raced /\ command[u] # Idle => command[u].of # q
        BY <1>1, <2>1, <4>1, <3>2 DEF CommandSound, Syncing, StoreCommand, Idle
      <4>3. u \notin raced /\ command[u] # Idle
            => Syncing(command[u].of)' = Syncing(command[u].of)
        BY <1>0, <1>1, <2>1, <4>1, <4>2 DEF StoreCommand, Syncing, Idle
      <4> QED
        BY <1>0, <2>1, <2>2, <2>4, <4>1, <4>2, <4>3 DEF CommandSound, ProcessStates
    <3> QED
      BY <3>1, <3>2
  <2> QED
    BY <2>5, <2>6, <2>7 DEF IInv
<1>2. ASSUME NEW p \in Processes, SyncCommand(t, p) PROVE IInv'
  <2> DEFINE c == [in |-> "store", of |-> p, read |-> source]
  <2>1. /\ command' = [command EXCEPT ![t] = c] /\ c \in [in : {"store"}, of : Processes, read : Versions]
        /\ command'[t] = c /\ \A u \in Threads \ {t} : command'[u] = command[u]
        /\ UNCHANGED <<source, file, proc, outdated>>
    BY <1>0, <1>2 DEF SyncCommand, IInv, TypeOK
  <2>2. TypeOK' /\ TimestampHonest' /\ History'
    <3>1. raced' \subseteq Threads
      BY <1>2 DEF SyncCommand, Syncing, IInv, TypeOK
    <3>2. TypeOK'
      BY <2>1, <3>1 DEF IInv, TypeOK
    <3> QED
      BY <2>1, <3>2 DEF IInv, TimestampHonest, History
  <2>3. ASSUME NEW q \in Processes PROVE Sound(q)'
    BY <2>1 DEF IInv, Sound, IsBound, InFlight, FreshWhenRead, NotNewer
  <2>4. ASSUME NEW u \in Threads PROVE CommandSound(u)'
    <3>1. CASE u = t
      <4>1. c # Idle /\ c.of = p /\ c.read = source
        BY DEF Idle
      <4>2. u \notin raced' => Syncing(p)' = {t}
        BY <1>0, <1>2, <2>1, <3>1, <4>1 DEF SyncCommand, Syncing, Idle
      <4>3. proc[p].schema <= source
        BY DEF IInv, Sound, NotNewer
      <4> QED
        BY <1>2, <2>1, <3>1, <4>1, <4>2, <4>3 DEF SyncCommand, CommandSound, At
    <3>2. CASE u # t
      <4>1. CommandSound(u) /\ command'[u] = command[u]
        BY <2>1, <3>2 DEF IInv
      <4>2. u \notin raced' /\ command[u] # Idle => command[u].of # p /\ u \notin raced
        BY <1>0, <1>2, <3>2 DEF SyncCommand, Syncing, Idle
      <4>3. u \notin raced' /\ command[u] # Idle
            => Syncing(command[u].of)' = Syncing(command[u].of)
        BY <1>0, <2>1, <4>1, <4>2, <1>2 DEF SyncCommand, Syncing, Idle
      <4> QED
        BY <2>1, <4>1, <4>2, <4>3 DEF CommandSound
    <3> QED
      BY <3>1, <3>2
  <2> QED
    BY <2>2, <2>3, <2>4 DEF IInv
<1> QED
  BY <1>1, <1>2

\* A process that ends takes its commands with it.
LEMMA ExitInv ==
    ASSUME IInv, NEW p \in Processes, Exit(p)
    PROVE  IInv'
<1>0. /\ proc \in [Processes -> ProcessStates]
      /\ \A u \in Threads : command[u] \in {Idle} \union
                                           [in : {"store"}, of : Processes, read : Versions]
  BY DEF IInv, TypeOK
<1>1. /\ proc' \in [Processes -> ProcessStates] /\ proc'[p] = Off
      /\ \A q \in Processes \ {p} : proc'[q] = proc[q]
      /\ UNCHANGED <<source, file, outdated>>
  BY <1>0 DEF Exit, Off, ProcessStates
<1>2. \A u \in Threads : \/ u \in Syncing(p) /\ command'[u] = Idle
                         \/ u \notin Syncing(p) /\ command'[u] = command[u]
  BY DEF Exit
<1>3. TypeOK'
  BY <1>0, <1>1 DEF Exit, IInv, TypeOK, Off, Idle
<1>4. TimestampHonest' /\ History'
  BY <1>1 DEF IInv, TimestampHonest, History
<1>5. ASSUME NEW q \in Processes PROVE Sound(q)'
  BY <1>1 DEF Off, IInv, TypeOK, Sound, IsBound, InFlight, FreshWhenRead, NotNewer
<1>6. ASSUME NEW u \in Threads, command'[u] # Idle PROVE CommandSound(u)'
  <2>1. CommandSound(u) /\ command'[u] = command[u] /\ command[u].of \in Processes \ {p}
    BY <1>0, <1>2, <1>6 DEF IInv, Syncing, Idle
  <2>2. u \notin raced' => u \notin raced
    BY <1>2, <1>6 DEF Exit
  <2>3. Syncing(command[u].of)' = Syncing(command[u].of)
    BY <1>0, <1>2, <2>1 DEF Syncing, Idle
  <2> QED
    BY <1>1, <1>6, <2>1, <2>2, <2>3 DEF CommandSound
<1> QED
  BY <1>3, <1>4, <1>5, <1>6 DEF IInv, CommandSound

\* The cache commands, the database's migrations, and time.
LEMMA EnvironmentInv ==
    ASSUME IInv, ClearCache \/ Migrate \/ Hour \/ UNCHANGED vars
    PROVE  IInv'
<1>0. /\ proc \in [Processes -> ProcessStates] /\ \A p \in Processes : proc[p] \in ProcessStates
      /\ source \in Versions /\ file \in Files /\ file.version \in Known
      /\ outdated \in [Versions -> {Current} \union 0..(Ttl + 1)]
  BY DEF IInv, TypeOK, Files, Missing, Empty, Torn
<1>1. CASE ClearCache
  <2>1. /\ proc' \in [Processes -> ProcessStates]
        /\ \A p \in Processes :
              proc'[p] = [proc[p] EXCEPT !.unlinked = proc[p].unlinked \/ proc[p].at = "write"]
    BY <1>0, <1>1 DEF ClearCache, At, ProcessStates
  <2>2. /\ UNCHANGED Others /\ file' = Missing
        /\ \A p \in Processes : /\ proc'[p].at = proc[p].at /\ proc'[p].registered = proc[p].registered
                                /\ proc'[p].bound = proc[p].bound /\ proc'[p].schema = proc[p].schema
                                /\ proc'[p].cached = proc[p].cached /\ proc'[p].synced = proc[p].synced
    BY <1>0, <1>1, <2>1 DEF ClearCache, ProcessStates
  <2>3. TypeOK' /\ TimestampHonest' /\ History'
    BY <1>0, <2>1, <2>2 DEF IInv, TypeOK, TimestampHonest, History, Files, Missing, Others
  <2>4. ASSUME NEW p \in Processes PROVE Sound(p)'
    BY <2>2 DEF IInv, Sound, IsBound, InFlight, FreshWhenRead, NotNewer, Missing, Others
  <2>5. ASSUME NEW u \in Threads PROVE CommandSound(u)'
    <3>1. CommandSound(u) /\ (command[u] # Idle => command[u].of \in Processes)
      BY DEF IInv, TypeOK
    <3>2. Syncing(command[u].of)' = Syncing(command[u].of)
      BY <2>2 DEF Syncing, Others
    <3> QED
      BY <2>2, <3>1, <3>2 DEF CommandSound, Others
  <2> QED
    BY <2>3, <2>4, <2>5 DEF IInv
<1>2. CASE Migrate
  <2>1. /\ source' = source + 1 /\ source' \in Versions
        /\ \A v \in Versions : outdated'[v] = IF v = source THEN 0 ELSE outdated[v]
        /\ UNCHANGED <<file, proc, command, raced>>
    BY <1>0, <1>2 DEF Migrate
  <2>2. TypeOK'
    BY <1>0, <1>2, <2>1 DEF Migrate, IInv, TypeOK
  <2>3. TimestampHonest'
    BY <1>0, <2>1 DEF IInv, TimestampHonest, Files, Missing, Empty, Torn
  <2>4. History'
    BY <1>0, <2>1 DEF IInv, History
  <2>5. ASSUME NEW p \in Processes PROVE Sound(p)'
    BY <1>0, <2>1 DEF IInv, Sound, IsBound, InFlight, FreshWhenRead, NotNewer, ProcessStates
  <2>6. ASSUME NEW u \in Threads PROVE CommandSound(u)'
    <3>1. CommandSound(u) /\ (command[u] # Idle => command[u].read \in Versions)
      BY DEF IInv, TypeOK
    <3>2. Syncing(command[u].of)' = Syncing(command[u].of)
      BY <2>1 DEF Syncing
    <3> QED
      BY <1>0, <2>1, <3>1, <3>2 DEF CommandSound
  <2> QED
    BY <2>2, <2>3, <2>4, <2>5, <2>6 DEF IInv
<1>3. CASE Hour
  <2>1. /\ \A p \in Processes : proc[p].at \notin Loading
        /\ \A t \in Threads : command[t] = Idle
        /\ UNCHANGED <<source, proc, command, raced>>
        /\ \A v \in Versions : outdated'[v] = IF outdated[v] = Current THEN Current
                                              ELSE Cap(outdated[v] + 1)
    BY <1>3 DEF Hour
  <2>2. file' \in Files /\ file'.version = file.version /\ file'.is = file.is
        /\ (file.is = "saved" => file.version \in Versions /\ file'.age = Cap(file.age + 1))
    BY <1>0, <1>3 DEF Hour, Cap, Files, Missing, Empty, Torn
  <2>3. TypeOK'
    BY <1>0, <1>3, <2>1, <2>2 DEF Hour, Cap, IInv, TypeOK
  <2>4. TimestampHonest'
    BY <1>0, <2>1, <2>2 DEF IInv, TimestampHonest, Cap, Files, Missing, Empty, Torn
  <2>5. History'
    BY <1>0, <2>1, <2>2 DEF IInv, History
  <2>6. ASSUME NEW p \in Processes PROVE Sound(p)'
    BY <1>0, <2>1 DEF IInv, Sound, IsBound, InFlight, FreshWhenRead, NotNewer, Cap, ProcessStates
  <2> QED
    BY <2>1, <2>3, <2>4, <2>5, <2>6 DEF IInv, CommandSound
<1>4. CASE UNCHANGED vars
  BY <1>4 DEF vars, IInv, TypeOK, TimestampHonest, History, Sound, IsBound, InFlight,
       FreshWhenRead, NotNewer, CommandSound, Syncing
<1> QED
  BY <1>1, <1>2, <1>3, <1>4

-----------------------------------------------------------------------------
\* The invariant holds in every reachable state.
LEMMA Invariance == Spec => []IInv
<1>1. IInv /\ [Next]_vars => IInv'
  BY LoadStepInv, CommandInv, ExitInv, EnvironmentInv DEF Next
<1> QED
  BY InitInv, <1>1, PTL DEF Spec

\* Every state is one the components can be in: in particular, a process has a
\* schema for the connection only after engine.connect and the module's binding.
THEOREM TypeCorrect == Spec => []TypeOK
BY Invariance, PTL DEF IInv

\* The age of the cache file is never less than the time its schema has been
\* out of date, whatever loads, saves, crashes and cache commands interleave.
THEOREM TimestampsHonest == Spec => []TimestampHonest
BY Invariance, PTL DEF IInv

-----------------------------------------------------------------------------
\* Who moves a process, and who changes its schema.
LEMMA Movers ==
    ASSUME IInv, Next, NEW p \in Processes
    PROVE  \/ proc'[p].at = proc[p].at /\ proc'[p].schema = proc[p].schema
           \/ Start(p) \/ Reload(p) \/ LoadStep(p) \/ Exit(p)
           \/ /\ \E t \in Threads : StoreCommand(t) /\ command[t].of = p
              /\ proc'[p].at = proc[p].at
<1>0. /\ proc \in [Processes -> ProcessStates] /\ proc[p] \in ProcessStates
      /\ \A t \in Threads : command[t] # Idle => command[t].of \in Processes
  BY DEF IInv, TypeOK
<1>1. CASE \E q \in Processes : Start(q) \/ Reload(q) \/ LoadStep(q) \/ Exit(q)
  <2>1. PICK q \in Processes : Start(q) \/ Reload(q) \/ LoadStep(q) \/ Exit(q)
    BY <1>1
  <2>2. proc' = [proc EXCEPT ![q] = proc'[q]]
    BY <1>0, <2>1 DEF Start, Reload, Exit, LoadStep, Register, Bind, IsExpired, Load, Fetch, Store,
          Truncate, Write, SyncFails, Goto
  <2>3. CASE p # q
    BY <1>0, <2>2, <2>3
  <2> QED
    BY <2>1, <2>3
<1>2. CASE \E t \in Threads : StoreCommand(t)
  <2>1. PICK t \in Threads : StoreCommand(t)
    BY <1>2
  <2>2. PICK q \in Processes : /\ command[t].of = q
                               /\ proc' = [proc EXCEPT ![q].schema = command[t].read]
    BY <1>0, <2>1 DEF StoreCommand
  <2>3. proc'[p].at = proc[p].at
    BY <1>0, <2>2 DEF ProcessStates
  <2>4. CASE p # q
    BY <1>0, <2>2, <2>3, <2>4
  <2> QED
    BY <2>1, <2>2, <2>3, <2>4
<1>3. CASE \/ \E t \in Threads, q \in Processes : SyncCommand(t, q)
           \/ Migrate \/ Hour
  BY <1>3 DEF SyncCommand, Migrate, Hour
<1>4. CASE ClearCache
  BY <1>0, <1>4 DEF ClearCache, ProcessStates
<1> QED
  BY <1>1, <1>2, <1>3, <1>4 DEF Next

\* A load that has not warned ends with a schema in memory that the database
\* had at most Ttl hours ago.
THEOREM LoadsAreRecent == Spec => LoadsRecentSchema
<1> DEFINE recent(p) ==
        /\ proc[p].at \in Loading \ {"register"}
        /\ proc'[p].at = "ready" /\ ~proc'[p].failed
        => /\ proc'[p].schema # NoSchema
           /\ outdated'[proc'[p].schema] <= Ttl
<1>1. ASSUME IInv, Next, NEW p \in Processes PROVE recent(p)
  <2> SUFFICES ASSUME proc[p].at \in Loading \ {"register"}, proc'[p].at = "ready",
                      ~proc'[p].failed
               PROVE  proc'[p].schema # NoSchema /\ outdated'[proc'[p].schema] <= Ttl
    OBVIOUS
  <2>0. /\ proc \in [Processes -> ProcessStates] /\ proc[p] \in ProcessStates
        /\ file \in Files /\ Sound(p) /\ TimestampHonest /\ History
        /\ outdated \in [Versions -> {Current} \union 0..(Ttl + 1)]
    BY <1>1 DEF IInv, TypeOK
  <2>1. LoadStep(p)
    <3>1. ~Start(p) /\ ~Reload(p)
      BY DEF Start, Reload, At
    <3>2. ~Exit(p)
      BY <2>0 DEF Exit, Off
    <3> QED
      BY <1>1, <3>1, <3>2, Movers
  <2>2. \A f : ~SyncFails(p, f)
    BY <2>0 DEF SyncFails, Ended, ProcessStates
  <2>3. Load(p) \/ Write(p)
    <3> USE DEF At, Goto, ProcessStates
    <3>1. ~Register(p) /\ ~Bind(p) /\ ~IsExpired(p) /\ ~Store(p)
      BY <2>0 DEF Register, Bind, IsExpired, Store
    <3>2. ~Fetch(p) /\ ~Truncate(p)
      BY <2>0, <2>2 DEF Fetch, Truncate
    <3> QED
      BY <2>1, <3>1, <3>2 DEF LoadStep
  <2>4. CASE Load(p)
    <3>1. /\ file.version # NoSchema /\ ~proc[p].expired /\ proc'[p].schema = file.version
          /\ outdated' = outdated /\ proc[p].at = "load"
      BY <2>0, <2>4 DEF Load, Ended, At, ProcessStates, Others
    <3>2. file.is = "saved" /\ file.version \in Versions /\ file.age <= Ttl /\ file.age \in Nat
      BY <2>0, <3>1 DEF Sound, FreshWhenRead, Files, Missing, Empty, Torn
    <3> QED
      BY <2>0, <3>1, <3>2 DEF TimestampHonest
  <2>5. CASE Write(p)
    <3>1. proc'[p] = Ended(proc[p]) /\ outdated' = outdated /\ proc[p].at = "write"
      BY <2>0, <2>5, <2>2 DEF Write, At, Others
    <3>2. proc'[p].schema = proc[p].synced /\ proc[p].synced \in Versions
      BY <2>0, <3>1 DEF Sound, InFlight, Ended, ProcessStates
    <3> QED
      BY <2>0, <3>1, <3>2 DEF Sound, InFlight
  <2> QED
    BY <2>3, <2>4, <2>5
<1>2. IInv /\ [Next]_vars => [\A p \in Processes : recent(p)]_vars
  BY <1>1
<1> QED
  BY Invariance, <1>2, PTL DEF Spec, LoadsRecentSchema

\* The schema in memory is replaced by an older one only where the loader's own
\* sync fails, or by a sync command that overlapped another of its process.
THEOREM SchemaNeverGoesBack == Spec => NeverGoesBack
<1> DEFINE forward(p) ==
        /\ proc[p].schema # NoSchema /\ proc'[p].schema # NoSchema
        /\ proc'[p].schema < proc[p].schema
        => \/ proc[p].at \in {"truncate", "write"} /\ proc'[p].failed
           \/ \E t \in raced : command[t] # Idle /\ command[t].of = p
<1>1. ASSUME IInv, Next, NEW p \in Processes PROVE forward(p)
  <2> SUFFICES ASSUME proc[p].schema # NoSchema, proc'[p].schema # NoSchema,
                      proc'[p].schema < proc[p].schema
               PROVE  \/ proc[p].at \in {"truncate", "write"} /\ proc'[p].failed
                      \/ \E t \in raced : command[t] # Idle /\ command[t].of = p
    OBVIOUS
  <2>0. /\ proc \in [Processes -> ProcessStates] /\ proc[p] \in ProcessStates /\ Sound(p)
        /\ proc[p].schema \in Known /\ ~(proc[p].schema < proc[p].schema)
    BY <1>1 DEF IInv, TypeOK, ProcessStates
  <2> USE DEF At, Goto, ProcessStates
  <2>1. ~Start(p) /\ ~Reload(p) /\ ~Exit(p)
    BY <2>0 DEF Start, Reload, Exit, Off
  <2>2. CASE \E t \in Threads : StoreCommand(t) /\ command[t].of = p
    <3>1. PICK t \in Threads : StoreCommand(t) /\ command[t].of = p
      BY <2>2
    <3>2. proc'[p].schema = command[t].read /\ command[t] # Idle /\ CommandSound(t)
      BY <1>1, <2>0, <3>1 DEF StoreCommand, IInv
    <3>3. t \in raced
      BY <1>1, <2>0, <3>1, <3>2 DEF CommandSound, IInv, TypeOK
    <3> QED
      BY <3>1, <3>2, <3>3
  <2>3. CASE LoadStep(p)
    <3>1. ~Register(p) /\ ~Bind(p) /\ ~IsExpired(p)
      BY <2>0 DEF Register, Bind, IsExpired
    <3>2. ~Load(p) /\ ~Fetch(p) /\ ~Store(p)
      BY <2>0 DEF Load, Fetch, Store, Sound, NotNewer
    <3>3. CASE \E f : SyncFails(p, f) /\ proc[p].at \in {"truncate", "write"}
      <4>1. proc'[p].failed
        BY <2>0, <3>3 DEF SyncFails, Ended
      <4> QED
        BY <3>3, <4>1
    <3>4. CASE proc' = [proc EXCEPT ![p] = Ended(@)] \/ Goto(p, "write")
      <4>1. proc'[p].schema = proc[p].schema
        <5>1. CASE proc' = [proc EXCEPT ![p] = Ended(@)]
          BY <2>0, <5>1 DEF Ended
        <5>2. CASE Goto(p, "write")
          BY <2>0, <5>2
        <5> QED
          BY <3>4, <5>1, <5>2
      <4> QED
        BY <2>0, <4>1
    <3> QED
      <4>1. CASE Truncate(p)
        BY <3>3, <3>4, <4>1 DEF Truncate
      <4>2. CASE Write(p)
        BY <3>3, <3>4, <4>2 DEF Write
      <4> QED
        BY <2>3, <3>1, <3>2, <4>1, <4>2 DEF LoadStep
  <2> QED
    BY <1>1, <2>0, <2>1, <2>2, <2>3, Movers
<1>2. IInv /\ [Next]_vars => [\A p \in Processes : forward(p)]_vars
  BY <1>1
<1> QED
  BY Invariance, <1>2, PTL DEF Spec, NeverGoesBack
=============================================================================
