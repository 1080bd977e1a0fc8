----------------------------- MODULE Monitoring -----------------------------
(***************************************************************************)
(* What the monitoring modules and Control collect, composed with Core's   *)
(* web side. A module's collectors live as long as its process. Thermal    *)
(* scans its sensors when it is asked and its last scan is old, without a  *)
(* lock while it scans; Network asks the router for its interfaces, one    *)
(* call after the other, and dates the list when it has all of it; Network *)
(* and Storage compare two readings of the kernel's counters, of           *)
(* interfaces and disks that come and go; System and Control average the   *)
(* load of each CPU over its last readings.                                *)
(*                                                                         *)
(* A reading of counters and what is made of it are one step: only the     *)
(* collector's own loop writes them.                                       *)
(***************************************************************************)
EXTENDS ModuleHost, FiniteSetsExt, SequencesExt

CONSTANTS
  Query,     \* requests for the sensors
  Interval,  \* how old a scan may be
  ScanTime,  \* bound: the longest scan
  MaxTime,   \* bound: the clock stops there
  KeepFor,   \* how long the router's list of interfaces is kept
  ListTime,  \* bound: the longest call that reads it
  NameTime,  \* bound: the longest call that reads the name of one of them
  Interface, \* interfaces as the router calls them
  Device,    \* interfaces or disks as the kernel calls them
  Cpu,       \* CPUs
  MaxCount,  \* bound: of a counter, and what it counts between readings
  Window     \* the readings a CPU's load is averaged over

ASSUME MonitoringAssumption ==
  /\ {Interval, KeepFor} \subseteq Nat \ {0} /\ ScanTime \in Nat /\ MaxTime \in Nat
  /\ MaxCount \in Nat /\ Window \in Nat \ {0}
  /\ ListTime \in Nat /\ NameTime \in Nat /\ IsFiniteSet(Interface)

VARIABLES
  now,      \* the time
  scanned,  \* Thermal's cache: when its scan began, and as of when it is
  query,    \* the requests for the sensors
  router,   \* the interfaces the router has up
  list,     \* Network's list of them: the names it knows, the stamp of the
            \* last attempt, and history: when the router was asked for what
            \* it holds, when it was last shown, and whether a later attempt
            \* has failed
  scan,     \* the reading of it under way: when the router was asked, until
            \* when the call under way may take, and the interfaces found
            \* and of them those whose names are still to be read
  device,   \* the kernel's counter of each device
  moved,    \* history: what it has counted since the last reading, and
            \* whether it was there all the time
  rates,    \* the collector of Network or Storage
  stat,     \* the kernel's times of each CPU
  load      \* the collector of System or Control

sensorVars  == <<scanned, query>>
listVars    == <<router, list, scan>>
rateVars    == <<device, moved, rates>>
cpuVars     == <<stat, load>>
monitorVars == <<now, sensorVars, listVars, rateVars, cpuVars>>
vars        == <<authVars, hostVars, monitorVars>>

Gone == -1  \* the counter of a device that is not there, the rate of one
            \* that has none

NoQuery == [at |-> "idle", asked |-> 0, began |-> 0, shown |-> 0]

Fresh(time) == [began |-> time, at |-> time]

NoRates(previous) ==
  [previous |-> previous, shown  |-> [d \in Device |-> Gone],
   counted  |-> [d \in Device |-> [count |-> 0, whole |-> FALSE]]]

Never == -1

NoList == [of |-> {}, named |-> {}, tried |-> Never, read |-> Never,
           shown |-> Never, failed |-> FALSE]

NoScan == [at |-> "idle", read |-> 0, due |-> 0, found |-> {}, todo |-> {}]

Unmoved == [d \in Device |-> [count |-> 0, whole |-> device[d] # Gone]]

NoLoad(previous) ==
  [previous |-> previous, history |-> [c \in Cpu |-> <<>>], latest |-> {}]

MonitorInit ==
  /\ now = 0 /\ scanned = Fresh(0)
  /\ query = [q \in Query |-> NoQuery]
  /\ router = {} /\ list = NoList /\ scan = NoScan
  /\ device = [d \in Device |-> 0] /\ moved = Unmoved
  /\ rates = NoRates(device)
  /\ stat = [c \in Cpu |-> [busy |-> 0, idle |-> 0, online |-> TRUE]]
  /\ load = NoLoad(stat)

-----------------------------------------------------------------------------
(* Time.                                                                   *)

Tick ==
  /\ now < MaxTime /\ now' = now + 1
  /\ \A q \in Query : query[q].at = "scan" => now < query[q].began + ScanTime
  /\ scan.at # "idle" => now < scan.due
  /\ UNCHANGED <<sensorVars, listVars>>

-----------------------------------------------------------------------------
(* Thermal: a scan is cached, as of the moment it began.                   *)

\* A request looks whether the cache is old, and scans if it is.
AskSensors(q) ==
  /\ proc.at = "up" /\ query[q].at = "idle"
  /\ query' = [query EXCEPT ![q] =
       [NoQuery EXCEPT !.at = IF now - scanned.at >= Interval THEN "scan"
                              ELSE "read",
                       !.asked = now, !.began = now]]
  /\ UNCHANGED scanned

MutStamp(q) == now

Stamp(q) == query[q].began

\* The scan is over; whoever finishes last has the cache.
StoreSensors(q) ==
  /\ query[q].at = "scan"
  /\ scanned' = [began |-> query[q].began, at |-> Stamp(q)]
  /\ query' = [query EXCEPT ![q].at = "read"]

ReadSensors(q) ==
  /\ query[q].at = "read"
  /\ query' = [query EXCEPT ![q].at = "done", ![q].shown = scanned.began]
  /\ UNCHANGED scanned

AnswerSensors(q) ==
  /\ query[q].at = "done"
  /\ query' = [query EXCEPT ![q] = NoQuery]
  /\ UNCHANGED scanned

Sensors ==
  \E q \in Query :
    AskSensors(q) \/ StoreSensors(q) \/ ReadSensors(q) \/ AnswerSensors(q)

-----------------------------------------------------------------------------
(* Network: the router's list of interfaces.                               *)

RouterChanges ==
  /\ \E i \in Interface :
       router' = IF i \in router THEN router \ {i} ELSE router \union {i}
  /\ UNCHANGED <<list, scan>>

Kept == list.of # {} /\ now - list.tried < KeepFor

\* A request for the interfaces, one at a time under keeneticMu, is shown the
\* list if that is young, and has the router asked for it if not.
AskInterfaces ==
  /\ proc.at = "up" /\ scan.at = "idle"
  /\ \/ Kept /\ list' = [list EXCEPT !.shown = now] /\ UNCHANGED scan
     \/ /\ ~Kept
        /\ scan' = [NoScan EXCEPT !.at = "list", !.read = now,
                                  !.due = now + ListTime]
        /\ UNCHANGED list
  /\ UNCHANGED router

\* A list that cannot be read leaves the old one, for a while.
FailList ==
  /\ scan.at = "list" /\ scan' = NoScan
  /\ list' = [list EXCEPT !.tried = IF @ = Never THEN @ ELSE now,
                          !.shown = now, !.failed = TRUE]
  /\ UNCHANGED router

\* Until when the next name may take, if there is one to read.
Due(todo) == IF todo = {} THEN now ELSE now + NameTime

\* The router's answer, taken to be as old as the call.
ReadList ==
  /\ scan.at = "list"
  /\ LET todo == router \ list.named IN
     scan' = [scan EXCEPT !.at = "names", !.due = Due(todo),
                          !.found = router, !.todo = todo]
  /\ UNCHANGED <<router, list>>

\* The names are read one after the other, each once; it may not be told.
NameInterface(i) ==
  /\ i \in scan.todo
  /\ scan' = [scan EXCEPT !.todo = @ \ {i}, !.due = Due(scan.todo \ {i})]
  /\ list' \in {list, [list EXCEPT !.named = @ \union {i}]}
  /\ UNCHANGED router

\* Only then is the list stamped; an interface without a name is left out.
ShowInterfaces ==
  /\ scan.at = "names" /\ scan.todo = {} /\ scan' = NoScan
  /\ list' = [list EXCEPT !.of = scan.found \intersect list.named, !.tried = now,
                          !.read = scan.read, !.shown = now, !.failed = FALSE]
  /\ UNCHANGED router

Interfaces ==
  \/ RouterChanges \/ AskInterfaces \/ FailList \/ ReadList \/ ShowInterfaces
  \/ \E i \in Interface : NameInterface(i)

-----------------------------------------------------------------------------
(* Network and Storage: what the kernel has counted between two readings.  *)

\* A device counts, goes, or comes back and counts from nothing.
Kernel ==
  /\ \E d \in Device :
       \/ /\ device[d] # Gone /\ MaxCount \notin {device[d], moved[d].count}
          /\ device' = [device EXCEPT ![d] = @ + 1]
          /\ moved' = [moved EXCEPT ![d].count = @ + 1]
       \/ /\ device' = [device EXCEPT ![d] = IF @ = Gone THEN 0 ELSE Gone]
          /\ moved' = [moved EXCEPT ![d].whole = FALSE]
  /\ UNCHANGED rates

\* What the kernel tells; the file may be unreadable.
Readings == {device, [d \in Device |-> Gone]}

\* A counter that has fallen has been reset: nothing was counted.
CounterDelta(current, previous) ==
  IF current < previous THEN 0 ELSE current - previous

Rate(current, previous) ==
  IF Gone \in {current, previous} THEN Gone ELSE CounterDelta(current, previous)

MutPrevious(current) ==
  [d \in Device |-> IF current[d] = Gone THEN rates.previous[d] ELSE current[d]]

\* Nothing is kept of a device that is not there.
Previous(current) == current

Sample ==
  /\ proc # Stopped
  /\ \E current \in Readings :
       rates' = [previous |-> Previous(current),
                 shown    |-> [d \in Device |-> Rate(current[d], rates.previous[d])],
                 counted  |-> moved]
  /\ moved' = Unmoved
  /\ UNCHANGED device

NetworkSample == Sample
StorageSample == Sample

Rates == Kernel \/ NetworkSample \/ StorageSample

-----------------------------------------------------------------------------
(* System and Control: how busy each CPU has been.                         *)

\* The kernel's times grow, of idle (which counts the waits for I/O) it takes
\* back some; a CPU is put off- and online.
CpuRuns ==
  /\ \E c \in Cpu :
       \/ stat[c].busy < MaxCount /\ stat' = [stat EXCEPT ![c].busy = @ + 1]
       \/ stat[c].idle < MaxCount /\ stat' = [stat EXCEPT ![c].idle = @ + 1]
       \/ stat[c].idle > 0 /\ stat' = [stat EXCEPT ![c].idle = @ - 1]
       \/ stat' = [stat EXCEPT ![c].online = ~@]
  /\ UNCHANGED load

Total(s) == s.busy + s.idle

\* The busy part of the time between two readings of a CPU.
CpuUsage(previous, current) ==
  LET total == Total(current) - Total(previous)
      idle  == current.idle - previous.idle IN
  [busy |-> IF current.idle < previous.idle \/ idle >= total THEN 0
            ELSE total - idle,
   total |-> total]

\* A CPU of which no time has passed, or that was never seen, has no reading.
Progress(c) ==
  /\ stat[c].online /\ load.previous[c].online
  /\ Total(stat[c]) > Total(load.previous[c])

MutLastReadings(readings) == readings

LastReadings(readings) ==
  SubSeq(readings, IF Len(readings) > Window THEN Len(readings) - Window + 1 ELSE 1,
         Len(readings))

\* Without any reading the last loads stay.
SampleCpus ==
  LET seen == {c \in Cpu : Progress(c)}
      history == [c \in Cpu |->
        IF c \in seen
        THEN LastReadings(Append(load.history[c],
                                 CpuUsage(load.previous[c], stat[c])))
        ELSE load.history[c]] IN
  /\ proc # Stopped
  /\ load' = [previous |-> [c \in Cpu |-> IF stat[c].online THEN stat[c]
                                          ELSE load.previous[c]],
              history  |-> history,
              latest   |-> IF seen = {} THEN load.latest
                           ELSE {[cpu |-> c, of |-> history[c]] : c \in seen}]
  /\ UNCHANGED stat

SystemSample  == SampleCpus
ControlSample == SampleCpus

Cpus == CpuRuns \/ SystemSample \/ ControlSample

-----------------------------------------------------------------------------
(* Together.                                                               *)

Collects(what) == what \in scenario.collects

MonitorStep ==
  /\ \/ /\ Collects("sensors") /\ Sensors
        /\ UNCHANGED <<now, listVars, rateVars, cpuVars>>
     \/ /\ Collects("list") /\ Interfaces
        /\ UNCHANGED <<now, sensorVars, rateVars, cpuVars>>
     \/ /\ Collects("sensors") \/ Collects("list")
        /\ Tick /\ UNCHANGED <<rateVars, cpuVars>>
     \/ /\ Collects("rates") /\ Rates
        /\ UNCHANGED <<now, sensorVars, listVars, cpuVars>>
     \/ /\ Collects("cpu") /\ Cpus
        /\ UNCHANGED <<now, sensorVars, listVars, rateVars>>
  /\ UNCHANGED <<authVars, hostVars>>

\* A process that starts has new collectors, which have read once; the answers
\* of one that has died are lost.
Starts(what) == Collects(what) /\ proc = Stopped /\ proc' # Stopped

Collectors ==
  /\ scanned' = IF Starts("sensors") THEN Fresh(now) ELSE scanned
  /\ query' = IF proc' = Stopped THEN [q \in Query |-> NoQuery] ELSE query
  /\ IF Starts("rates")
     THEN \E first \in Readings : rates' = NoRates(first) /\ moved' = Unmoved
     ELSE UNCHANGED <<rates, moved>>
  /\ list' = IF Starts("list") THEN NoList ELSE list
  /\ scan' = IF proc' = Stopped THEN NoScan ELSE scan
  /\ load' = IF Starts("cpu") THEN NoLoad(stat) ELSE load
  /\ UNCHANGED <<now, router, device, stat>>

Init == AuthInit /\ HostInit /\ MonitorInit

Next == (HostNext /\ Collectors) \/ MonitorStep

\* The page's timers and requests go on, and so do event streams, of which an
\* event is due every two seconds.
Fairness ==
  /\ WF_vars(Serves /\ UNCHANGED <<scenario, authVars, monitorVars>>)
  /\ WF_vars(PageStep /\ UNCHANGED <<scenario, authVars, monitorVars>>)
  /\ \A b \in Browser : WF_vars(Stream(b) /\ UNCHANGED <<hostVars, monitorVars>>)

Spec == Init /\ [][Next]_vars /\ Fairness

-----------------------------------------------------------------------------
(* Properties.                                                             *)

TypeOK ==
  /\ AuthTypeOK /\ HostTypeOK
  /\ now \in 0..MaxTime /\ scanned \in [began : 0..now, at : 0..now]
  /\ query \in [Query -> [at : {"idle", "scan", "read", "done"}, asked : 0..now,
                          began : 0..now, shown : 0..now]]
  /\ proc = Stopped => \A q \in Query : query[q] = NoQuery
  /\ router \subseteq Interface /\ list.of \subseteq list.named
  /\ scan.at \in {"idle", "list", "names"} /\ scan.todo \subseteq scan.found
  /\ scan.at # "idle" => proc # Stopped /\ scan.read <= now /\ now <= scan.due
  /\ device \in [Device -> -1..MaxCount] /\ rates.previous \in [Device -> -1..MaxCount]
  /\ stat \in [Cpu -> [busy : 0..MaxCount, idle : 0..MaxCount, online : BOOLEAN]]
  /\ \A c \in Cpu : Len(load.history[c]) <= Window

\* The longest a reading of the list takes: the list, and a name for each.
ReadingTime == ListTime + NameTime * Cardinality(Interface)

\* The readings a request gets are not older than the cache may be, counted
\* from when they were read: a scan of another request that takes long, or
\* ends after a later one, makes them older by no more than it takes.  The
\* interfaces shown are not older than the list is kept and all the calls of
\* its reading take, as it is stamped after them, unless a later attempt has
\* failed.
ReadingsFresh ==
  /\ \A q \in Query : query[q].at = "done" =>
       query[q].shown >= query[q].asked - Max({Interval - 1, ScanTime})
  /\ list.failed \/ list.shown - list.read < KeepFor + ReadingTime

\* A rate that is shown is what the device has counted between the last two
\* readings, and never more if it was away or counted anew in between.
RatesAreReal ==
  \A d \in Device : rates.shown[d] # Gone =>
    IF rates.counted[d].whole THEN rates.shown[d] = rates.counted[d].count
    ELSE rates.shown[d] <= rates.counted[d].count

\* The loads a CPU's is averaged over are proper shares of the time.
LoadsAreShares ==
  \A l \in load.latest : l.of # <<>> /\
    \A i \in DOMAIN l.of : l.of[i].busy \in 0..l.of[i].total /\ l.of[i].total > 0

\* Together they are no more than a CPU was busy: their running sum is not.
LoadsAddUp ==
  \A c \in Cpu :
    LET readings == load.history[c] IN
    \E sum \in [0..Len(readings) -> 0..stat[c].busy] :
      /\ sum[0] = 0
      /\ \A i \in DOMAIN readings : sum[i] = sum[i - 1] + readings[i].busy

\* The figures that are shown are of what has happened, whatever comes and
\* goes, is counted anew, taken back or cannot be read in between.
FiguresAreReal == RatesAreReal /\ LoadsAreShares /\ LoadsAddUp
=============================================================================
