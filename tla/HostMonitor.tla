------------------------------ MODULE HostMonitor ------------------------------
(***************************************************************************)
(* The ticker of the host monitor (service/host_monitor_service.go): its    *)
(* start, its stop, and ReloadConfig, which the settings handler and every  *)
(* configuration message of Redis call, each in a goroutine of its own.     *)
(* What a tick does is in HostCheck.                                        *)
(*                                                                         *)
(* A mutex guards each section of code, not the operation: a step here is   *)
(* one such section.                                                        *)
(***************************************************************************)
EXTENDS Naturals

CONSTANTS
  Callers,     \* goroutines that may reload the configuration
  Main,        \* the caller that also starts the service
  Intervals,   \* intervals that can be set
  MaxTickers,  \* tickers ever made (bound)
  MaxSaves,    \* changes of the settings (bound)
  MaxReloads   \* calls of ReloadConfig (bound)

ASSUME HostMonitorAssumption ==
  /\ Main \in Callers
  /\ Intervals \subseteq Nat \ {0}
  /\ MaxTickers \in Nat /\ MaxSaves \in Nat /\ MaxReloads \in Nat

VARIABLES
  saved,      \* the settings in the database
  config,     \* config.Enabled and interval
  isRunning,
  current,    \* tickerStop, tickerStopped and ticker: a ticker, or 0 for nil
  ticker,     \* the ticker goroutines
  every,      \* the interval each of them was made with
  closed,     \* tickers whose tickerStop is closed
  stopping,   \* stopChan is closed
  pc,         \* where each caller is
  old,        \* oldEnabled and oldInterval of each caller
  mine,       \* the ticker a caller is stopping
  then,       \* what a caller does after the stop
  crash,
  overlap,    \* whether two calls have ever overlapped (history)
  saves, reloads

service == <<config, isRunning, current, ticker, every, closed, stopping, crash>>
locals  == <<pc, old, mine, then, overlap>>
tickerVars == <<saved, service, locals, saves, reloads>>

Tickers  == 1 .. MaxTickers
Settings == [enabled : {"on", "off"}, interval : Intervals]

\* In the database the interval may be no positive number; 0 stands for that.
Stored == [enabled : {"on", "off"}, interval : Intervals \cup {0}]

TickerTypeOK ==
  /\ saved \in Stored /\ config \in Settings
  /\ isRunning \in {"yes", "no"}
  /\ current \in 0 .. MaxTickers
  /\ ticker \in [Tickers -> {"none", "wait", "check", "stopped"}]
  /\ every \in [Tickers -> Intervals]
  /\ closed \subseteq Tickers
  /\ stopping \in {"yes", "no"}
  /\ pc \in [Callers -> {"idle", "load", "loading", "decide", "start", "create",
                         "stop", "close", "wait", "clear"}]
  /\ old \in [Callers -> Settings]
  /\ mine \in [Callers -> 0 .. MaxTickers]
  /\ then \in [Callers -> {"idle", "start", "create"}]
  /\ crash \in {"no", "nil", "twice"}
  /\ overlap \in {"no", "yes"}
  /\ saves \in 0 .. MaxSaves /\ reloads \in 0 .. MaxReloads

\* NewHostMonitorService has loaded the configuration; main is about to start
\* the service.
TickerInit ==
  /\ saved \in Settings /\ config = saved
  /\ isRunning = "no" /\ current = 0
  /\ ticker = [i \in Tickers |-> "none"]
  /\ \E n \in Intervals : every = [i \in Tickers |-> n]
  /\ closed = {} /\ stopping = "no" /\ crash = "no"
  /\ pc = [c \in Callers |->
             IF c = Main /\ config.enabled = "on" THEN "start" ELSE "idle"]
  /\ old = [c \in Callers |-> config]
  /\ mine = [c \in Callers |-> 0]
  /\ then = [c \in Callers |-> "idle"]
  /\ overlap = "no" /\ saves = 0 /\ reloads = 0

Alive == crash = "no"
Goto(c, l) == pc' = [pc EXCEPT ![c] = l]

\* configMu is held for writing.
Loading == \E c \in Callers : pc[c] = "loading"

-----------------------------------------------------------------------------
(* ReloadConfig.                                                            *)

\* The administrator saves settings.
Save ==
  /\ Alive /\ saves < MaxSaves
  /\ saves' = saves + 1
  /\ saved' \in Stored \ {saved}
  /\ UNCHANGED <<service, locals, reloads>>

BeginReload(c) ==
  /\ Alive /\ pc[c] = "idle" /\ ~Loading /\ reloads < MaxReloads
  /\ reloads' = reloads + 1
  /\ old' = [old EXCEPT ![c] = config]
  /\ overlap' = IF \E d \in Callers : pc[d] # "idle" THEN "yes" ELSE overlap
  /\ Goto(c, "load")
  /\ UNCHANGED <<saved, service, mine, then, saves>>

\* loadConfig reads one setting after the other.
LoadEnabled(c) ==
  /\ Alive /\ pc[c] = "load" /\ ~Loading
  /\ config' = [config EXCEPT !.enabled = saved.enabled]
  /\ Goto(c, "loading")
  /\ UNCHANGED <<saved, isRunning, current, ticker, every, closed, stopping,
                 crash, old, mine, then, overlap, saves, reloads>>

\* Mistake: the interval is not looked at.
LoadAnyInterval(c) ==
  /\ Alive /\ pc[c] = "loading"
  /\ config' = [config EXCEPT !.interval = saved.interval]
  /\ Goto(c, "decide")
  /\ UNCHANGED <<saved, isRunning, current, ticker, every, closed, stopping,
                 crash, old, mine, then, overlap, saves, reloads>>

\* An interval that is no positive number is ignored.
LoadInterval(c) ==
  /\ Alive /\ pc[c] = "loading"
  /\ config' = [config EXCEPT !.interval =
                  IF saved.interval > 0 THEN saved.interval ELSE @]
  /\ Goto(c, "decide")
  /\ UNCHANGED <<saved, isRunning, current, ticker, every, closed, stopping,
                 crash, old, mine, then, overlap, saves, reloads>>

\* Mistake: a changed interval does not restart the ticker.
DecideByEnabled(c) ==
  /\ Alive /\ pc[c] = "decide" /\ ~Loading
  /\ then' = [then EXCEPT ![c] = "idle"]
  /\ Goto(c, IF config.enabled = old[c].enabled THEN "idle"
             ELSE IF config.enabled = "on" THEN "start" ELSE "stop")
  /\ UNCHANGED <<saved, service, old, mine, overlap, saves, reloads>>

\* Start or stop when the monitor was switched; restart it when the interval
\* of an enabled one changed.
Decide(c) ==
  /\ Alive /\ pc[c] = "decide" /\ ~Loading
  /\ LET switched == config.enabled # old[c].enabled
         restart  == config.enabled = "on" /\ config.interval # old[c].interval
     IN  \/ /\ switched /\ config.enabled = "on"
            /\ Goto(c, "start") /\ UNCHANGED then
         \/ /\ switched /\ config.enabled = "off"
            /\ Goto(c, "stop") /\ then' = [then EXCEPT ![c] = "idle"]
         \/ /\ ~switched /\ restart
            /\ Goto(c, "stop") /\ then' = [then EXCEPT ![c] = "start"]
         \/ ~switched /\ ~restart /\ Goto(c, "idle") /\ UNCHANGED then
  /\ UNCHANGED <<saved, service, old, mine, overlap, saves, reloads>>

-----------------------------------------------------------------------------
(* startTicker and stopTickerInternal.                                      *)

Fresh == {i \in Tickers : ticker[i] = "none"}

Create(c) ==
  \E i \in Fresh :
    /\ \A j \in Fresh : i <= j
    /\ ticker' = [ticker EXCEPT ![i] = "wait"]
    /\ every' = [every EXCEPT ![i] = config.interval]
    /\ current' = i
    /\ isRunning' = "yes"
    /\ Goto(c, "idle")

\* The section before the stop of an older ticker, and without one the whole.
StartTicker(c) ==
  /\ Alive /\ pc[c] = "start"
  /\ \/ /\ isRunning = "yes"
        /\ Goto(c, "stop") /\ then' = [then EXCEPT ![c] = "create"]
        /\ UNCHANGED <<ticker, every, current, isRunning>>
     \/ isRunning = "no" /\ Create(c) /\ UNCHANGED then
  /\ UNCHANGED <<saved, config, closed, stopping, crash, old, mine, overlap,
                 saves, reloads>>

\* The section after the stop: isRunning is not looked at again.
CreateTicker(c) ==
  /\ Alive /\ pc[c] = "create"
  /\ Create(c)
  /\ UNCHANGED <<saved, config, closed, stopping, crash, old, mine, then,
                 overlap, saves, reloads>>

\* Mistake: isRunning is reset only when the stop is complete.
BeginStopKeeps(c) ==
  /\ Alive /\ pc[c] = "stop"
  /\ \/ isRunning = "no" /\ Goto(c, then[c]) /\ UNCHANGED mine
     \/ /\ isRunning = "yes"
        /\ mine' = [mine EXCEPT ![c] = current]
        /\ Goto(c, "close")
  /\ UNCHANGED <<saved, config, isRunning, current, ticker, every, closed,
                 stopping, crash, old, then, overlap, saves, reloads>>

\* The section before the close of the channel: isRunning is reset first.
BeginStop(c) ==
  /\ Alive /\ pc[c] = "stop"
  /\ \/ isRunning = "no" /\ Goto(c, then[c]) /\ UNCHANGED <<mine, isRunning>>
     \/ /\ isRunning = "yes"
        /\ mine' = [mine EXCEPT ![c] = current]
        /\ isRunning' = "no"
        /\ Goto(c, "close")
  /\ UNCHANGED <<saved, config, current, ticker, every, closed, stopping, crash,
                 old, then, overlap, saves, reloads>>

\* Mistake: the channel is taken from the field, which may be another ticker's
\* by now.
CloseStopByField(c) ==
  /\ Alive /\ pc[c] = "close"
  /\ crash' = IF current = 0 THEN "nil"
              ELSE IF current \in closed THEN "twice" ELSE "no"
  /\ closed' = closed \cup ({current} \ {0})
  /\ Goto(c, "wait")
  /\ UNCHANGED <<saved, config, isRunning, current, ticker, every, stopping, old,
                 mine, then, overlap, saves, reloads>>

\* close(tickerStop), which panics on nil and on a closed channel.
CloseStop(c) ==
  /\ Alive /\ pc[c] = "close"
  /\ crash' = IF mine[c] = 0 THEN "nil"
              ELSE IF mine[c] \in closed THEN "twice" ELSE "no"
  /\ closed' = closed \cup ({mine[c]} \ {0})
  /\ Goto(c, "wait")
  /\ UNCHANGED <<saved, config, isRunning, current, ticker, every, stopping, old,
                 mine, then, overlap, saves, reloads>>

\* Mistake: the goroutine's end is not waited for.
StoppedOrNot(c) == TRUE

\* <-tickerStopped.
Stopped(c) == mine[c] # 0 /\ ticker[mine[c]] = "stopped"

AwaitStopped(c) ==
  /\ Alive /\ pc[c] = "wait" /\ Stopped(c)
  /\ Goto(c, "clear")
  /\ UNCHANGED <<saved, service, old, mine, then, overlap, saves,
                 reloads>>

ClearTicker(c) ==
  /\ Alive /\ pc[c] = "clear"
  /\ current' = 0
  /\ Goto(c, then[c])
  /\ UNCHANGED <<saved, config, isRunning, ticker, every, closed, stopping, crash,
                 old, mine, then, overlap, saves, reloads>>

-----------------------------------------------------------------------------
(* The ticker goroutines and the end of the service.                        *)

SetTicker(i, s) == ticker' = [ticker EXCEPT ![i] = s]

\* A tick: checkAllHosts runs in the goroutine.
TickerFires(i) ==
  /\ Alive /\ ticker[i] = "wait"
  /\ SetTicker(i, "check")
  /\ UNCHANGED <<saved, config, isRunning, current, every, closed, stopping,
                 crash, locals, saves, reloads>>

CheckEnds(i) ==
  /\ Alive /\ ticker[i] = "check"
  /\ SetTicker(i, "wait")
  /\ UNCHANGED <<saved, config, isRunning, current, every, closed, stopping,
                 crash, locals, saves, reloads>>

\* Mistake: the goroutine listens to the field instead of its own channel.
TickerStopsByField(i) ==
  /\ Alive /\ ticker[i] = "wait" /\ current \in closed
  /\ SetTicker(i, "stopped")
  /\ UNCHANGED <<saved, config, isRunning, current, every, closed, stopping,
                 crash, locals, saves, reloads>>

\* The goroutine's own stop channel is closed.
TickerStops(i) ==
  /\ Alive /\ ticker[i] = "wait" /\ i \in closed
  /\ SetTicker(i, "stopped")
  /\ UNCHANGED <<saved, config, isRunning, current, every, closed, stopping,
                 crash, locals, saves, reloads>>

\* The service stops: isRunning is reset; ticker becomes nil, the channels not.
TickerQuits(i) ==
  /\ Alive /\ ticker[i] = "wait" /\ stopping = "yes"
  /\ SetTicker(i, "stopped")
  /\ isRunning' = "no"
  /\ UNCHANGED <<saved, config, current, every, closed, stopping, crash, locals,
                 saves, reloads>>

\* Stop, once: stopChan is closed and the goroutines are waited for.  main does
\* not call it.
Stop ==
  /\ Alive /\ stopping = "no" /\ pc[Main] = "idle"
  /\ stopping' = "yes"
  /\ UNCHANGED <<saved, config, isRunning, current, ticker, every, closed, crash,
                 locals, saves, reloads>>

-----------------------------------------------------------------------------
Call(c) ==
  \/ LoadEnabled(c) \/ LoadInterval(c) \/ Decide(c)
  \/ StartTicker(c) \/ CreateTicker(c)
  \/ BeginStop(c) \/ CloseStop(c) \/ AwaitStopped(c) \/ ClearTicker(c)

TickerNext ==
  \/ Save \/ Stop
  \/ \E c \in Callers : BeginReload(c) \/ Call(c)
  \/ \E i \in Tickers :
       TickerFires(i) \/ CheckEnds(i) \/ TickerStops(i) \/ TickerQuits(i)

TickerSpec == TickerInit /\ [][TickerNext]_tickerVars

\* Callers and checks make progress, and a select with a closed channel and a
\* ticker takes the closed channel at some time.
FairTickerSpec ==
  /\ TickerSpec
  /\ \A c \in Callers : WF_tickerVars(Call(c))
  /\ \A i \in Tickers :
       /\ WF_tickerVars(CheckEnds(i))
       /\ SF_tickerVars(TickerStops(i)) /\ SF_tickerVars(TickerQuits(i))

-----------------------------------------------------------------------------
(* Properties.                                                              *)

Live == {i \in Tickers : ticker[i] \in {"wait", "check"}}

\* A running ticker is stopped completely before a new one is made, as long as
\* calls do not overlap (host_monitor_service.go 168-256).
OneTicker == overlap = "no" => Alive /\ \A i, j \in Live : i = j

\* Then, when nobody is reloading, the ticker runs exactly if the configuration
\* says so, at its interval, however the settings changed while they were being
\* loaded (host_monitor_service.go 113-145).
TickerFollowsConfig ==
  /\ \A c \in Callers : pc[c] = "idle"
  /\ overlap = "no" /\ stopping = "no"
  =>
    IF config.enabled = "on"
    THEN current \in Tickers /\ Live = {current} /\ every[current] = config.interval
    ELSE Live = {}

\* No stop signal is given twice, by however many callers
\* (host_monitor_service.go 226-245).
NoDoubleClose == crash # "twice"

\* Whoever waits for the end of a ticker waits for one that was started and has
\* been told to stop, and waits for it alone, however many calls overlap
\* (host_monitor_service.go 236-247).
WaitsForStopped ==
  Alive => \A c \in Callers : pc[c] = "wait" =>
    /\ mine[c] \in closed /\ ticker[mine[c]] # "none"
    /\ \A d \in Callers : pc[d] = "wait" /\ mine[d] = mine[c] => d = c

\* The monitor's tickers are sound: one at a time, as the configuration says,
\* stopped once, and waited for only when told to stop, whatever reloads, saves
\* and stops come in between.
TickersSound ==
  /\ TickerTypeOK
  /\ OneTicker /\ TickerFollowsConfig /\ NoDoubleClose /\ WaitsForStopped

\* host_monitor_service.go 31 says of tickerMu that it protects the ticker from
\* concurrent access: a ticker that runs can still be stopped, because it is
\* the current one or somebody is already stopping it.
TickerKept ==
  \A i \in Live :
    \/ i = current
    \/ \E c \in Callers : mine[c] = i /\ pc[c] \in {"close", "wait"}

\* Every call returns, whatever the others do, unless the process has died.
ReloadsReturn == \A c \in Callers : pc[c] # "idle" ~> (pc[c] = "idle" \/ ~Alive)
=============================================================================
