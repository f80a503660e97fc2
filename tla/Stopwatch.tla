------------------------------ MODULE Stopwatch ------------------------------
(***************************************************************************)
(* The stopwatch library src/Temporizacion/tiempo.c: one watch per program, *)
(* kept in static variables, that measures on the clock reloj.conf names.   *)
(* getAccumulated returns accumulated and changes nothing.                  *)
(*                                                                         *)
(* asked, ran, again, begunOn and mixed only observe: they follow what the  *)
(* caller has asked for, and guard no call.                                 *)
(***************************************************************************)
EXTENDS Integers

CONSTANTS
    Clocks,           \* what the two characters of reloj.conf select
    NoFile,           \* reloj.conf cannot be opened
    MaxTime           \* bound: how far a clock advances

ASSUME WatchAssumption == NoFile \notin Clocks /\ MaxTime \in Nat

VARIABLES
    started, paused, accumulated,
    tIni,             \* t_ini
    clock,            \* globopt and clockopt
    conf,             \* content of reloj.conf
    now,              \* what each clock shows
    exited,           \* the library has ended the program
    asked,            \* idle, running, paused, stopped, or beyond: asked to go on after a stop
    ran,              \* time for which the caller let the watch run, by the clock of the interval
    again,            \* the watch was started anew after its first run
    begunOn,          \* clock of the current or the last interval
    mixed             \* an interval was closed on another clock than it was begun on

watchCode == <<started, paused, accumulated, tIni, clock, exited>>
watchGhosts == <<asked, ran, again, begunOn, mixed>>
watchVars == <<watchCode, conf, now, watchGhosts>>

\* The static variables; before the first confTiempo any clock may stand for globopt = 0.
WatchInit ==
    /\ started = FALSE /\ paused = FALSE /\ accumulated = 0 /\ tIni = 0
    /\ clock \in Clocks /\ conf \in Clocks \cup {NoFile}
    /\ now = [c \in Clocks |-> 0]
    /\ exited = FALSE
    /\ asked = "idle" /\ ran = 0 /\ again = FALSE /\ begunOn = clock /\ mixed = FALSE

-----------------------------------------------------------------------------
(* Observation *)

\* An interval is opened, on clock c.
Opens(c) == begunOn' = c /\ UNCHANGED mixed

\* The interval that is open is closed on the clock that counts now.
Closes == mixed' = (mixed \/ clock # begunOn) /\ UNCHANGED begunOn

\* The watch is asked to go from one of the states in from to the state to.
Asks(from, to) == asked' = IF asked \in from THEN to ELSE asked

-----------------------------------------------------------------------------
(* The calls *)

\* confTiempo could not open reloj.conf.
ConfigurationMissing ==
    /\ ~exited /\ conf = NoFile
    /\ exited' = TRUE
    /\ UNCHANGED <<started, paused, accumulated, tIni, clock, conf, now, watchGhosts>>

\* confTiempo runs whether the watch is started or not; paused is not touched.
start ==
    /\ ~exited /\ conf # NoFile
    /\ clock' = conf
    /\ IF started
       THEN /\ UNCHANGED <<started, accumulated, tIni, ran, again, begunOn, mixed>>
            /\ Asks({"stopped"}, "beyond")
       ELSE /\ started' = TRUE
            /\ accumulated' = 0
            /\ tIni' = now[conf]
            /\ ran' = 0
            /\ Opens(conf)
            /\ asked' = "running"
            /\ again' = (again \/ asked # "idle")
    /\ UNCHANGED <<paused, conf, now, exited>>

Measuring == started /\ ~paused

\* Wrong: the measure is replaced, not added to.
CloseIntervalOnly ==
    /\ paused' = TRUE
    /\ accumulated' = now[clock] - tIni
    /\ Closes

\* What stop and pause do to the measure.
CloseInterval ==
    /\ paused' = TRUE
    /\ accumulated' = accumulated + now[clock] - tIni
    /\ Closes

stop ==
    /\ ~exited /\ Measuring
    /\ started' = FALSE
    /\ CloseInterval
    /\ Asks({"running", "paused"}, "stopped")
    /\ UNCHANGED <<tIni, clock, conf, now, exited, ran, again>>

\* stop of a watch that is not started, or that is paused, is ignored.
StopIgnored ==
    /\ ~exited /\ ~Measuring
    /\ Asks({"running", "paused"}, "stopped")
    /\ UNCHANGED <<watchCode, conf, now, ran, again, begunOn, mixed>>

pause ==
    /\ ~exited /\ Measuring
    /\ CloseInterval
    /\ Asks({"running"}, "paused")
    /\ UNCHANGED <<started, tIni, clock, conf, now, exited, ran, again>>

\* pause of a watch that is not started, or that is paused, is ignored, too.
PauseIgnored ==
    /\ ~exited /\ ~Measuring
    /\ Asks({"running"}, "paused")
    /\ UNCHANGED <<watchCode, conf, now, ran, again, begunOn, mixed>>

\* Wrong: the measure so far is counted into the new beginning.
ResumedAtEarlier == now[clock] - accumulated

\* The new t_ini.
ResumedAt == now[clock]

resume ==
    /\ ~exited /\ started /\ paused
    /\ paused' = FALSE
    /\ tIni' = ResumedAt
    /\ Opens(clock)
    /\ asked' = IF asked = "paused" THEN "running"
                ELSE IF asked = "stopped" THEN "beyond" ELSE asked
    /\ UNCHANGED <<started, accumulated, clock, conf, now, exited, ran, again>>

-----------------------------------------------------------------------------
(* The environment *)

\* A clock advances; the clocks do not advance together.
Tick(c) ==
    /\ now[c] < MaxTime
    /\ now' = [now EXCEPT ![c] = @ + 1]
    /\ ran' = IF asked = "running" /\ c = begunOn THEN ran + 1 ELSE ran
    /\ UNCHANGED <<watchCode, conf, asked, again, begunOn, mixed>>

\* The user edits or removes reloj.conf; bound: no more once an interval is mixed, as each
\* could add the difference of two clocks again.
EditConf ==
    /\ ~mixed
    /\ conf' \in (Clocks \cup {NoFile}) \ {conf}
    /\ UNCHANGED <<watchCode, now, watchGhosts>>

WatchNext ==
    \/ ConfigurationMissing \/ start \/ stop \/ StopIgnored \/ pause \/ PauseIgnored \/ resume
    \/ EditConf
    \/ \E c \in Clocks : Tick(c)

WatchSpec == WatchInit /\ [][WatchNext]_watchVars

-----------------------------------------------------------------------------
(* Properties *)

\* Every variable has the values of its C type, within the bound on time; the sum of
\* intervals each measured on one clock is never negative.
WatchTypeOK ==
    /\ started \in BOOLEAN /\ paused \in BOOLEAN /\ exited \in BOOLEAN
    /\ mixed \in BOOLEAN /\ again \in BOOLEAN
    /\ accumulated \in Int /\ ran \in Nat /\ tIni \in 0..MaxTime
    /\ ~mixed => accumulated >= 0
    /\ clock \in Clocks /\ begunOn \in Clocks /\ conf \in Clocks \cup {NoFile}
    /\ now \in [Clocks -> 0..MaxTime]
    /\ asked \in {"idle", "running", "paused", "stopped", "beyond"}

Reading == accumulated + IF Measuring THEN now[clock] - tIni ELSE 0

\* From the first start until the caller asks the watch to go on after a stop, whatever
\* the order of start, stop, pause and resume, the watch shows exactly the time for which
\* it was let run -- unless start was called on a running watch after reloj.conf had
\* changed (it reads the new clock at once), and the interval is closed on another clock.
\* Of a later run nothing is said: stop leaves paused set, and start does not clear it.
MeasuresFirstRun ==
    asked # "beyond" /\ ~again /\ ~mixed /\ (Measuring => clock = begunOn) => Reading = ran

=============================================================================
