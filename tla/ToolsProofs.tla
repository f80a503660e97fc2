----------------------------- MODULE ToolsProofs -----------------------------
(***************************************************************************)
(* The three small programs: what the stopwatch measures, whatever clocks   *)
(* there are; one opener of the LED driver at a time, what it reads, and    *)
(* when the module goes, for any set of processes; what the archiver gives  *)
(* back, for any files.                                                     *)
(***************************************************************************)
EXTENDS Stopwatch, LedDriver, MyTar, FiniteSetTheorems, SequenceTheorems,
        WellFoundedInduction, TLAPS

-----------------------------------------------------------------------------
(* The stopwatch *)


\* What the caller has asked for, the two flags of the code and the measure belong together
\* in the first run, until the caller asks the watch to go on after a stop.
Follows ==
    ~again =>
      /\ asked = "idle" => ~started /\ ~paused /\ accumulated = 0 /\ ran = 0
      /\ asked = "running" => started /\ ~paused
      /\ asked = "paused" => started /\ paused
      /\ asked = "stopped" => paused

\* While the watch runs, the open interval counts by the clock it was begun on; while it
\* does not, the sum is complete, unless an interval was mixed.
Counts ==
    asked # "beyond" /\ ~again /\ ~mixed =>
        ran = accumulated + IF Measuring THEN now[begunOn] - tIni ELSE 0

\* The last interval did not begin in the future of its clock.
BegunInPast == tIni <= now[begunOn]

WatchInv == WatchTypeOK /\ Follows /\ Counts /\ BegunInPast

\* The invariant gives the property of the watch.
LEMMA InvMeasures == WatchInv => MeasuresFirstRun
BY DEF WatchInv, WatchTypeOK, Counts, MeasuresFirstRun, Reading, Measuring

\* The invariant holds before the first call.
LEMMA WatchInitInv == WatchInit => WatchInv
<1> SUFFICES ASSUME WatchInit PROVE WatchInv
  OBVIOUS
<1>1. WatchTypeOK
  <2>1. now \in [Clocks -> 0..MaxTime] /\ tIni \in 0..MaxTime
    BY WatchAssumption DEF WatchInit
  <2>2. /\ started \in BOOLEAN /\ paused \in BOOLEAN /\ exited \in BOOLEAN
        /\ mixed \in BOOLEAN /\ again \in BOOLEAN
    BY Zenon DEF WatchInit
  <2>3. accumulated \in Int /\ ran \in Nat /\ accumulated >= 0
    BY DEF WatchInit
  <2>4. /\ clock \in Clocks /\ begunOn \in Clocks /\ conf \in Clocks \cup {NoFile}
        /\ asked = "idle"
    BY DEF WatchInit
  <2> QED BY <2>1, <2>2, <2>3, <2>4 DEF WatchTypeOK
<1>2. Follows
  BY DEF WatchInit, Follows
<1>3. Counts
  BY DEF WatchInit, Counts, Measuring
<1>4. BegunInPast
  BY DEF WatchInit, BegunInPast
<1> QED BY <1>1, <1>2, <1>3, <1>4 DEF WatchInv

\* stop and pause close the interval that is open.
LEMMA ClosingCounts ==
  ASSUME WatchInv, Measuring, CloseInterval, started' \in BOOLEAN,
         UNCHANGED <<tIni, clock, conf, now, exited, ran, again>>,
         asked' \in {asked, "paused", "stopped"},
         asked' # "beyond" => asked # "beyond"
  PROVE  /\ Counts' /\ accumulated' \in Int /\ mixed' \in BOOLEAN /\ begunOn' = begunOn
         /\ ~mixed' => accumulated' >= 0
<1> USE DEF WatchInv, WatchTypeOK, CloseInterval, Closes
<1>1. accumulated' \in Int
  OBVIOUS
<1>2. mixed' \in BOOLEAN /\ begunOn' = begunOn
  BY Zenon
<1>3. ASSUME asked' # "beyond", ~again', ~mixed' PROVE ran = accumulated'
  <2>1. ~mixed /\ clock = begunOn
    BY <1>3
  <2> QED BY <1>3, <2>1 DEF Counts
<1>4. ~Measuring'
  BY DEF Measuring
<1>5. ASSUME ~mixed' PROVE accumulated' >= 0
  <2>1. accumulated >= 0 /\ clock = begunOn
    BY <1>5
  <2>2. now[begunOn] - tIni >= 0
    BY DEF BegunInPast
  <2> QED BY <2>1, <2>2
<1>6. Counts'
  BY <1>1, <1>2, <1>3, <1>4 DEF Counts
<1> QED BY <1>1, <1>2, <1>5, <1>6

\* No call, no step of a clock and no edit of reloj.conf breaks it.
LEMMA WatchStep == WatchInv /\ [WatchNext]_watchVars => WatchInv'
<1> SUFFICES ASSUME WatchInv, [WatchNext]_watchVars PROVE WatchInv'
  OBVIOUS
<1> USE WatchAssumption DEF WatchInv, WatchTypeOK, Follows
<1>0. clock \in Clocks /\ now \in [Clocks -> 0..MaxTime] /\ begunOn \in Clocks
  OBVIOUS
<1>1. CASE ConfigurationMissing
  BY <1>1 DEF ConfigurationMissing, watchGhosts, Counts, Measuring, BegunInPast
<1>2. CASE start
  <2>1. CASE started
    BY <1>2, <2>1 DEF start, Asks, Counts, Measuring, BegunInPast
  <2>2. CASE ~started
    BY <1>2, <2>2 DEF start, Opens, Counts, Measuring, BegunInPast
  <2> QED BY <2>1, <2>2
<1>3. CASE stop
  <2>1. /\ Counts' /\ accumulated' \in Int /\ mixed' \in BOOLEAN /\ begunOn' = begunOn
        /\ ~mixed' => accumulated' >= 0
    BY <1>3, ClosingCounts DEF stop, Asks
  <2>2. Follows'
    BY <1>3 DEF stop, Asks, CloseInterval, Measuring
  <2>3. BegunInPast'
    BY <1>3, <2>1 DEF stop, BegunInPast
  <2> QED BY <1>3, <2>1, <2>2, <2>3 DEF stop, Asks, CloseInterval
<1>4. CASE StopIgnored
  BY <1>4 DEF StopIgnored, Asks, watchCode, Counts, Measuring, BegunInPast
<1>5. CASE pause
  <2>1. /\ Counts' /\ accumulated' \in Int /\ mixed' \in BOOLEAN /\ begunOn' = begunOn
        /\ ~mixed' => accumulated' >= 0
    BY <1>5, ClosingCounts DEF pause, Asks
  <2>2. Follows'
    BY <1>5 DEF pause, Asks, CloseInterval, Measuring
  <2>3. BegunInPast'
    BY <1>5, <2>1 DEF pause, BegunInPast
  <2> QED BY <1>5, <2>1, <2>2, <2>3 DEF pause, Asks, CloseInterval
<1>6. CASE PauseIgnored
  BY <1>6 DEF PauseIgnored, Asks, watchCode, Counts, Measuring, BegunInPast
<1>7. CASE resume
  <2>1. now[clock] \in 0..MaxTime
    OBVIOUS
  <2>2. WatchTypeOK'
    BY <1>7, <2>1 DEF resume, ResumedAt, Opens
  <2>3. Follows'
    BY <1>7 DEF resume
  <2>4. Counts'
    BY <1>7, <2>1 DEF resume, ResumedAt, Opens, Counts, Measuring
  <2>5. BegunInPast'
    BY <1>7, <2>1 DEF resume, ResumedAt, Opens, BegunInPast
  <2> QED BY <2>2, <2>3, <2>4, <2>5
<1>8. CASE EditConf
  BY <1>8 DEF EditConf, watchCode, watchGhosts, Counts, Measuring, BegunInPast
<1>9. ASSUME NEW c \in Clocks, Tick(c) PROVE WatchInv'
  <2>1. now[c] + 1 \in 0..MaxTime /\ now'[begunOn] >= now[begunOn]
    BY <1>0, <1>9 DEF Tick
  <2>2. BegunInPast'
    BY <1>0, <1>9, <2>1 DEF Tick, watchCode, BegunInPast
  <2> QED BY <1>9, <2>1, <2>2 DEF Tick, watchCode, Counts, Measuring
<1>10. CASE UNCHANGED watchVars
  BY <1>10 DEF watchVars, watchCode, watchGhosts, Counts, Measuring, BegunInPast
<1> QED BY <1>1, <1>2, <1>3, <1>4, <1>5, <1>6, <1>7, <1>8, <1>9, <1>10 DEF WatchNext

\* Whatever the clocks do and the order of the calls, the watch shows the time for which it
\* was let run in its first run.
THEOREM WatchMeasures == WatchSpec => []MeasuresFirstRun
<1>1. WatchSpec => []WatchInv
  BY WatchInitInv, WatchStep, PTL DEF WatchSpec
<1> QED BY <1>1, InvMeasures, PTL

\* Every variable keeps its type, and the sum of the intervals is never negative as long as
\* each was measured on one clock, in the first run and in any later one.
THEOREM WatchTyped == WatchSpec => []WatchTypeOK
<1>1. WatchInv => WatchTypeOK
  BY DEF WatchInv
<1> QED BY <1>1, WatchInitInv, WatchStep, PTL DEF WatchSpec

-----------------------------------------------------------------------------
(* The LED driver: types *)

\* The variables keep their types because a process that has read counter or msg_Ptr, and
\* not written it back yet, has no negative number of Device_Open there.
LedTyped ==
    /\ LedTypeOK
    /\ \A p \in Procs : at[p] \in {"countUp", "print", "advanced"} => loaded[p] \in Nat

LEMMA LedTypeInit == LedInit => LedTyped
<1> SUFFICES ASSUME LedInit PROVE LedTyped
  OBVIOUS
<1>1. raced \in BOOLEAN
  BY Zenon DEF LedInit
<1>2. /\ module = "live" /\ refs = 0 /\ Device_Open = 0 /\ counter = 0 /\ msg = 0 /\ msg_Ptr = 0
      /\ leds = Leds /\ at = [p \in Procs |-> "out"]
      /\ loaded = [p \in Procs |-> 0] /\ taking = [p \in Procs |-> 0]
      /\ exposed = {} /\ own = [p \in Procs |-> 0] /\ got = [p \in Procs |-> <<>>]
  BY DEF LedInit
<1>3. 0 \in 0..MaxRead
  BY LedAssumption
<1> QED BY <1>1, <1>2, <1>3 DEF LedTypeOK, LedTyped, Places

\* What a read hands to the user: n bytes from the pointer on.
Chunk(m, ptr, n) == [i \in 1..n |-> <<m, ptr + i>>]

\* It is a pair for each byte.
LEMMA ReadChunk ==
  ASSUME NEW m \in Nat, NEW ptr \in Nat, NEW n \in Nat
  PROVE  /\ Chunk(m, ptr, n) \in Seq(Nat \X Nat) /\ Len(Chunk(m, ptr, n)) = n
         /\ \A i \in 1..n : Chunk(m, ptr, n)[i] = <<m, ptr + i>>
<1>1. \A i \in 1..n : <<m, ptr + i>> \in Nat \X Nat
  OBVIOUS
<1>2. [i \in 1..n |-> <<m, ptr + i>>] \in [1..n -> Nat \X Nat]
  BY <1>1
<1> QED BY <1>2 DEF Chunk

\* strlen is within the bounds.
LEMMA StrlenBounded == LedTypeOK => Strlens \subseteq 0..MaxRead
BY LedAssumption DEF LedTypeOK, Strlens

LEMMA LedTypeStep == LedTyped /\ [LedNext]_ledsVars => LedTyped'
<1> SUFFICES ASSUME LedTyped, [LedNext]_ledsVars PROVE LedTyped'
  OBVIOUS
<1> USE LedAssumption
    DEF LedTyped, LedTypeOK, Moves, Loads, Places, Opening, InRead, Holding, Releasing,
        ledsShared, deviceVars, ledsGhosts
<1>1. CASE Unload
  BY <1>1 DEF Unload
<1>2. CASE cleanup_module
  BY <1>2 DEF cleanup_module
<1>3. CASE init_module
  <2>1. raced' \in BOOLEAN
    BY <1>3, Zenon DEF init_module
  <2> QED BY <1>3, <2>1 DEF init_module
<1>4. ASSUME NEW p \in Procs, Open(p) PROVE LedTyped'
  <2>1. <<>> \in Seq(Nat \X Nat)
    BY EmptySeq
  <2> QED BY <1>4, <2>1 DEF Open
<1>5. ASSUME NEW p \in Procs, OpenBusy(p) \/ Release(p) \/ Return(p) \/ PutModule(p)
      PROVE  LedTyped'
  <2>1. CASE OpenBusy(p) \/ Release(p)
    BY <2>1 DEF OpenBusy, Release
  <2>2. CASE Return(p)
    BY <2>2 DEF Return
  <2>3. CASE PutModule(p)
    BY <2>3 DEF PutModule
  <2> QED BY <1>5, <2>1, <2>2, <2>3
<1>6. ASSUME NEW p \in Procs, OpenPasses(p) PROVE LedTyped'
  <2>1. raced' \in BOOLEAN
    BY <1>6, Zenon DEF OpenPasses
  <2>2. got' \in [Procs -> Seq(Nat \X Nat)]
    <3>1. <<>> \in Seq(Nat \X Nat)
      BY EmptySeq
    <3> QED BY <1>6, <3>1 DEF OpenPasses
  <2> QED BY <1>6, <2>1, <2>2 DEF OpenPasses
<1>7. ASSUME NEW p \in Procs, Load(p, "load", "store") \/ Load(p, "decLoad", "decStore")
      PROVE  LedTyped'
  BY <1>7 DEF Load
<1>8. ASSUME NEW p \in Procs,
             \/ Store(p, "store", "count", loaded[p] + 1)
             \/ Store(p, "decStore", "put", loaded[p] - 1)
      PROVE  LedTyped'
  <2>1. PICK to \in {"count", "put"}, value \in Int :
            /\ at' = [at EXCEPT ![p] = to]
            /\ Device_Open' = value /\ loaded' = [loaded EXCEPT ![p] = 0]
            /\ UNCHANGED <<module, refs, counter, msg, msg_Ptr, leds, taking, raced, exposed, own, got>>
    <3>1. loaded[p] + 1 \in Int /\ loaded[p] - 1 \in Int
      OBVIOUS
    <3>2. CASE Store(p, "store", "count", loaded[p] + 1)
      BY <3>1, <3>2 DEF Store
    <3>3. CASE Store(p, "decStore", "put", loaded[p] - 1)
      BY <3>1, <3>3 DEF Store
    <3> QED BY <1>8, <3>2, <3>3
  <2> QED BY <2>1
<1>9. ASSUME NEW p \in Procs, LoadCounter(p) \/ StoreCounter(p) \/ PrintMessage(p) PROVE LedTyped'
  <2>1. CASE LoadCounter(p)
    BY <2>1 DEF LoadCounter
  <2>2. CASE StoreCounter(p)
    BY <2>2 DEF StoreCounter
  <2>3. CASE PrintMessage(p)
    BY <2>3 DEF PrintMessage
  <2> QED BY <1>9, <2>1, <2>2, <2>3
<1>10. ASSUME NEW p \in Procs, SetPointer(p) \/ GetModule(p) PROVE LedTyped'
  <2>1. CASE SetPointer(p)
    BY <2>1 DEF SetPointer, MessageStart
  <2>2. CASE GetModule(p)
    BY <2>2 DEF GetModule, RefsAfterGet
  <2> QED BY <1>10, <2>1, <2>2
<1>11. ASSUME NEW p \in Procs, NEW length \in 1..MaxRead, ReadBegins(p, length) PROVE LedTyped'
  <2>1. length \in 0..MaxRead
    OBVIOUS
  <2> QED BY <1>11, <2>1 DEF ReadBegins
<1>12. ASSUME NEW p \in Procs, ReadCompares(p) PROVE LedTyped'
  <2>1. PICK to \in {"limit", "copy"} : at' = [at EXCEPT ![p] = to]
    BY <1>12 DEF ReadCompares
  <2>2. UNCHANGED <<module, refs, Device_Open, counter, msg, msg_Ptr, leds, loaded, taking,
                    raced, exposed, own, got>>
    BY <1>12 DEF ReadCompares
  <2> QED BY <2>1, <2>2
<1>13. ASSUME NEW p \in Procs, ReadLimits(p) PROVE LedTyped'
  <2>1. PICK n \in 0..MaxRead : taking' = [taking EXCEPT ![p] = n]
    BY <1>13, StrlenBounded DEF ReadLimits
  <2> QED BY <1>13, <2>1 DEF ReadLimits
<1>14. ASSUME NEW p \in Procs, ReadCopies(p) PROVE LedTyped'
  <2> DEFINE chunk == Chunk(msg, msg_Ptr, taking[p])
  <2>1. taking[p] \in Nat /\ msg \in Nat /\ msg_Ptr \in Nat
    OBVIOUS
  <2>2. chunk \in Seq(Nat \X Nat)
    BY <2>1, ReadChunk
  <2>3. /\ at' = [at EXCEPT ![p] = "advance"]
        /\ got' = IF raced THEN got ELSE [got EXCEPT ![p] = @ \o chunk]
        /\ UNCHANGED <<module, refs, Device_Open, counter, msg, msg_Ptr, leds, loaded, taking, raced,
                       exposed, own>>
    BY <1>14 DEF ReadCopies, Chunk
  <2> HIDE DEF chunk
  <2>4. got[p] \o chunk \in Seq(Nat \X Nat)
    BY <2>2, ConcatProperties
  <2> QED BY <2>3, <2>4
<1>15. ASSUME NEW p \in Procs, ReadFails(p) PROVE LedTyped'
  <2>1. 0 \in 0..MaxRead
    OBVIOUS
  <2> QED BY <1>15, <2>1 DEF ReadFails
<1>16. ASSUME NEW p \in Procs, LoadPointer(p) \/ StorePointer(p) PROVE LedTyped'
  <2>1. CASE LoadPointer(p)
    BY <2>1 DEF LoadPointer
  <2>2. CASE StorePointer(p)
    <3>1. loaded[p] + taking[p] \in Nat /\ 0 \in 0..MaxRead
      BY <2>2 DEF StorePointer
    <3> QED BY <2>2, <3>1 DEF StorePointer
  <2> QED BY <1>16, <2>1, <2>2
<1>17. ASSUME NEW p \in Procs, NEW status \in SUBSET Leds, Write(p, status) PROVE LedTyped'
  BY <1>17 DEF Write
<1>18. CASE UNCHANGED ledsVars
  BY <1>18 DEF ledsVars
<1> QED
  BY <1>1, <1>2, <1>3, <1>4, <1>5, <1>6, <1>7, <1>8, <1>9, <1>10, <1>11, <1>12, <1>13, <1>14,
     <1>15, <1>16, <1>17, <1>18
  DEF LedNext

\* Every variable of the driver keeps its type, however processes race: counter and msg_Ptr
\* are never overwritten with what was read of Device_Open, which may be negative then.
THEOREM LedTypesHold == LedSpec => []LedTypeOK
<1>1. LedTyped => LedTypeOK
  BY DEF LedTyped
<1> QED BY <1>1, LedTypeInit, LedTypeStep, PTL DEF LedSpec

-----------------------------------------------------------------------------
(* The LED driver: mutual exclusion *)

\* What a process is about to write back is what Device_Open still is.
LoadedValid ==
    ~raced => \A p \in Procs : at[p] \in {"store", "decStore"} => loaded[p] = Device_Open

LedInv == LedTyped /\ OneOpener /\ LoadedValid

CountedPlaces == {"count", "countUp", "print", "point", "get", "decLoad", "decStore"} \cup Holding
AdmittedPlaces == CountedPlaces \cup {"load", "store"}

\* Membership in the two sets of OneOpener by place.
LEMMA Membership ==
  /\ \A p : p \in Counted <=> p \in Procs /\ at[p] \in CountedPlaces
  /\ \A p : p \in Admitted <=> p \in Procs /\ at[p] \in AdmittedPlaces
BY DEF Counted, Admitted, CountedPlaces, AdmittedPlaces, Opening

\* The same after a step.
LEMMA MembershipNext ==
  /\ \A p : p \in Counted' <=> p \in Procs /\ at'[p] \in CountedPlaces
  /\ \A p : p \in Admitted' <=> p \in Procs /\ at'[p] \in AdmittedPlaces
BY DEF Counted, Admitted, CountedPlaces, AdmittedPlaces, Opening

\* A step inside the driver that neither reads nor writes Device_Open, and lets nobody in or
\* out.
LEMMA QuietStep ==
  ASSUME LedInv, LedTyped', NEW p \in Procs, NEW from \in Places, NEW to \in Places,
         at[p] = from, at' = [at EXCEPT ![p] = to],
         from \in CountedPlaces <=> to \in CountedPlaces,
         from \in AdmittedPlaces <=> to \in AdmittedPlaces,
         to \notin {"store", "decStore"},
         \A q \in Procs \ {p} : loaded'[q] = loaded[q],
         UNCHANGED <<Device_Open, raced>>
  PROVE  LedInv'
<1>1. \A q \in Procs : at'[q] = IF q = p THEN to ELSE at[q]
  BY DEF LedInv, LedTyped, LedTypeOK
<1>2. Counted' = Counted
  BY <1>1, Membership, MembershipNext
<1>3. Admitted' = Admitted
  BY <1>1, Membership, MembershipNext
<1>4. OneOpener'
  BY <1>2, <1>3 DEF LedInv, OneOpener
<1>5. LoadedValid'
  BY <1>1 DEF LedInv, LoadedValid
<1> QED BY <1>4, <1>5 DEF LedInv

\* A step that changes nothing of all that.
LEMMA StillStep ==
  ASSUME LedInv, LedTyped', UNCHANGED <<at, Device_Open, loaded, raced>>
  PROVE  LedInv'
BY DEF LedInv, OneOpener, LoadedValid, Counted, Admitted

\* A process passes the test: nobody is counted, and unless it races nobody is admitted.
LEMMA PassStep ==
  ASSUME LedInv, LedTyped', NEW p \in Procs, OpenPasses(p)
  PROVE  LedInv'
<1> USE DEF LedInv, LedTyped, LedTypeOK
<1>1. /\ at[p] = "test" /\ at' = [at EXCEPT ![p] = "load"]
      /\ Device_Open = 0 /\ UNCHANGED <<Device_Open, loaded>>
  BY DEF OpenPasses, Moves, IsFree, ledsShared
<1>2. raced' = (raced \/ \E q \in Procs : at[q] \in {"load", "store"})
  BY DEF OpenPasses
<1>3. CASE raced'
  BY <1>3 DEF OneOpener, LoadedValid
<1>4. CASE ~raced'
  <2>1. ~raced /\ \A q \in Procs : at[q] \notin {"load", "store"}
    BY <1>2, <1>4
  <2>2. Counted = {}
    BY <1>1, <2>1 DEF OneOpener
  <2>3. Admitted = {}
    BY <2>1, <2>2, Membership DEF AdmittedPlaces
  <2>4. \A q \in Procs : at'[q] = IF q = p THEN "load" ELSE at[q]
    BY <1>1
  <2>5. Counted' = {}
    BY <2>2, <2>4, Membership, MembershipNext DEF CountedPlaces, Holding, InRead
  <2>6. \A q \in Admitted' : q = p
    BY <2>3, <2>4, Membership, MembershipNext
  <2>7. OneOpener'
    BY <1>1, <2>5, <2>6 DEF OneOpener
  <2>8. LoadedValid'
    BY <1>1, <2>1, <2>4 DEF LoadedValid
  <2> QED BY <2>7, <2>8
<1> QED BY <1>3, <1>4

\* Device_Open is read, to be written back.
LEMMA LoadStep ==
  ASSUME LedInv, LedTyped', NEW p \in Procs, NEW from, NEW to, Load(p, from, to),
         <<from, to>> \in {<<"load", "store">>, <<"decLoad", "decStore">>}
  PROVE  LedInv'
<1> USE DEF LedInv, LedTyped, LedTypeOK
<1>1. /\ at[p] = from /\ at' = [at EXCEPT ![p] = to]
      /\ loaded' = [loaded EXCEPT ![p] = Device_Open]
      /\ UNCHANGED <<Device_Open, raced>>
  BY DEF Load, Moves, Loads, ledsShared, ledsGhosts
<1>2. \A q \in Procs : at'[q] = IF q = p THEN to ELSE at[q]
  BY <1>1
<1>3. Counted' = Counted /\ Admitted' = Admitted
  BY <1>1, <1>2, Membership, MembershipNext DEF CountedPlaces, AdmittedPlaces, Holding, InRead
<1>4. OneOpener'
  BY <1>1, <1>3 DEF OneOpener
<1>5. LoadedValid'
  BY <1>1, <1>2 DEF LoadedValid
<1> QED BY <1>4, <1>5

\* Device_Open is written back: incremented by the process that has been let in, decremented
\* by the one that leaves.
LEMMA StoreStep ==
  ASSUME LedInv, LedTyped', NEW p \in Procs, NEW from, NEW to, NEW value,
         Store(p, from, to, value),
         \/ from = "store" /\ to = "count" /\ value = loaded[p] + 1
         \/ from = "decStore" /\ to = "put" /\ value = loaded[p] - 1
  PROVE  LedInv'
<1> USE DEF LedInv, LedTyped, LedTypeOK
<1>1. /\ at[p] = from /\ at' = [at EXCEPT ![p] = to]
      /\ Device_Open' = value /\ loaded' = [loaded EXCEPT ![p] = 0]
      /\ UNCHANGED raced
  BY DEF Store, Moves, Loads, ledsGhosts
<1>2. \A q \in Procs : at'[q] = IF q = p THEN to ELSE at[q]
  BY <1>1
<1>3. CASE raced
  BY <1>1, <1>3 DEF OneOpener, LoadedValid
<1>4. CASE ~raced
  <2>1. p \in Admitted
    BY <1>1, Membership DEF CountedPlaces, AdmittedPlaces
  <2>2. \A q \in Admitted : q = p
    BY <1>4, <2>1 DEF OneOpener
  <2>3. loaded[p] = Device_Open
    BY <1>1, <1>4 DEF LoadedValid
  <2>4. \A q \in Admitted' : q = p
    BY <1>2, <2>2, Membership, MembershipNext
  <2>5. LoadedValid'
    <3>1. \A q \in Procs \ {p} : at[q] \notin {"store", "decStore"}
      BY <2>2, Membership DEF CountedPlaces, AdmittedPlaces
    <3> QED BY <1>1, <1>2, <3>1 DEF LoadedValid
  <2>6. CASE from = "store"
    <3>1. Counted = {}
      BY <1>1, <2>2, <2>6, Membership DEF CountedPlaces, AdmittedPlaces, Holding, InRead
    <3>2. Device_Open' = 1
      BY <1>1, <1>4, <2>3, <2>6, <3>1 DEF OneOpener
    <3>3. p \in Counted'
      BY <1>2, <2>6, MembershipNext DEF CountedPlaces
    <3> QED BY <2>4, <2>5, <3>2, <3>3 DEF OneOpener
  <2>7. CASE from = "decStore"
    <3>1. p \in Counted
      BY <1>1, <2>7, Membership DEF CountedPlaces
    <3>2. Device_Open' = 0
      BY <1>1, <1>4, <2>3, <2>7, <3>1 DEF OneOpener
    <3>3. Counted' = {}
      BY <1>2, <2>2, <2>7, Membership, MembershipNext
      DEF CountedPlaces, AdmittedPlaces, Holding, InRead
    <3> QED BY <2>4, <2>5, <3>2, <3>3 DEF OneOpener
  <2> QED BY <2>6, <2>7
<1> QED BY <1>3, <1>4

\* The module's variables are set anew with every process outside.
LEMMA ReloadStep == ASSUME LedInv, LedTyped', init_module PROVE LedInv'
<1>1. /\ \A p \in Procs : at[p] = "out"
      /\ UNCHANGED <<at, loaded>> /\ Device_Open' = 0 /\ raced' = FALSE
  BY DEF init_module
<1>2. Counted' = {} /\ Admitted' = {}
  BY <1>1, MembershipNext DEF CountedPlaces, AdmittedPlaces, Holding, InRead
<1> QED BY <1>1, <1>2 DEF LedInv, OneOpener, LoadedValid

\* The steps of a process that leave Device_Open alone.
Elsewhere(p) ==
    \/ Open(p) \/ OpenBusy(p) \/ LoadCounter(p) \/ StoreCounter(p) \/ PrintMessage(p)
    \/ SetPointer(p) \/ GetModule(p) \/ Release(p) \/ PutModule(p) \/ Return(p)
    \/ (\E length \in 1..MaxRead : ReadBegins(p, length))
    \/ ReadCompares(p) \/ ReadLimits(p) \/ ReadCopies(p) \/ ReadFails(p)
    \/ LoadPointer(p) \/ StorePointer(p)

\* The place that such a step leaves, and the one it goes to.
Leads(from, to) ==
    \/ <<from, to>> \in
         { <<"out", "test">>, <<"test", "leave">>, <<"count", "countUp">>, <<"countUp", "print">>,
           <<"print", "point">>, <<"point", "get">>, <<"get", "open">>, <<"open", "decLoad">>,
           <<"put", "leave">>, <<"leave", "out">> }
    \/ from \in Holding /\ to \in Holding

LEMMA ElsewhereLeads ==
  ASSUME NEW p \in Procs, Elsewhere(p)
  PROVE  \E to : Leads(at[p], to) /\ at' = [at EXCEPT ![p] = to]
<1>0. ASSUME NEW from, NEW to, Leads(from, to), Moves(p, from, to)
      PROVE  \E place : Leads(at[p], place) /\ at' = [at EXCEPT ![p] = place]
  BY <1>0, Zenon DEF Moves
<1>1. CASE Open(p) \/ OpenBusy(p) \/ Release(p) \/ PutModule(p) \/ Return(p)
  <2>1. /\ Leads("out", "test") /\ Leads("test", "leave") /\ Leads("open", "decLoad")
        /\ Leads("put", "leave") /\ Leads("leave", "out")
    BY DEF Leads
  <2> QED BY <1>0, <1>1, <2>1, Zenon DEF Open, OpenBusy, Release, PutModule, Return
<1>2. CASE LoadCounter(p) \/ StoreCounter(p) \/ PrintMessage(p) \/ SetPointer(p) \/ GetModule(p)
  <2>1. /\ Leads("count", "countUp") /\ Leads("countUp", "print") /\ Leads("print", "point")
        /\ Leads("point", "get") /\ Leads("get", "open")
    BY DEF Leads
  <2> QED
    BY <1>0, <1>2, <2>1, Zenon DEF LoadCounter, StoreCounter, PrintMessage, SetPointer, GetModule
<1>3. \A from, to \in Holding : Leads(from, to)
  BY DEF Leads
<1>4. {"open", "compare", "limit", "copy", "advance", "advanced"} = Holding
  BY DEF Holding, InRead
<1>5. CASE (\E length \in 1..MaxRead : ReadBegins(p, length)) \/ ReadCompares(p)
  <2>1. \E from, to \in Holding : Moves(p, from, to)
    <3>1. CASE \E length \in 1..MaxRead : ReadBegins(p, length)
      BY <1>4, <3>1 DEF ReadBegins
    <3>2. CASE ReadCompares(p)
      <4>1. PICK to \in {"limit", "copy"} : Moves(p, "compare", to)
        BY <3>2 DEF ReadCompares
      <4> QED BY <1>4, <4>1
    <3> QED BY <1>5, <3>1, <3>2
  <2> QED BY <1>0, <1>3, <2>1
<1>6. CASE ReadLimits(p) \/ ReadCopies(p) \/ ReadFails(p) \/ LoadPointer(p) \/ StorePointer(p)
  <2>1. \E from, to \in Holding : Moves(p, from, to)
    BY <1>4, <1>6 DEF ReadLimits, ReadCopies, ReadFails, LoadPointer, StorePointer
  <2> QED BY <1>0, <1>3, <2>1
<1> QED BY <1>1, <1>2, <1>5, <1>6 DEF Elsewhere

LEMMA ElsewhereStep ==
  ASSUME LedInv, LedTyped', NEW p \in Procs, Elsewhere(p)
  PROVE  LedInv'
<1>1. PICK to : Leads(at[p], to) /\ at' = [at EXCEPT ![p] = to]
  BY ElsewhereLeads
<1>2. /\ at[p] \in Places /\ to \in Places
      /\ at[p] \in CountedPlaces <=> to \in CountedPlaces
      /\ at[p] \in AdmittedPlaces <=> to \in AdmittedPlaces
      /\ to \notin {"store", "decStore"}
  BY <1>1 DEF Leads, Places, Opening, InRead, Holding, Releasing, CountedPlaces, AdmittedPlaces
<1>3. UNCHANGED <<Device_Open, raced>>
  BY DEF Elsewhere, Open, OpenBusy, LoadCounter, StoreCounter, PrintMessage, SetPointer, GetModule,
         Release, PutModule, Return, ReadBegins, ReadCompares, ReadLimits, ReadCopies, ReadFails,
         LoadPointer, StorePointer, ledsShared, ledsGhosts
<1>4. \E value : loaded' = [loaded EXCEPT ![p] = value]
  <2>1. loaded = [loaded EXCEPT ![p] = loaded[p]]
    BY DEF LedInv, LedTyped, LedTypeOK
  <2> QED
    BY <2>1 DEF Elsewhere, Open, OpenBusy, LoadCounter, StoreCounter, PrintMessage, SetPointer,
         GetModule, Release, PutModule, Return, ReadBegins, ReadCompares, ReadLimits, ReadCopies,
         ReadFails, LoadPointer, StorePointer, Loads
<1>5. \A q \in Procs \ {p} : loaded'[q] = loaded[q]
  BY <1>4 DEF LedInv, LedTyped, LedTypeOK
<1> QED BY <1>1, <1>2, <1>3, <1>5, QuietStep

\* No step of a process, of the driver or of the kernel breaks the invariant.
LEMMA LedStep == LedInv /\ [LedNext]_ledsVars => LedInv'
<1> SUFFICES ASSUME LedInv, [LedNext]_ledsVars PROVE LedInv'
  OBVIOUS
<1>0. LedTyped'
  BY LedTypeStep DEF LedInv
<1>1. CASE Unload
  BY <1>0, <1>1, StillStep DEF Unload
<1>2. CASE cleanup_module
  BY <1>0, <1>2, StillStep DEF cleanup_module, ledsGhosts
<1>3. CASE init_module
  BY <1>0, <1>3, ReloadStep
<1>4. ASSUME NEW p \in Procs, Elsewhere(p) PROVE LedInv'
  BY <1>0, <1>4, ElsewhereStep
<1>5. ASSUME NEW p \in Procs, OpenPasses(p) PROVE LedInv'
  BY <1>0, <1>5, PassStep
<1>6. ASSUME NEW p \in Procs, Load(p, "load", "store") \/ Load(p, "decLoad", "decStore")
      PROVE  LedInv'
  BY <1>0, <1>6, LoadStep
<1>7. ASSUME NEW p \in Procs,
             \/ Store(p, "store", "count", loaded[p] + 1)
             \/ Store(p, "decStore", "put", loaded[p] - 1)
      PROVE  LedInv'
  BY <1>0, <1>7, StoreStep
<1>8. ASSUME NEW p \in Procs, NEW status \in SUBSET Leds, Write(p, status) PROVE LedInv'
  <2>1. at' = at
    BY <1>8 DEF Write, Moves, LedInv, LedTyped, LedTypeOK
  <2> QED BY <1>0, <1>8, <2>1, StillStep DEF Write, ledsGhosts
<1>9. CASE UNCHANGED ledsVars
  BY <1>0, <1>9, StillStep DEF ledsVars, ledsShared, ledsGhosts
<1> QED BY <1>1, <1>2, <1>3, <1>4, <1>5, <1>6, <1>7, <1>8, <1>9 DEF LedNext, Elsewhere

\* The invariant holds when the module has been loaded.
LEMMA LedInvInit == LedInit => LedInv
<1> SUFFICES ASSUME LedInit PROVE LedInv
  OBVIOUS
<1>1. at = [p \in Procs |-> "out"] /\ loaded = [p \in Procs |-> 0] /\ Device_Open = 0
  BY DEF LedInit
<1>2. Counted = {} /\ Admitted = {}
  BY <1>1, Membership DEF CountedPlaces, AdmittedPlaces, Holding, InRead
<1> QED BY <1>1, <1>2, LedTypeInit DEF LedInv, OneOpener, LoadedValid

\* As long as no two processes have been between the test and the increment of Device_Open
\* at once, one at most has the device, and Device_Open says so.
THEOREM DriverExcludes == LedSpec => []OneOpener
<1>1. LedInv => OneOpener
  BY DEF LedInv
<1> QED BY <1>1, LedInvInit, LedStep, PTL DEF LedSpec

-----------------------------------------------------------------------------
(* The LED driver: the message *)

\* What p is about to do and what it has read so far.  Whoever is in device_open has read
\* nothing; and if nobody raced, the one that has written its message reads exactly that, up
\* to the pointer or to where the pointer is about to be moved.
FollowFor(p) ==
    /\ at[p] \in Opening => got[p] = <<>>
    /\ ~raced =>
         /\ at[p] \in {"point", "get"} \cup Holding => own[p] = msg
         /\ at[p] \in {"get"} \cup Holding =>
              /\ msg_Ptr = Len(got[p]) - Uncounted(p) /\ Len(got[p]) <= MsgLen
              /\ \A i \in 1..Len(got[p]) : got[p][i] = <<own[p], i>>
         /\ at[p] = "copy" => msg_Ptr + taking[p] <= MsgLen
         /\ at[p] = "advanced" => loaded[p] = msg_Ptr

Following == \A p \in Procs : FollowFor(p)

MessageInv == LedInv /\ Following

\* The message belongs to the one that has the device open.
LEMMA Alone ==
  ASSUME LedInv, ~raced, NEW p \in Procs, NEW q \in Procs,
         at[p] \in AdmittedPlaces, at[q] \in AdmittedPlaces
  PROVE  p = q
BY Membership DEF LedInv, OneOpener

\* A step of p that leaves alone what others have read, and the message too unless p has
\* been let in.
LEMMA FollowByOne ==
  ASSUME MessageInv, NEW p \in Procs, NEW to, at' = [at EXCEPT ![p] = to], raced' = raced,
         \A q \in Procs \ {p} : /\ own'[q] = own[q] /\ got'[q] = got[q]
                                /\ taking'[q] = taking[q] /\ loaded'[q] = loaded[q],
         UNCHANGED <<msg, msg_Ptr>> \/ at[p] \in AdmittedPlaces,
         FollowFor(p)'
  PROVE  Following'
<1> SUFFICES ASSUME NEW q \in Procs, q # p PROVE FollowFor(q)'
  BY DEF Following
<1>1. /\ at'[q] = at[q] /\ own'[q] = own[q] /\ got'[q] = got[q]
      /\ taking'[q] = taking[q] /\ loaded'[q] = loaded[q]
  BY DEF MessageInv, LedInv, LedTyped, LedTypeOK
<1>2. FollowFor(q)
  BY DEF MessageInv, Following
<1>3. CASE UNCHANGED <<msg, msg_Ptr>>
  BY <1>1, <1>2, <1>3 DEF FollowFor, Uncounted
<1>4. CASE at[p] \in AdmittedPlaces
  <2>1. ~raced => at[q] \notin AdmittedPlaces
    BY <1>4, Alone DEF MessageInv
  <2>2. ~raced => at[q] \notin {"point", "get"} \cup Holding
    BY <2>1 DEF AdmittedPlaces, CountedPlaces
  <2> QED BY <1>1, <1>2, <2>2 DEF FollowFor, Holding, InRead
<1> QED BY <1>3, <1>4

\* A step of p that comes before or after all that it has to do with the message.
LEMMA ApartStep ==
  ASSUME MessageInv, NEW p \in Procs, NEW to \in Places \ ({"point", "get"} \cup Holding),
         at' = [at EXCEPT ![p] = to], to \in Opening => at[p] \in Opening,
         \A q \in Procs \ {p} : loaded'[q] = loaded[q],
         UNCHANGED <<msg, msg_Ptr, taking, own, got, raced>>
  PROVE  Following'
<1>1. at'[p] = to
  BY DEF MessageInv, LedInv, LedTyped, LedTypeOK
<1>2. FollowFor(p)'
  BY <1>1 DEF MessageInv, Following, FollowFor, Holding, InRead
<1> QED BY <1>2, FollowByOne

\* A step of a read that copies nothing and moves no pointer.
LEMMA ReadStep ==
  ASSUME MessageInv, NEW p \in Procs, NEW from, NEW to, Moves(p, from, to),
         <<from, to>> \in {"open", "compare", "limit", "copy"} \X {"open", "compare", "limit", "copy"},
         ~raced /\ to = "copy" => msg_Ptr + taking'[p] <= MsgLen,
         \A q \in Procs \ {p} : taking'[q] = taking[q],
         UNCHANGED <<msg, msg_Ptr, loaded, own, got, raced>>
  PROVE  Following'
<1>1. at' = [at EXCEPT ![p] = to] /\ at'[p] = to /\ at[p] = from
  BY DEF Moves, MessageInv, LedInv, LedTyped, LedTypeOK
<1>2. FollowFor(p)
  BY DEF MessageInv, Following
<1>3. FollowFor(p)'
  BY <1>1, <1>2 DEF FollowFor, Holding, InRead, Opening, Uncounted
<1> QED BY <1>1, <1>3, FollowByOne

\* copy_to_user: what has been read goes on where it had come to.
LEMMA CopyStep ==
  ASSUME MessageInv, NEW p \in Procs, ReadCopies(p)
  PROVE  Following'
<1> DEFINE n == taking[p]
           chunk == Chunk(msg, msg_Ptr, n)
           S == Nat \X Nat
<1>0. LedTypeOK /\ FollowFor(p)
  BY DEF MessageInv, LedInv, LedTyped, Following
<1>1. /\ at[p] = "copy" /\ at' = [at EXCEPT ![p] = "advance"]
      /\ got' = IF raced THEN got ELSE [got EXCEPT ![p] = @ \o chunk]
      /\ UNCHANGED <<msg, msg_Ptr, taking, loaded, own, raced>>
  BY DEF ReadCopies, Moves, Chunk, ledsShared, deviceVars
<1>2. at'[p] = "advance"
  BY <1>0, <1>1 DEF LedTypeOK
<1>3. n \in Nat /\ msg \in Nat /\ msg_Ptr \in Nat /\ got[p] \in Seq(S) /\ Len(got[p]) \in Nat
  BY <1>0, LedAssumption, LenProperties DEF LedTypeOK
<1>4. /\ chunk \in Seq(S) /\ Len(chunk) = n
      /\ \A i \in 1..n : chunk[i] = <<msg, msg_Ptr + i>>
  BY <1>3, ReadChunk
<1> HIDE DEF n, chunk, S
<1> DEFINE all == got[p] \o chunk
<1>5. /\ Len(all) = Len(got[p]) + n
      /\ \A i \in 1..(Len(got[p]) + n) :
           all[i] = IF i <= Len(got[p]) THEN got[p][i] ELSE chunk[i - Len(got[p])]
  BY <1>3, <1>4, ConcatProperties
<1> HIDE DEF all
<1>6. CASE raced
  BY <1>0, <1>1, <1>2, <1>6, FollowByOne DEF FollowFor, Opening
<1>7. CASE ~raced
  <2>1. got'[p] = all
    BY <1>0, <1>1, <1>7 DEF LedTypeOK, all
  <2>2. /\ own[p] = msg /\ msg_Ptr = Len(got[p]) /\ msg_Ptr + n <= MsgLen
        /\ \A i \in 1..Len(got[p]) : got[p][i] = <<own[p], i>>
    BY <1>0, <1>1, <1>3, <1>7 DEF FollowFor, Holding, InRead, Uncounted, n
  <2>3. ASSUME NEW i \in 1..Len(all) PROVE all[i] = <<own[p], i>>
    <3>1. CASE i <= Len(got[p])
      <4>1. i \in 1..(Len(got[p]) + n) /\ i \in 1..Len(got[p])
        BY <1>3, <1>5, <3>1
      <4> QED BY <1>5, <2>2, <3>1, <4>1
    <3>2. CASE ~(i <= Len(got[p]))
      <4>1. i - Len(got[p]) \in 1..n /\ msg_Ptr + (i - Len(got[p])) = i
        BY <1>3, <1>5, <2>2, <3>2
      <4> QED BY <1>3, <1>4, <1>5, <2>2, <3>2, <4>1
    <3> QED BY <3>1, <3>2
  <2>4. msg_Ptr = Len(all) - n /\ Len(all) <= MsgLen
    BY <1>3, <1>5, <2>2
  <2>5. FollowFor(p)'
    BY <1>1, <1>2, <2>1, <2>2, <2>3, <2>4 DEF FollowFor, Opening, Uncounted, n
  <2>6. \A q \in Procs \ {p} : got'[q] = got[q]
    BY <1>0, <1>1, <1>7 DEF LedTypeOK
  <2> QED BY <1>1, <2>5, <2>6, FollowByOne
<1> QED BY <1>6, <1>7

\* The message is written, the pointer set to its beginning or moved over what was read.
LEMMA PointerStep ==
  ASSUME MessageInv, NEW p \in Procs,
         \/ PrintMessage(p) \/ SetPointer(p) \/ GetModule(p) \/ LoadPointer(p) \/ StorePointer(p)
  PROVE  Following'
<1>0. LedTypeOK /\ FollowFor(p)
  BY DEF MessageInv, LedInv, LedTyped, Following
<1> USE DEF Moves, Loads, ledsShared, ledsGhosts, deviceVars, Opening, Holding, InRead
<1>1. CASE PrintMessage(p)
  <2>1. /\ at[p] = "print" /\ at' = [at EXCEPT ![p] = "point"] /\ msg' = loaded[p]
        /\ own' = [own EXCEPT ![p] = loaded[p]] /\ loaded' = [loaded EXCEPT ![p] = 0]
        /\ UNCHANGED <<taking, raced, got>>
    BY <1>1 DEF PrintMessage
  <2>2. at'[p] = "point" /\ own'[p] = loaded[p] /\ got[p] = <<>>
    BY <1>0, <2>1 DEF LedTypeOK, FollowFor
  <2>3. FollowFor(p)'
    BY <2>1, <2>2 DEF FollowFor
  <2>4. \A q \in Procs \ {p} : own'[q] = own[q] /\ loaded'[q] = loaded[q]
    BY <1>0, <2>1 DEF LedTypeOK
  <2>5. at[p] \in AdmittedPlaces
    BY <2>1 DEF AdmittedPlaces, CountedPlaces
  <2> QED BY <2>1, <2>3, <2>4, <2>5, FollowByOne
<1>2. CASE SetPointer(p)
  <2>1. /\ at[p] = "point" /\ at' = [at EXCEPT ![p] = "get"] /\ msg_Ptr' = 0
        /\ UNCHANGED <<msg, loaded, taking, raced, own, got>>
    BY <1>2 DEF SetPointer, MessageStart
  <2>2. at'[p] = "get" /\ got[p] = <<>> /\ Len(<<>>) = 0
    BY <1>0, <2>1 DEF LedTypeOK, FollowFor
  <2>3. FollowFor(p)'
    BY <1>0, <2>1, <2>2, LedAssumption DEF FollowFor, Uncounted
  <2>4. at[p] \in AdmittedPlaces
    BY <2>1 DEF AdmittedPlaces, CountedPlaces
  <2> QED BY <2>1, <2>3, <2>4, FollowByOne
<1>3. CASE GetModule(p)
  <2>1. /\ at[p] = "get" /\ at' = [at EXCEPT ![p] = "open"]
        /\ UNCHANGED <<msg, msg_Ptr, loaded, taking, raced, own, got>>
    BY <1>3 DEF GetModule
  <2>2. at'[p] = "open"
    BY <1>0, <2>1 DEF LedTypeOK
  <2>3. FollowFor(p)'
    BY <1>0, <2>1, <2>2 DEF FollowFor, Uncounted
  <2> QED BY <2>1, <2>3, FollowByOne
<1>4. CASE LoadPointer(p)
  <2>1. /\ at[p] = "advance" /\ at' = [at EXCEPT ![p] = "advanced"]
        /\ loaded' = [loaded EXCEPT ![p] = msg_Ptr]
        /\ UNCHANGED <<msg, msg_Ptr, taking, raced, own, got>>
    BY <1>4 DEF LoadPointer
  <2>2. at'[p] = "advanced" /\ loaded'[p] = msg_Ptr
    BY <1>0, <2>1 DEF LedTypeOK
  <2>3. FollowFor(p)'
    BY <1>0, <2>1, <2>2 DEF FollowFor, Uncounted
  <2>4. \A q \in Procs \ {p} : loaded'[q] = loaded[q]
    BY <1>0, <2>1 DEF LedTypeOK
  <2> QED BY <2>1, <2>3, <2>4, FollowByOne
<1>5. CASE StorePointer(p)
  <2>1. /\ at[p] = "advanced" /\ at' = [at EXCEPT ![p] = "open"]
        /\ msg_Ptr' = loaded[p] + taking[p]
        /\ loaded' = [loaded EXCEPT ![p] = 0] /\ taking' = [taking EXCEPT ![p] = 0]
        /\ UNCHANGED <<msg, raced, own, got>>
    BY <1>5 DEF StorePointer
  <2>2. at'[p] = "open"
    BY <1>0, <2>1 DEF LedTypeOK
  <2>3. msg_Ptr \in Nat /\ taking[p] \in Nat /\ Len(got[p]) \in Nat
    BY <1>0, LedAssumption, LenProperties DEF LedTypeOK
  <2>4. ~raced => msg_Ptr' = Len(got[p])
    BY <1>0, <2>1, <2>3 DEF FollowFor, Uncounted
  <2>5. FollowFor(p)'
    BY <1>0, <2>1, <2>2, <2>3, <2>4 DEF FollowFor, Uncounted
  <2>6. \A q \in Procs \ {p} : taking'[q] = taking[q] /\ loaded'[q] = loaded[q]
    BY <1>0, <2>1 DEF LedTypeOK
  <2>7. at[p] \in AdmittedPlaces
    BY <2>1 DEF AdmittedPlaces, CountedPlaces
  <2> QED BY <2>1, <2>5, <2>6, <2>7, FollowByOne
<1> QED BY <1>1, <1>2, <1>3, <1>4, <1>5

\* What the message is never read beyond, as long as nobody raced.
LEMMA StrlenLeft ==
  ASSUME MessageInv, ~raced, NEW p \in Procs, at[p] \in {"open", "compare", "limit"}
  PROVE  Strlens = {MsgLen - msg_Ptr}
<1>1. msg_Ptr = Len(got[p]) /\ Len(got[p]) <= MsgLen
  <2>1. FollowFor(p) /\ Len(got[p]) \in Nat
    BY LenProperties DEF MessageInv, LedInv, LedTyped, LedTypeOK, Following
  <2> QED BY <2>1 DEF FollowFor, Holding, InRead, Uncounted
<1> QED BY <1>1 DEF Strlens

LEMMA FollowingStep ==
  ASSUME MessageInv, [LedNext]_ledsVars
  PROVE  Following'
<1>0. LedTypeOK /\ Following
  BY DEF MessageInv, LedInv, LedTyped
<1> USE DEF Loads, ledsShared, ledsGhosts, deviceVars
<1>1. CASE UNCHANGED <<at, msg, msg_Ptr, loaded, taking, own, got, raced>>
  BY <1>0, <1>1 DEF Following, FollowFor, Uncounted
<1>2. Unload \/ cleanup_module \/ (\E p \in Procs, status \in SUBSET Leds : Write(p, status))
        \/ UNCHANGED ledsVars
      => UNCHANGED <<at, msg, msg_Ptr, loaded, taking, own, got, raced>>
  BY <1>0 DEF Unload, cleanup_module, Write, Moves, ledsVars, LedTypeOK
<1>3. CASE init_module
  <2>1. \A p \in Procs : at'[p] = "out"
    BY <1>3 DEF init_module
  <2> QED BY <2>1 DEF Following, FollowFor, Opening, Holding, InRead
<1>4. ASSUME NEW p \in Procs, Open(p) PROVE Following'
  <2>1. /\ at' = [at EXCEPT ![p] = "test"] /\ got' = [got EXCEPT ![p] = <<>>]
        /\ UNCHANGED <<msg, msg_Ptr, loaded, taking, own, raced>>
    BY <1>4 DEF Open, Moves
  <2>2. at'[p] = "test" /\ \A q \in Procs : got'[q] = IF q = p THEN <<>> ELSE got[q]
    BY <1>0, <2>1 DEF LedTypeOK
  <2>3. FollowFor(p)'
    BY <2>2 DEF FollowFor, Opening, Holding, InRead
  <2> QED BY <2>1, <2>2, <2>3, FollowByOne
<1>5. ASSUME NEW p \in Procs,
             \/ OpenBusy(p) \/ LoadCounter(p) \/ StoreCounter(p)
             \/ Release(p) \/ PutModule(p) \/ Return(p)
             \/ Load(p, "load", "store") \/ Load(p, "decLoad", "decStore")
             \/ Store(p, "store", "count", loaded[p] + 1)
             \/ Store(p, "decStore", "put", loaded[p] - 1)
      PROVE  Following'
  <2>1. PICK to \in Places \ ({"point", "get"} \cup Holding) :
            at' = [at EXCEPT ![p] = to] /\ (to \in Opening => at[p] \in Opening)
    <3> USE DEF Moves, Places, Opening, Holding, InRead, Releasing
    <3>1. CASE OpenBusy(p) \/ LoadCounter(p) \/ StoreCounter(p)
      BY <3>1 DEF OpenBusy, LoadCounter, StoreCounter
    <3>2. CASE Release(p) \/ PutModule(p) \/ Return(p)
      BY <3>2 DEF Release, PutModule, Return
    <3>3. CASE Load(p, "load", "store") \/ Load(p, "decLoad", "decStore")
      BY <3>3 DEF Load
    <3>4. CASE Store(p, "store", "count", loaded[p] + 1) \/ Store(p, "decStore", "put", loaded[p] - 1)
      BY <3>4 DEF Store
    <3> QED BY <1>5, <3>1, <3>2, <3>3, <3>4
  <2>2. UNCHANGED <<msg, msg_Ptr, taking, own, got, raced>>
    BY <1>5 DEF OpenBusy, LoadCounter, StoreCounter, Release, PutModule, Return, Load, Store
  <2>3. loaded' = loaded \/ \E value : loaded' = [loaded EXCEPT ![p] = value]
    BY <1>5 DEF OpenBusy, LoadCounter, StoreCounter, Release, PutModule, Return, Load, Store
  <2>4. \A q \in Procs \ {p} : loaded'[q] = loaded[q]
    BY <1>0, <2>3 DEF LedTypeOK
  <2> QED BY <2>1, <2>2, <2>4, ApartStep
<1>6. ASSUME NEW p \in Procs, OpenPasses(p) PROVE Following'
  <2>1. /\ at[p] = "test" /\ at' = [at EXCEPT ![p] = "load"]
        /\ got' = IF raced' THEN [q \in Procs |-> <<>>] ELSE got
        /\ UNCHANGED <<msg, msg_Ptr, loaded, taking, own>>
    BY <1>6 DEF OpenPasses, Moves
  <2>2. raced => raced'
    BY <1>6, Zenon DEF OpenPasses
  <2>3. CASE raced'
    <3>1. \A q \in Procs : got'[q] = <<>>
      BY <2>1, <2>3
    <3> QED BY <2>3, <3>1 DEF Following, FollowFor
  <2>4. CASE ~raced'
    <3>1. ~raced
      BY <2>2, <2>4, Zenon
    <3>2. \A q \in Procs : at'[q] = IF q = p THEN "load" ELSE at[q]
      BY <1>0, <2>1 DEF LedTypeOK
    <3>3. ASSUME NEW q \in Procs PROVE FollowFor(q)'
      BY <1>0, <2>1, <2>4, <3>1, <3>2 DEF Following, FollowFor, Uncounted, Opening, Holding, InRead
    <3> QED BY <3>3 DEF Following
  <2> QED BY <2>3, <2>4
<1>7. ASSUME NEW p \in Procs, NEW length \in 1..MaxRead, ReadBegins(p, length) PROVE Following'
  <2>1. \A q \in Procs \ {p} : taking'[q] = taking[q]
    BY <1>0, <1>7 DEF ReadBegins, LedTypeOK
  <2> QED BY <1>7, <2>1, ReadStep DEF ReadBegins
<1>8. ASSUME NEW p \in Procs, ReadCompares(p) PROVE Following'
  <2>1. PICK n \in Strlens : Moves(p, "compare", IF taking[p] > n THEN "limit" ELSE "copy")
    BY <1>8 DEF ReadCompares
  <2>2. taking' = taking /\ UNCHANGED <<msg, msg_Ptr, loaded, own, got, raced>>
    BY <1>8 DEF ReadCompares
  <2>3. ~raced /\ ~(taking[p] > n) => msg_Ptr + taking[p] <= MsgLen
    <3>1. at[p] = "compare"
      BY <2>1 DEF Moves
    <3>2. taking[p] \in Nat /\ msg_Ptr \in Nat
      BY <1>0, LedAssumption DEF LedTypeOK
    <3> QED BY <3>1, <3>2, StrlenLeft, LedAssumption
  <2>4. CASE taking[p] > n
    BY <2>1, <2>2, <2>4, ReadStep
  <2>5. CASE ~(taking[p] > n)
    BY <2>1, <2>2, <2>3, <2>5, ReadStep
  <2> QED BY <2>4, <2>5
<1>9. ASSUME NEW p \in Procs, ReadLimits(p) PROVE Following'
  <2>1. PICK n \in Strlens : taking' = [taking EXCEPT ![p] = n]
    BY <1>9 DEF ReadLimits
  <2>2. \A q \in Procs : taking'[q] = IF q = p THEN n ELSE taking[q]
    BY <1>0, <2>1 DEF LedTypeOK
  <2>3. ~raced => msg_Ptr + taking'[p] <= MsgLen
    <3>1. at[p] = "limit" /\ msg_Ptr \in Nat
      BY <1>0, <1>9 DEF ReadLimits, Moves, LedTypeOK
    <3> QED BY <2>2, <3>1, StrlenLeft, LedAssumption
  <2> QED BY <1>9, <2>2, <2>3, ReadStep DEF ReadLimits
<1>10. ASSUME NEW p \in Procs, ReadFails(p) PROVE Following'
  <2>1. \A q \in Procs \ {p} : taking'[q] = taking[q]
    BY <1>0, <1>10 DEF ReadFails, LedTypeOK
  <2> QED BY <1>10, <2>1, ReadStep DEF ReadFails
<1>11. ASSUME NEW p \in Procs, ReadCopies(p) PROVE Following'
  BY <1>11, CopyStep
<1>12. ASSUME NEW p \in Procs,
              \/ PrintMessage(p) \/ SetPointer(p) \/ GetModule(p)
              \/ LoadPointer(p) \/ StorePointer(p)
       PROVE  Following'
  BY <1>12, PointerStep
<1> QED
  BY <1>1, <1>2, <1>3, <1>4, <1>5, <1>6, <1>7, <1>8, <1>9, <1>10, <1>11, <1>12 DEF LedNext

\* If nobody raced, the one that has the device open reads its own message from the start,
\* byte after byte, and nothing behind its end.
THEOREM ReaderGetsItsMessage == LedSpec => []MessageInOrder
<1>1. LedInit => MessageInv
  <2> SUFFICES ASSUME LedInit PROVE MessageInv
    OBVIOUS
  <2>1. at = [p \in Procs |-> "out"]
    BY DEF LedInit
  <2>2. Following
    BY <2>1 DEF Following, FollowFor, Opening, Holding, InRead
  <2> QED BY <2>2, LedInvInit DEF MessageInv
<1>2. MessageInv /\ [LedNext]_ledsVars => MessageInv'
  BY FollowingStep, LedStep DEF MessageInv
<1>3. MessageInv => MessageInOrder
  <2> SUFFICES ASSUME MessageInv, ~raced, NEW p \in Procs, at[p] \in Holding
               PROVE  /\ got[p] = [i \in 1..Len(got[p]) |-> <<own[p], i>>] /\ Len(got[p]) <= MsgLen
                      /\ msg_Ptr = Len(got[p]) - Uncounted(p)
    BY DEF MessageInOrder
  <2>1. /\ msg_Ptr = Len(got[p]) - Uncounted(p) /\ Len(got[p]) <= MsgLen
        /\ \A i \in 1..Len(got[p]) : got[p][i] = <<own[p], i>>
    BY DEF MessageInv, Following, FollowFor
  <2>2. got[p] \in [1..Len(got[p]) -> Nat \X Nat]
    BY LenProperties DEF MessageInv, LedInv, LedTyped, LedTypeOK
  <2> QED BY <2>1, <2>2
<1> QED BY <1>1, <1>2, <1>3, PTL DEF LedSpec

-----------------------------------------------------------------------------
(* The LED driver: the reference count *)

\* The processes that hold a reference.
Users == {p \in Procs : at[p] \in Holding \cup Releasing}

\* While references are given, the count is that of the processes that hold one; once they
\* are not, whoever is in the driver was there without one when they ended, or has come since.
Pinned ==
    /\ module = "live" => IsFiniteSet(Users) /\ refs = Cardinality(Users)
    /\ module # "live" => \A p \in Procs : at[p] # "out" => p \in exposed

PinInv == LedTyped /\ Pinned

\* A step of a process that is in the driver, and that gives no reference and takes none.
LEMMA NoReferenceStep ==
  ASSUME PinInv, NEW p \in Procs, NEW to \in Places, at' = [at EXCEPT ![p] = to],
         at[p] \in Holding \cup Releasing <=> to \in Holding \cup Releasing,
         at[p] # "out", UNCHANGED <<module, refs, exposed>>
  PROVE  Pinned'
<1>1. \A q \in Procs : at'[q] = IF q = p THEN to ELSE at[q]
  BY DEF PinInv, LedTyped, LedTypeOK
<1>2. Users' = Users
  BY <1>1 DEF Users
<1>3. module # "live" => \A q \in Procs : at'[q] # "out" => q \in exposed'
  BY <1>1 DEF PinInv, Pinned
<1> QED BY <1>2, <1>3 DEF PinInv, Pinned

\* What steps give no reference and take none, in the driver.
WithoutReference(p) ==
    \/ OpenBusy(p) \/ OpenPasses(p)
    \/ Load(p, "load", "store") \/ Store(p, "store", "count", loaded[p] + 1)
    \/ LoadCounter(p) \/ StoreCounter(p) \/ PrintMessage(p) \/ SetPointer(p) \/ Release(p)
    \/ Load(p, "decLoad", "decStore") \/ Store(p, "decStore", "put", loaded[p] - 1)
    \/ (\E length \in 1..MaxRead : ReadBegins(p, length))
    \/ ReadCompares(p) \/ ReadLimits(p) \/ ReadCopies(p) \/ ReadFails(p)
    \/ LoadPointer(p) \/ StorePointer(p)

LEMMA WithoutReferenceStep ==
  ASSUME PinInv, NEW p \in Procs, WithoutReference(p)
  PROVE  Pinned'
<1> DEFINE Stays(to) == /\ to \in Places /\ at' = [at EXCEPT ![p] = to] /\ at[p] # "out"
                        /\ at[p] \in Holding \cup Releasing <=> to \in Holding \cup Releasing
<1>1. \E to : Stays(to)
  <2> USE DEF Moves, Places, Opening, Holding, InRead, Releasing
  <2>1. CASE OpenBusy(p) \/ OpenPasses(p)
    <3>1. Stays("leave") \/ Stays("load")
      BY <2>1 DEF OpenBusy, OpenPasses
    <3> QED BY <3>1
  <2>2. CASE Load(p, "load", "store") \/ Load(p, "decLoad", "decStore")
    <3>1. Stays("store") \/ Stays("decStore")
      BY <2>2 DEF Load
    <3> QED BY <3>1
  <2>3. CASE Store(p, "store", "count", loaded[p] + 1) \/ Store(p, "decStore", "put", loaded[p] - 1)
    <3>1. Stays("count") \/ Stays("put")
      BY <2>3 DEF Store
    <3> QED BY <3>1
  <2>4. CASE LoadCounter(p) \/ StoreCounter(p) \/ PrintMessage(p)
    <3>1. Stays("countUp") \/ Stays("print") \/ Stays("point")
      BY <2>4 DEF LoadCounter, StoreCounter, PrintMessage
    <3> QED BY <3>1
  <2>5. CASE SetPointer(p) \/ Release(p)
    <3>1. Stays("get") \/ Stays("decLoad")
      BY <2>5 DEF SetPointer, Release
    <3> QED BY <3>1
  <2>6. CASE (\E length \in 1..MaxRead : ReadBegins(p, length)) \/ ReadLimits(p)
    <3>1. Stays("compare") \/ Stays("copy")
      BY <2>6 DEF ReadBegins, ReadLimits
    <3> QED BY <3>1
  <2>7. CASE ReadCompares(p)
    <3>1. \E n \in Strlens : Moves(p, "compare", IF taking[p] > n THEN "limit" ELSE "copy")
      BY <2>7 DEF ReadCompares
    <3>2. Stays("limit") \/ Stays("copy")
      BY <3>1
    <3> QED BY <3>2
  <2>8. CASE ReadCopies(p) \/ ReadFails(p)
    <3>1. Stays("advance") \/ Stays("open")
      BY <2>8 DEF ReadCopies, ReadFails
    <3> QED BY <3>1
  <2>9. CASE LoadPointer(p) \/ StorePointer(p)
    <3>1. Stays("advanced") \/ Stays("open")
      BY <2>9 DEF LoadPointer, StorePointer
    <3> QED BY <3>1
  <2> QED
    BY <2>1, <2>2, <2>3, <2>4, <2>5, <2>6, <2>7, <2>8, <2>9 DEF WithoutReference
<1>2. UNCHANGED <<module, refs, exposed>>
  BY DEF WithoutReference, OpenBusy, OpenPasses, Load, Store, LoadCounter, StoreCounter,
         PrintMessage, SetPointer, Release, ReadBegins, ReadCompares, ReadLimits, ReadCopies,
         ReadFails, LoadPointer, StorePointer, ledsShared, ledsGhosts
<1> QED BY <1>1, <1>2, NoReferenceStep

LEMMA PinStep ==
  ASSUME PinInv, [LedNext]_ledsVars
  PROVE  Pinned'
<1> USE DEF Moves, ledsShared, ledsGhosts
<1>0. LedTypeOK /\ Pinned
  BY DEF PinInv, LedTyped
<1>1. CASE UNCHANGED <<at, module, refs, exposed>>
  <2>1. Users' = Users
    BY <1>1 DEF Users
  <2> QED BY <1>0, <1>1, <2>1 DEF Pinned
<1>2. CASE Unload
  <2>1. /\ module' = "going" /\ at' = at /\ module = "live" /\ refs = 0
        /\ exposed' = {p \in Procs : at[p] \in Opening \cup {"leave"}}
    BY <1>2 DEF Unload
  <2>2. Users = {}
    BY <1>0, <2>1, FS_EmptySet DEF Pinned
  <2>3. \A p \in Procs : at[p] # "out" => at[p] \in Opening \cup {"leave"}
    BY <1>0, <2>2 DEF Users, LedTypeOK, Places
  <2> QED BY <2>1, <2>3 DEF Pinned
<1>3. CASE cleanup_module
  BY <1>0, <1>3 DEF cleanup_module, Pinned
<1>4. CASE init_module
  <2>1. module' = "live" /\ refs' = 0 /\ at' = at /\ \A p \in Procs : at[p] = "out"
    BY <1>4 DEF init_module
  <2>2. Users' = {}
    BY <2>1 DEF Users, Holding, InRead, Releasing
  <2> QED BY <2>1, <2>2, FS_EmptySet DEF Pinned
<1>5. ASSUME NEW p \in Procs, WithoutReference(p) PROVE Pinned'
  BY <1>5, WithoutReferenceStep
<1>6. ASSUME NEW p \in Procs, Open(p) \/ Return(p) PROVE Pinned'
  <2>1. UNCHANGED <<module, refs>>
    BY <1>6 DEF Open, Return
  <2>2. PICK to \in {"test", "out"} : at' = [at EXCEPT ![p] = to] /\ at[p] \in {"out", "leave"}
    BY <1>6 DEF Open, Return
  <2>3. \A q \in Procs : at'[q] = IF q = p THEN to ELSE at[q]
    BY <1>0, <2>2 DEF LedTypeOK
  <2>4. Users' = Users
    BY <2>2, <2>3 DEF Users, Holding, InRead, Releasing
  <2>5. ASSUME module # "live", NEW q \in Procs, at'[q] # "out" PROVE q \in exposed'
    <3>1. CASE Open(p)
      <4>1. module = "going"
        BY <1>0, <2>5, <3>1 DEF Open, LedTypeOK
      <4> QED BY <1>0, <2>3, <2>5, <3>1, <4>1 DEF Open, Pinned
    <3>2. CASE Return(p)
      <4>1. at' = [at EXCEPT ![p] = "out"] /\ exposed' = exposed \ {p}
        BY <3>2 DEF Return
      <4>2. q # p
        BY <1>0, <2>5, <4>1 DEF LedTypeOK
      <4> QED BY <1>0, <2>3, <2>5, <4>1, <4>2 DEF Pinned
    <3> QED BY <1>6, <3>1, <3>2
  <2> QED BY <1>0, <2>1, <2>4, <2>5 DEF Pinned
<1>7. ASSUME NEW p \in Procs, GetModule(p) PROVE Pinned'
  <2>1. /\ at[p] = "get" /\ at' = [at EXCEPT ![p] = "open"]
        /\ refs' = IF module = "live" THEN refs + 1 ELSE refs
        /\ UNCHANGED <<module, exposed>>
    BY <1>7 DEF GetModule, RefsAfterGet
  <2>2. \A q \in Procs : at'[q] = IF q = p THEN "open" ELSE at[q]
    BY <1>0, <2>1 DEF LedTypeOK
  <2>3. Users' = Users \cup {p} /\ p \notin Users
    BY <2>1, <2>2 DEF Users, Holding, InRead, Releasing
  <2>4. CASE module = "live"
    <3>1. IsFiniteSet(Users) /\ refs = Cardinality(Users)
      BY <1>0, <2>4 DEF Pinned
    <3>2. IsFiniteSet(Users \cup {p}) /\ Cardinality(Users \cup {p}) = Cardinality(Users) + 1
      BY <2>3, <3>1, FS_AddElement
    <3> QED BY <2>1, <2>3, <2>4, <3>1, <3>2 DEF Pinned
  <2>5. CASE module # "live"
    BY <1>0, <2>1, <2>2, <2>5 DEF Pinned
  <2> QED BY <2>4, <2>5
<1>8. ASSUME NEW p \in Procs, PutModule(p) PROVE Pinned'
  <2>1. /\ at[p] = "put" /\ at' = [at EXCEPT ![p] = "leave"] /\ refs' = refs - 1
        /\ UNCHANGED <<module, exposed>>
    BY <1>8 DEF PutModule
  <2>2. \A q \in Procs : at'[q] = IF q = p THEN "leave" ELSE at[q]
    BY <1>0, <2>1 DEF LedTypeOK
  <2>3. Users' = Users \ {p} /\ p \in Users
    BY <2>1, <2>2 DEF Users, Holding, InRead, Releasing
  <2>4. CASE module = "live"
    <3>1. IsFiniteSet(Users) /\ refs = Cardinality(Users)
      BY <1>0, <2>4 DEF Pinned
    <3>2. IsFiniteSet(Users \ {p}) /\ Cardinality(Users \ {p}) = Cardinality(Users) - 1
      BY <2>3, <3>1, FS_RemoveElement
    <3> QED BY <2>1, <2>3, <2>4, <3>1, <3>2 DEF Pinned
  <2>5. CASE module # "live"
    BY <1>0, <2>1, <2>2, <2>5 DEF Pinned
  <2> QED BY <2>4, <2>5
<1>9. (\E p \in Procs, status \in SUBSET Leds : Write(p, status)) \/ UNCHANGED ledsVars
      => UNCHANGED <<at, module, refs, exposed>>
  BY <1>0 DEF Write, ledsVars, LedTypeOK
<1> QED
  BY <1>1, <1>2, <1>3, <1>4, <1>5, <1>6, <1>7, <1>8, <1>9 DEF LedNext, WithoutReference

\* The kernel does not unload the module under a process that is in its code or has its
\* device open, raced or not, unless the process was there without a reference when that
\* began: before its try_module_get, being refused, or past its module_put.
THEOREM ModuleStaysForUsers == LedSpec => []UsersPinModule
<1>1. LedInit => PinInv
  <2> SUFFICES ASSUME LedInit PROVE PinInv
    OBVIOUS
  <2>1. module = "live" /\ refs = 0 /\ at = [p \in Procs |-> "out"]
    BY DEF LedInit
  <2>2. Users = {}
    BY <2>1 DEF Users, Holding, InRead, Releasing
  <2>3. Pinned
    BY <2>1, <2>2, FS_EmptySet DEF Pinned
  <2> QED BY <2>3, LedTypeInit DEF PinInv
<1>2. PinInv /\ [LedNext]_ledsVars => PinInv'
  BY PinStep, LedTypeStep DEF PinInv
<1>3. PinInv => UsersPinModule
  BY DEF PinInv, Pinned, UsersPinModule
<1> QED BY <1>1, <1>2, <1>3, PTL DEF LedSpec

-----------------------------------------------------------------------------
(* The archiver *)

\* What a position of a file can hold.
Held == Bytes \cup {HeaderByte, Hole}
NotEOF == (Bytes \ {EOF}) \cup {HeaderByte, Hole}
EntryRec == [name : Files, size : 0..MaxLen]

\* Among some positions of a file there is a first one.
LEMMA FirstPosition ==
  ASSUME NEW T \in SUBSET Nat, T # {}
  PROVE  \E m \in T : \A n \in T : m <= n
<1> DEFINE R == OpToRel(<, Nat)
<1>1. IsWellFoundedOn(R, Nat)
  BY NatLessThanWellFounded
<1>2. PICK m \in T : \A y \in T : ~ (<<y, m>> \in R)
  <2> HIDE DEF R
  <2> QED BY <1>1, WFMin
<1>3. \A n \in T : ~ (n < m)
  BY <1>2 DEF OpToRel
<1> QED BY <1>3

\* copynFile copies all there is up to nBytes, the end of origin or a byte that counts as
\* EOF, and stops where it says.
LEMMA CopiedProperties ==
  ASSUME NEW S, NEW origin \in Seq(S), NEW from \in Nat, NEW nBytes \in Nat
  PROVE  \E k \in 0..nBytes :
           /\ Copied(origin, from, nBytes) = SubSeq(origin, from + 1, from + k)
           /\ \A i \in 1..k : from + i <= Len(origin) /\ origin[from + i] # EOF
           /\ k < nBytes => from + k + 1 > Len(origin) \/ origin[from + k + 1] = EOF
<1> DEFINE good(i) == from + i <= Len(origin) /\ origin[from + i] # EOF
           n == {k \in 0..nBytes : \A i \in 1..k : good(i)}
           stops == {k \in 0..nBytes : k < nBytes => ~good(k + 1)}
<1>1. nBytes \in stops /\ stops \in SUBSET Nat
  OBVIOUS
<1>2. PICK m \in stops : \A j \in stops : m <= j
  <2> HIDE DEF stops
  <2> QED BY <1>1, FirstPosition
<1>3. m \in 0..nBytes /\ (m < nBytes => ~good(m + 1))
  BY <1>2
<1>4. ASSUME NEW i \in 1..m PROVE good(i)
  <2>1. i - 1 \notin stops
    <3>1. ~(m <= i - 1)
      BY <1>3
    <3> HIDE DEF stops
    <3> QED BY <1>2, <3>1
  <2>2. i - 1 \in 0..nBytes /\ i - 1 + 1 = i
    BY <1>3
  <2> HIDE DEF good
  <2> QED BY <2>1, <2>2
<1>5. m \in n
  BY <1>3, <1>4
<1>6. ASSUME NEW j \in n PROVE j <= m
  <2>1. SUFFICES ASSUME m < j PROVE FALSE
    BY <1>3
  <2>2. m + 1 \in 1..j /\ m < nBytes
    BY <1>3, <2>1
  <2> QED BY <1>3, <2>2
<1>7. (CHOOSE k \in n : \A j \in n : j <= k) = m
  <2>1. ASSUME NEW k \in n, \A j \in n : j <= k PROVE k = m
    <3>1. k \in Int /\ m \in Int
      BY <1>3
    <3>2. k <= m /\ m <= k
      BY <1>5, <1>6, <2>1
    <3> QED BY <3>1, <3>2
  <2> HIDE DEF n
  <2> QED BY <1>5, <1>6, <2>1
<1>8. Copied(origin, from, nBytes) = SubSeq(origin, from + 1, from + m)
  BY <1>7 DEF Copied
<1>9. m < nBytes => from + m + 1 > Len(origin) \/ origin[from + m + 1] = EOF
  BY <1>3
<1> QED BY <1>3, <1>4, <1>8, <1>9

\* It copies bytes of the origin, none of which counts as EOF, and not more than it was told.
LEMMA CopiedTyped ==
  ASSUME NEW origin \in Seq(Held), NEW from \in Nat, NEW nBytes \in Nat
  PROVE  /\ Copied(origin, from, nBytes) \in Seq(NotEOF)
         /\ Len(Copied(origin, from, nBytes)) <= nBytes
<1>1. PICK k \in 0..nBytes :
        /\ Copied(origin, from, nBytes) = SubSeq(origin, from + 1, from + k)
        /\ \A i \in 1..k : from + i <= Len(origin) /\ origin[from + i] # EOF
  BY CopiedProperties
<1>2. ASSUME NEW i \in (from + 1)..(from + k) PROVE origin[i] \in NotEOF
  <2>1. i - from \in 1..k /\ from + (i - from) = i
    BY <1>2
  <2>2. i <= Len(origin) /\ origin[i] # EOF
    BY <1>1, <2>1
  <2>3. origin[i] \in Held
    BY <2>2, ElementOfSeq
  <2> QED BY <2>2, <2>3 DEF Held, NotEOF
<1>3. /\ SubSeq(origin, from + 1, from + k) \in Seq(NotEOF)
      /\ Len(SubSeq(origin, from + 1, from + k)) = IF from + 1 <= from + k THEN from + k - (from + 1) + 1 ELSE 0
  <2>1. from + 1 \in Int /\ from + k \in Int
    OBVIOUS
  <2> QED BY <1>2, <2>1, SubSeqProperties
<1>4. Len(SubSeq(origin, from + 1, from + k)) <= nBytes
  BY <1>3
<1> QED BY <1>1, <1>3, <1>4

\* The part of a file before its first byte that counts as EOF: what is archived of it.
UpToEOF(content) == SelectInSeq(content, LAMBDA byte : byte = EOF)
Kept(content) == IF UpToEOF(content) = 0 THEN content ELSE SubSeq(content, 1, UpToEOF(content) - 1)

\* A whole file is copied up to its first byte that counts as EOF.
LEMMA WholeCopied ==
  ASSUME NEW content \in Seq(Held)
  PROVE  Copied(content, 0, Len(content)) = Kept(content)
<1> DEFINE I == {i \in 1..Len(content) : content[i] = EOF}
<1>0. Len(content) \in Nat
  BY LenProperties
<1>1. PICK k \in 0..Len(content) :
        /\ Copied(content, 0, Len(content)) = SubSeq(content, 0 + 1, 0 + k)
        /\ \A i \in 1..k : 0 + i <= Len(content) /\ content[0 + i] # EOF
        /\ k < Len(content) => 0 + k + 1 > Len(content) \/ content[0 + k + 1] = EOF
  BY <1>0, CopiedProperties
<1>2. UpToEOF(content) = IF I # {} THEN CHOOSE x \in I : \A y \in I : x =< y ELSE 0
  BY DEF UpToEOF, SelectInSeq, Min
<1>3. CASE I = {}
  <2>1. ~ (k < Len(content))
    BY <1>0, <1>1, <1>3
  <2>2. k = Len(content) /\ UpToEOF(content) = 0
    BY <1>0, <1>2, <1>3, <2>1
  <2>3. SubSeq(content, 1, Len(content)) = content
    BY SubSeqFull
  <2> QED BY <1>1, <2>2, <2>3 DEF Kept
<1>4. CASE I # {}
  <2>1. k < Len(content)
    BY <1>0, <1>1, <1>4
  <2>2. k + 1 \in I /\ \A y \in I : k + 1 <= y
    BY <1>0, <1>1, <2>1
  <2>3. (CHOOSE x \in I : \A y \in I : x =< y) = k + 1
    <3>1. \A x \in I : (\A y \in I : x =< y) => x = k + 1
      BY <1>0, <2>2
    <3> HIDE DEF I
    <3> QED BY <2>2, <3>1
  <2>4. UpToEOF(content) = k + 1
    BY <1>2, <1>4, <2>3
  <2> QED BY <1>1, <2>4 DEF Kept
<1> QED BY <1>3, <1>4

\* Writing moves nothing that was there and is not overwritten, and puts bytes where it says.
LEMMA WrittenProperties ==
  ASSUME NEW S, NEW file \in Seq(S), NEW from \in Nat, NEW bytes \in Seq(S), Hole \in S
  PROVE  /\ Written(file, from, bytes) \in Seq(S)
         /\ Len(Written(file, from, bytes)) >= Len(file)
         /\ \A i \in 1..Len(file) : i <= from \/ from + Len(bytes) < i => Written(file, from, bytes)[i] = file[i]
         /\ \A j \in 1..Len(bytes) : /\ from + j <= Len(Written(file, from, bytes))
                                     /\ Written(file, from, bytes)[from + j] = bytes[j]
<1>0. Len(file) \in Nat /\ Len(bytes) \in Nat
  BY LenProperties
<1>1. CASE bytes = <<>>
  <2>1. Written(file, from, bytes) = file /\ Len(bytes) = 0
    BY <1>1 DEF Written
  <2> QED BY <1>0, <2>1
<1>2. CASE bytes # <<>>
  <2> DEFINE n == IF Len(file) > from + Len(bytes) THEN Len(file) ELSE from + Len(bytes)
             w == [i \in 1..n |-> IF from < i /\ i <= from + Len(bytes) THEN bytes[i - from]
                                  ELSE IF i <= Len(file) THEN file[i] ELSE Hole]
  <2>1. Written(file, from, bytes) = w
    BY <1>2 DEF Written
  <2>2. n \in Nat /\ n >= Len(file) /\ n >= from + Len(bytes)
    BY <1>0
  <2>3. ASSUME NEW i \in 1..n PROVE w[i] \in S
    <3>1. CASE from < i /\ i <= from + Len(bytes)
      <4>1. i - from \in 1..Len(bytes)
        BY <1>0, <3>1, <2>2
      <4>2. bytes[i - from] \in S
        BY <4>1, ElementOfSeq
      <4> QED BY <3>1, <4>2
    <3>2. CASE ~ (from < i /\ i <= from + Len(bytes)) /\ i <= Len(file)
      <4>1. file[i] \in S
        BY <1>0, <3>2, ElementOfSeq
      <4> QED BY <3>2, <4>1
    <3>3. CASE ~ (from < i /\ i <= from + Len(bytes)) /\ ~ (i <= Len(file))
      BY <3>3
    <3> QED BY <3>1, <3>2, <3>3
  <2>4. w \in [1..n -> S] /\ Len(w) = n
    <3> HIDE DEF n
    <3> QED BY <2>2, <2>3
  <2>5. w \in Seq(S)
    <3> HIDE DEF n, w
    <3> QED BY <2>2, <2>4
  <2>6. \A i \in 1..Len(file) : i <= from \/ from + Len(bytes) < i => w[i] = file[i]
    <3> HIDE DEF n
    <3> QED BY <1>0, <2>2
  <2>7. \A j \in 1..Len(bytes) : from + j <= n /\ w[from + j] = bytes[j]
    <3> HIDE DEF n
    <3> QED BY <1>0, <2>2
  <2> HIDE DEF n, w
  <2> QED BY <2>1, <2>2, <2>4, <2>5, <2>6, <2>7
<1> QED BY <1>1, <1>2

\* The entries of files take some number of bytes.
LEMMA EntriesLenType == ASSUME NEW names \in Seq(Files) PROVE EntriesLen(names) \in Nat
<1> DEFINE entry == [i \in DOMAIN names |-> {i} \X (1..(NameLen[names[i]] + 1 + IntSize))]
           S == {{i} \X (1..(NameLen[names[i]] + 1 + IntSize)) : i \in DOMAIN names}
<1>1. DOMAIN names = 1..Len(names) /\ Len(names) \in Nat
  BY LenProperties
<1>2. IsFiniteSet(DOMAIN names)
  BY <1>1, FS_Interval
<1>3. entry \in Surjection(DOMAIN names, S)
  BY DEF Surjection
<1>4. IsFiniteSet(S)
  <2> HIDE DEF entry, S
  <2> QED BY <1>2, <1>3, FS_Surjection
<1>5. ASSUME NEW i \in DOMAIN names
      PROVE IsFiniteSet({i} \X (1..(NameLen[names[i]] + 1 + IntSize)))
  <2>1. names[i] \in Files
    BY <1>1, ElementOfSeq
  <2>2. NameLen[names[i]] + 1 + IntSize \in Int
    BY <2>1, TarAssumption
  <2>3. IsFiniteSet(1..(NameLen[names[i]] + 1 + IntSize)) /\ IsFiniteSet({i})
    <3>1. 1 \in Int
      OBVIOUS
    <3> QED BY <2>2, <3>1, FS_Interval, FS_Singleton
  <2> QED BY <2>3, FS_Product
<1>6. IsFiniteSet(UNION S)
  <2>1. \A T \in S : IsFiniteSet(T)
    BY <1>5
  <2> HIDE DEF S
  <2> QED BY <1>4, <2>1, FS_UNION
<1>7. Cardinality(UNION S) \in Nat
  BY <1>6, FS_CardinalityType
<1> QED BY <1>7 DEF EntriesLen

\* A product grows with its factors.
LEMMA Grows ==
  ASSUME NEW a \in Nat, NEW b \in Nat, NEW c \in Nat, a <= b
  PROVE  /\ a * c \in Nat /\ b * c \in Nat /\ a * c <= b * c
         /\ c * a \in Nat /\ c * b \in Nat /\ c * a <= c * b
<1>1. a * c \in Nat /\ c * a \in Nat /\ (b - a) * c \in Nat
  OBVIOUS
<1>2. b * c = a * c + (b - a) * c /\ c * b = b * c /\ c * a = a * c
  OBVIOUS
<1> QED BY <1>1, <1>2

\* The header lists the files of the command line in their order: as many as are packed
\* while packing, all of them in the archive.
Listed ==
    /\ phase = "failed" => ~archive.exists
    /\ phase = "pack" => /\ archive.exists /\ Len(header) <= Len(fileNames)
                         /\ \A i \in 1..Len(header) : header[i].name = fileNames[i]
    /\ phase \in {"packed", "unpack", "unpacked", "stuck"} =>
         /\ archive.exists /\ Len(archive.header) = Len(fileNames)
         /\ \A i \in 1..Len(fileNames) : archive.header[i].name = fileNames[i]

\* The position is behind the room of the header and what the files that are done may take.
Within ==
    /\ phase = "pack" => pos <= HeaderRoom(Len(fileNames)) + Len(header) * MaxLen
    /\ phase = "unpack" =>
         /\ Len(header) <= Len(fileNames)
         /\ pos <= HeaderRoom(Len(fileNames)) + (Len(fileNames) - Len(header)) * MaxLen

ListInv == TarTypeOK /\ Listed /\ Within

\* What the clauses of Within say is within the bound of TarTypeOK.
LEMMA WithinBound ==
  ASSUME NEW k \in Nat, NEW n \in Nat, k <= n, n <= MaxFiles
  PROVE  /\ HeaderRoom(n) \in Nat /\ k * MaxLen \in Nat
         /\ HeaderRoom(n) + k * MaxLen <= HeaderRoom(MaxFiles) + MaxFiles * MaxLen
<1>1. MaxFiles \in Nat /\ MaxLen \in Nat /\ IntSize \in Nat /\ EntrySize \in Nat
  BY TarAssumption
<1>2. EntrySize * n \in Nat /\ EntrySize * MaxFiles \in Nat /\ EntrySize * n <= EntrySize * MaxFiles
  BY <1>1, Grows
<1>3. k <= MaxFiles
  BY <1>1
<1>4. k * MaxLen \in Nat /\ MaxFiles * MaxLen \in Nat /\ k * MaxLen <= MaxFiles * MaxLen
  BY <1>1, <1>3, Grows
<1> QED BY <1>1, <1>2, <1>4 DEF HeaderRoom

\* One more file takes MaxLen at most.
LEMMA OneMore ==
  ASSUME NEW k \in Nat
  PROVE  (k + 1) * MaxLen = k * MaxLen + MaxLen /\ k * MaxLen \in Nat
<1>1. MaxLen \in Nat
  BY TarAssumption
<1> QED BY <1>1

LEMMA ListInit == TarInit => ListInv
<1> SUFFICES ASSUME TarInit PROVE ListInv
  OBVIOUS
<1>1. PICK n \in 0..MaxFiles : fileNames \in [1..n -> Files]
  BY DEF TarInit
<1>2. MaxFiles \in Nat
  BY TarAssumption
<1>3. fileNames \in Seq(Files) /\ Len(fileNames) = n
  BY <1>1, <1>2
<1>4. PICK D \in SUBSET Files : disk \in [D -> FileContents]
  BY DEF TarInit
<1>5. ASSUME NEW f \in DOMAIN disk PROVE disk[f] \in Seq(Held) /\ Len(disk[f]) <= MaxLen
  <2>1. PICK m \in 0..MaxLen : disk[f] \in [1..m -> Bytes]
    BY <1>4 DEF FileContents
  <2>2. m \in Nat /\ m <= MaxLen
    BY TarAssumption
  <2>3. disk[f] \in Seq(Bytes) /\ Len(disk[f]) = m
    BY <2>1, <2>2
  <2>4. Bytes \subseteq Held
    BY DEF Held
  <2>5. disk[f] \in Seq(Held)
    BY <2>3, <2>4, SeqMonotonic
  <2> QED BY <2>2, <2>3, <2>5
<1>6. header = <<>> /\ Len(header) = 0 /\ header \in Seq(EntryRec) /\ phase = "pack"
  BY EmptySeq DEF TarInit
<1>7. pos = HeaderRoom(n)
  BY <1>3 DEF TarInit
<1>8. pos \in 0..(HeaderRoom(MaxFiles) + MaxFiles * MaxLen)
  <2>1. /\ HeaderRoom(n) \in Nat /\ 0 * MaxLen \in Nat
        /\ HeaderRoom(n) + 0 * MaxLen <= HeaderRoom(MaxFiles) + MaxFiles * MaxLen
    BY <1>1, <1>2, WithinBound
  <2>2. MaxFiles * MaxLen \in Nat /\ HeaderRoom(MaxFiles) \in Nat
    BY <1>2, WithinBound
  <2> QED BY <1>7, <2>1, <2>2
<1>9. archive \in [exists : BOOLEAN, header : Seq(EntryRec), bytes : Seq(NotEOF)] /\ archive.exists
  <2>1. <<>> \in Seq(EntryRec) /\ <<>> \in Seq(NotEOF) /\ TRUE \in BOOLEAN
    BY EmptySeq
  <2> QED BY <2>1, Zenon DEF TarInit
<1>10. TarTypeOK
  BY <1>1, <1>2, <1>3, <1>4, <1>5, <1>6, <1>8, <1>9 DEF TarTypeOK, EntryRec, NotEOF, Held
<1>11. Listed
  BY <1>3, <1>6, <1>9 DEF Listed
<1>12. Within
  <2>1. HeaderRoom(n) \in Nat /\ 0 * MaxLen \in Nat
    BY <1>1, <1>2, WithinBound
  <2> QED BY <1>3, <1>6, <1>7, <2>1 DEF Within
<1> QED BY <1>10, <1>11, <1>12 DEF ListInv

\* The parts of TarTypeOK, with the names used here.
LEMMA TypeParts ==
  ASSUME TarTypeOK
  PROVE  /\ fileNames \in Seq(Files) /\ Len(fileNames) \in Nat /\ Len(fileNames) <= MaxFiles
         /\ header \in Seq(EntryRec) /\ Len(header) \in Nat /\ pos \in Nat
         /\ archive.header \in Seq(EntryRec) /\ Len(archive.header) \in Nat
         /\ archive.bytes \in Seq(NotEOF) /\ archive.bytes \in Seq(Held)
         /\ Len(archive.bytes) \in Nat
         /\ \A f \in DOMAIN disk :
              f \in Files /\ disk[f] \in Seq(Held) /\ Len(disk[f]) \in Nat /\ Len(disk[f]) <= MaxLen
<1>1. archive.bytes \in Seq(NotEOF)
  BY DEF TarTypeOK, NotEOF
<1>2. NotEOF \subseteq Held
  BY TarAssumption DEF NotEOF, Held
<1>3. archive.bytes \in Seq(Held)
  BY <1>1, <1>2, SeqMonotonic
<1>4. ASSUME NEW f \in DOMAIN disk
      PROVE f \in Files /\ disk[f] \in Seq(Held) /\ Len(disk[f]) \in Nat /\ Len(disk[f]) <= MaxLen
  BY LenProperties DEF TarTypeOK, Held
<1>5. fileNames \in Seq(Files) /\ header \in Seq(EntryRec) /\ archive.header \in Seq(EntryRec)
  BY DEF TarTypeOK, EntryRec
<1>6. /\ Len(fileNames) \in Nat /\ Len(header) \in Nat
      /\ Len(archive.header) \in Nat /\ Len(archive.bytes) \in Nat
  BY <1>1, <1>5, LenProperties
<1>7. Len(fileNames) <= MaxFiles /\ pos \in Nat
  BY DEF TarTypeOK
<1> QED BY <1>1, <1>3, <1>4, <1>5, <1>6, <1>7

LEMMA MissingLists == ASSUME ListInv, InputMissing PROVE ListInv'
<1>1. archive' = [archive EXCEPT !.exists = FALSE] /\ phase' = "failed"
      /\ UNCHANGED <<fileNames, header, pos, disk>>
  BY DEF InputMissing, Removed
<1>2. archive' \in [exists : BOOLEAN, header : Seq([name : Files, size : 0..MaxLen]),
                    bytes : Seq((Bytes \ {EOF}) \cup {HeaderByte, Hole})] /\ ~archive'.exists
  <2>1. archive \in [exists : BOOLEAN, header : Seq([name : Files, size : 0..MaxLen]),
                    bytes : Seq((Bytes \ {EOF}) \cup {HeaderByte, Hole})]
    BY DEF ListInv, TarTypeOK
  <2> QED BY <1>1, <2>1, Zenon
<1>3. TarTypeOK'
  BY <1>1, <1>2 DEF ListInv, TarTypeOK
<1>4. Listed' /\ Within'
  BY <1>1, <1>2 DEF Listed, Within
<1> QED BY <1>3, <1>4 DEF ListInv

\* What Pack does to the variables, in the names of the lemmas.
LEMMA Packed ==
  ASSUME ListInv, Pack
  PROVE  /\ phase = "pack" /\ Len(header) < Len(fileNames) /\ UNCHANGED <<phase, fileNames, disk>>
         /\ FileName \in DOMAIN disk /\ FileName \in Files
         /\ FileName = fileNames[Len(header) + 1]
         /\ Kept(disk[FileName]) \in Seq(NotEOF) /\ Len(Kept(disk[FileName])) \in 0..MaxLen
         /\ header' = Append(header, [name |-> FileName, size |-> Len(Kept(disk[FileName]))])
         /\ archive' = [archive EXCEPT !.bytes = Written(@, pos, Kept(disk[FileName]))]
         /\ Written(archive.bytes, pos, Kept(disk[FileName])) \in Seq(NotEOF)
         /\ pos' = pos + Len(Kept(disk[FileName]))
         /\ original' = Append(original, disk[FileName])
<1>1. /\ FileName \in DOMAIN disk /\ phase = "pack" /\ Len(header) < Len(fileNames)
      /\ UNCHANGED <<phase, fileNames, disk>>
  BY DEF Pack, Packing
<1>2. /\ disk[FileName] \in Seq(Held) /\ Len(disk[FileName]) \in Nat
      /\ Len(disk[FileName]) <= MaxLen /\ FileName \in Files
  BY <1>1, TypeParts DEF ListInv
<1>3. Copied(disk[FileName], 0, Len(disk[FileName])) = Kept(disk[FileName])
  BY <1>2, WholeCopied
<1>4. /\ Kept(disk[FileName]) \in Seq(NotEOF)
      /\ Len(Kept(disk[FileName])) <= Len(disk[FileName])
  BY <1>2, <1>3, CopiedTyped
<1>5. Len(Kept(disk[FileName])) \in 0..MaxLen
  <2>1. Len(Kept(disk[FileName])) \in Nat /\ MaxLen \in Nat
    BY <1>4, LenProperties, TarAssumption
  <2> QED BY <1>2, <1>4, <2>1
<1>6. Written(archive.bytes, pos, Kept(disk[FileName])) \in Seq(NotEOF)
  <2>1. archive.bytes \in Seq(NotEOF) /\ pos \in Nat /\ Hole \in NotEOF
    BY TypeParts DEF ListInv, NotEOF
  <2> QED BY <1>4, <2>1, WrittenProperties
<1>7. /\ header' = Append(header, [name |-> FileName, size |-> Len(Kept(disk[FileName]))])
      /\ archive' = [archive EXCEPT !.bytes = Written(@, pos, Kept(disk[FileName]))]
      /\ pos' = pos + Len(Kept(disk[FileName]))
      /\ original' = Append(original, disk[FileName])
  BY <1>3 DEF Pack
<1> QED BY <1>1, <1>2, <1>4, <1>5, <1>6, <1>7 DEF FileName

LEMMA PackLists == ASSUME ListInv, Pack PROVE ListInv'
<1> DEFINE kept == Kept(disk[FileName])
           entry == [name |-> FileName, size |-> Len(kept)]
<1>1. /\ phase = "pack" /\ Len(header) < Len(fileNames) /\ UNCHANGED <<phase, fileNames, disk>>
      /\ FileName = fileNames[Len(header) + 1] /\ entry.name = FileName /\ entry \in EntryRec
      /\ Len(kept) \in 0..MaxLen
      /\ header' = Append(header, entry)
      /\ archive' = [archive EXCEPT !.bytes = Written(@, pos, kept)]
      /\ Written(archive.bytes, pos, kept) \in Seq(NotEOF)
      /\ pos' = pos + Len(kept)
  BY Packed DEF EntryRec
<1> HIDE DEF kept, entry
<1>2. /\ header \in Seq(EntryRec) /\ Len(header) \in Nat /\ Len(fileNames) \in Nat /\ pos \in Nat
      /\ Len(fileNames) <= MaxFiles
  BY TypeParts DEF ListInv
<1>3. /\ header' \in Seq(EntryRec) /\ Len(header') = Len(header) + 1
      /\ \A i \in 1..Len(header) : header'[i] = header[i]
      /\ header'[Len(header) + 1] = entry
  BY <1>1, <1>2, AppendProperties
<1>4. /\ archive' \in [exists : BOOLEAN, header : Seq(EntryRec), bytes : Seq(NotEOF)]
      /\ archive'.exists = archive.exists
  <2>1. archive \in [exists : BOOLEAN, header : Seq(EntryRec), bytes : Seq(NotEOF)]
    BY DEF ListInv, TarTypeOK, EntryRec, NotEOF
  <2> QED BY <1>1, <2>1, Zenon
<1>5. pos' <= HeaderRoom(Len(fileNames)) + (Len(header) + 1) * MaxLen
  <2>1. pos <= HeaderRoom(Len(fileNames)) + Len(header) * MaxLen
    BY <1>1 DEF ListInv, Within
  <2>2. (Len(header) + 1) * MaxLen = Len(header) * MaxLen + MaxLen /\ Len(header) * MaxLen \in Nat
    BY <1>2, OneMore
  <2>3. HeaderRoom(Len(fileNames)) \in Nat /\ MaxLen \in Nat
    <3>1. Len(fileNames) <= Len(fileNames)
      BY <1>2
    <3> QED BY <1>2, <3>1, WithinBound, TarAssumption
  <2> QED BY SMTT(20), <1>1, <1>2, <2>1, <2>2, <2>3
<1>6. pos' \in 0..(HeaderRoom(MaxFiles) + MaxFiles * MaxLen)
  <2> DEFINE k == Len(header) + 1
  <2>1. k \in Nat /\ k <= Len(fileNames) /\ MaxFiles \in Nat
    BY <1>1, <1>2, TarAssumption
  <2>2. /\ HeaderRoom(Len(fileNames)) \in Nat /\ k * MaxLen \in Nat
        /\ HeaderRoom(Len(fileNames)) + k * MaxLen <= HeaderRoom(MaxFiles) + MaxFiles * MaxLen
    <3> HIDE DEF k
    <3> QED BY <1>2, <2>1, WithinBound
  <2>3. HeaderRoom(MaxFiles) \in Nat /\ MaxFiles * MaxLen \in Nat
    BY <2>1, WithinBound
  <2>4. pos' <= HeaderRoom(Len(fileNames)) + k * MaxLen /\ pos' \in Nat
    BY <1>1, <1>2, <1>5
  <2> HIDE DEF k
  <2> QED BY <2>2, <2>3, <2>4
<1>7. TarTypeOK'
  <2>1. /\ phase' \in {"pack", "packed", "unpack", "unpacked", "failed", "stuck"}
        /\ fileNames' \in Seq(Files) /\ Len(fileNames') <= MaxFiles
        /\ DOMAIN disk' \subseteq Files
        /\ \A f \in DOMAIN disk' :
             disk'[f] \in Seq(Bytes \cup {HeaderByte, Hole}) /\ Len(disk'[f]) <= MaxLen
    BY <1>1 DEF ListInv, TarTypeOK
  <2> QED BY <1>3, <1>4, <1>6, <2>1 DEF TarTypeOK, EntryRec, NotEOF
<1>8. Listed'
  <2>1. archive'.exists
    BY <1>1, <1>4, Zenon DEF ListInv, Listed
  <2>2. ASSUME NEW i \in 1..Len(header') PROVE header'[i].name = fileNames[i]
    <3>1. CASE i = Len(header) + 1
      BY <1>1, <1>3, <3>1
    <3>2. CASE i # Len(header) + 1
      <4>1. i \in 1..Len(header)
        BY <1>2, <1>3, <3>2
      <4> QED BY <1>1, <1>3, <4>1 DEF ListInv, Listed
    <3> QED BY <3>1, <3>2
  <2>3. Len(header') <= Len(fileNames)
    BY <1>1, <1>2, <1>3
  <2> QED BY <1>1, <2>1, <2>2, <2>3 DEF Listed
<1>9. Within'
  BY <1>1, <1>3, <1>5 DEF Within
<1> QED BY <1>7, <1>8, <1>9 DEF ListInv

\* The archive keeps its shape when the header is written, and the header is that of memory.
LEMMA HeaderWritten ==
  ASSUME ListInv, WriteHeader
  PROVE  /\ phase = "pack" /\ phase' = "packed" /\ UNCHANGED <<fileNames, pos, disk, original>>
         /\ Len(header) = Len(fileNames) /\ header' = <<>>
         /\ archive'.header = header /\ archive'.exists = archive.exists
         /\ HeaderLen(header) = IntSize + EntriesLen(fileNames) /\ HeaderLen(header) \in Nat
         /\ archive'.bytes = Written(archive.bytes, 0, [i \in 1..HeaderLen(header) |-> HeaderByte])
         /\ archive' \in [exists : BOOLEAN, header : Seq(EntryRec), bytes : Seq(NotEOF)]
<1> DEFINE bytes == [i \in 1..HeaderLen(header) |-> HeaderByte]
           w == Written(archive.bytes, 0, bytes)
<1>1. /\ phase = "pack" /\ Len(header) = Len(fileNames) /\ phase' = "packed"
      /\ archive' = [archive EXCEPT !.header = header, !.bytes = w]
      /\ header' = <<>> /\ UNCHANGED <<fileNames, pos, disk, original>>
  BY DEF WriteHeader
<1>2. header \in Seq(EntryRec) /\ Len(header) \in Nat /\ fileNames \in Seq(Files)
      /\ archive.bytes \in Seq(NotEOF)
  BY TypeParts DEF ListInv
<1>3. [i \in DOMAIN header |-> header[i].name] = fileNames
  BY <1>1, <1>2 DEF ListInv, Listed
<1>4. HeaderLen(header) = IntSize + EntriesLen(fileNames) /\ HeaderLen(header) \in Nat
  <2>1. HeaderLen(header) = IntSize + EntriesLen(fileNames)
    BY <1>3, Zenon DEF HeaderLen
  <2> QED BY <1>2, <2>1, EntriesLenType, TarAssumption
<1>5. bytes \in Seq(NotEOF)
  <2>1. HeaderByte \in NotEOF
    BY DEF NotEOF
  <2>2. bytes \in [1..HeaderLen(header) -> NotEOF]
    BY <2>1
  <2> HIDE DEF bytes
  <2> QED BY <1>4, <2>2
<1>6. w \in Seq(NotEOF)
  <2>1. 0 \in Nat /\ Hole \in NotEOF
    BY DEF NotEOF
  <2> HIDE DEF bytes
  <2> QED BY <1>2, <1>5, <2>1, WrittenProperties
<1>7. archive \in [exists : BOOLEAN, header : Seq(EntryRec), bytes : Seq(NotEOF)]
  BY DEF ListInv, TarTypeOK, EntryRec, NotEOF
<1>8. /\ archive' \in [exists : BOOLEAN, header : Seq(EntryRec), bytes : Seq(NotEOF)]
      /\ archive'.header = header /\ archive'.exists = archive.exists /\ archive'.bytes = w
  <2> HIDE DEF bytes, w
  <2> QED BY <1>1, <1>2, <1>6, <1>7, Zenon
<1> QED BY <1>1, <1>4, <1>8

LEMMA HeaderLists == ASSUME ListInv, WriteHeader PROVE ListInv'
<1>1. TarTypeOK'
  <2>1. header' \in Seq(EntryRec)
    BY HeaderWritten, EmptySeq
  <2>2. UNCHANGED <<fileNames, pos, disk>> /\ phase' = "packed"
        /\ archive' \in [exists : BOOLEAN, header : Seq(EntryRec), bytes : Seq(NotEOF)]
    BY HeaderWritten
  <2> QED BY <2>1, <2>2 DEF ListInv, TarTypeOK, EntryRec, NotEOF
<1>2. Listed'
  <2>1. archive'.exists
    BY HeaderWritten, Zenon DEF ListInv, Listed
  <2>2. Len(archive'.header) = Len(fileNames') /\ phase' = "packed"
        /\ \A i \in 1..Len(fileNames') : archive'.header[i].name = fileNames'[i]
    BY HeaderWritten DEF ListInv, Listed
  <2> QED BY <2>1, <2>2 DEF Listed
<1>3. Within'
  BY HeaderWritten DEF Within
<1> QED BY <1>1, <1>2, <1>3 DEF ListInv

LEMMA ReadLists == ASSUME ListInv, ReadHeader PROVE ListInv'
<1>1. /\ phase = "packed" /\ phase' = "unpack" /\ header' = archive.header
      /\ pos' = HeaderRoom(Len(archive.header)) /\ UNCHANGED <<fileNames, archive, disk>>
  BY DEF ReadHeader
<1>2. /\ archive.header \in Seq(EntryRec) /\ Len(archive.header) = Len(fileNames)
      /\ Len(fileNames) \in Nat /\ Len(fileNames) <= MaxFiles
  BY <1>1, TypeParts DEF ListInv, Listed
<1>3. /\ HeaderRoom(Len(fileNames)) \in Nat /\ 0 * MaxLen \in Nat /\ 0 * MaxLen = 0
      /\ HeaderRoom(Len(fileNames)) + 0 * MaxLen <= HeaderRoom(MaxFiles) + MaxFiles * MaxLen
  <2>1. 0 \in Nat /\ 0 <= Len(fileNames) /\ MaxLen \in Nat
    BY <1>2, TarAssumption
  <2>2. 0 * MaxLen = 0
    BY <2>1
  <2> QED BY <1>2, <2>1, <2>2, WithinBound
<1>4. pos' \in 0..(HeaderRoom(MaxFiles) + MaxFiles * MaxLen)
  <2>1. MaxFiles \in Nat /\ MaxFiles <= MaxFiles
    BY TarAssumption
  <2>2. HeaderRoom(MaxFiles) \in Nat /\ MaxFiles * MaxLen \in Nat
    BY <2>1, WithinBound
  <2> QED BY <1>1, <1>2, <1>3, <2>2
<1>5. TarTypeOK'
  BY <1>1, <1>2, <1>4 DEF ListInv, TarTypeOK, EntryRec
<1>6. Listed'
  BY <1>1 DEF ListInv, Listed
<1>7. Within'
  <2>1. Len(header') = Len(fileNames) /\ Len(fileNames) - Len(header') = 0
    BY <1>1, <1>2
  <2> QED BY <1>1, <1>2, <1>3, <2>1 DEF Within
<1> QED BY <1>5, <1>6, <1>7 DEF ListInv

\* What Unpack does to the variables.
LEMMA UnpackedOne ==
  ASSUME ListInv, Unpack
  PROVE  LET entry == Head(header)
             copied == Copied(archive.bytes, pos, entry.size)
         IN  /\ phase = "unpack" /\ UNCHANGED <<phase, fileNames, archive, original>>
             /\ entry \in EntryRec /\ entry = header[1]
             /\ header' \in Seq(EntryRec) /\ Len(header) \in Nat /\ Len(header') = Len(header) - 1
             /\ \A i \in 1..Len(header') : header'[i] = header[i + 1]
             /\ copied \in Seq(Held) /\ Len(copied) \in 0..MaxLen
             /\ DOMAIN disk' = DOMAIN disk \cup {entry.name}
             /\ disk'[entry.name] = copied
             /\ \A f \in DOMAIN disk \ {entry.name} : disk'[f] = disk[f]
             /\ pos' = pos + Len(copied)
<1> DEFINE entry == Head(header)
           copied == Copied(archive.bytes, pos, entry.size)
<1>1. /\ header \in Seq(EntryRec) /\ Len(header) \in Nat /\ header # <<>> /\ pos \in Nat
      /\ archive.bytes \in Seq(Held)
  BY TypeParts DEF ListInv, Unpack
<1>2. /\ entry \in EntryRec /\ entry = header[1] /\ Tail(header) \in Seq(EntryRec)
      /\ Len(Tail(header)) = Len(header) - 1
      /\ \A i \in 1..Len(Tail(header)) : Tail(header)[i] = header[i + 1]
  BY <1>1, HeadTailProperties
<1>3. entry.size \in 0..MaxLen /\ MaxLen \in Nat /\ entry.size \in Nat
  BY <1>2, TarAssumption DEF EntryRec
<1>4. copied \in Seq(NotEOF) /\ Len(copied) <= entry.size
  <2> HIDE DEF entry
  <2> QED BY <1>1, <1>3, CopiedTyped
<1>5. copied \in Seq(Held) /\ Len(copied) \in 0..MaxLen
  <2> HIDE DEF entry, copied
  <2>1. NotEOF \subseteq Held
    BY TarAssumption DEF NotEOF, Held
  <2>2. copied \in Seq(Held) /\ Len(copied) \in Nat
    BY <1>4, <2>1, SeqMonotonic, LenProperties
  <2> QED BY <1>3, <1>4, <2>2
<1>6. /\ disk' = [f \in DOMAIN disk \cup {entry.name} |-> IF f = entry.name THEN copied ELSE disk[f]]
      /\ pos' = pos + Len(copied) /\ header' = Tail(header) /\ phase = "unpack"
      /\ UNCHANGED <<phase, fileNames, archive, original>>
  BY DEF Unpack
<1>7. /\ DOMAIN disk' = DOMAIN disk \cup {entry.name} /\ disk'[entry.name] = copied
      /\ \A f \in DOMAIN disk \ {entry.name} : disk'[f] = disk[f]
  <2> HIDE DEF entry, copied
  <2> QED BY <1>6
<1> HIDE DEF copied
<1>8. /\ phase = "unpack" /\ UNCHANGED <<phase, fileNames, archive, original>>
      /\ header' \in Seq(EntryRec) /\ Len(header') = Len(header) - 1
      /\ \A i \in 1..Len(header') : header'[i] = header[i + 1]
  BY <1>2, <1>6
<1> QED BY <1>1, <1>2, <1>5, <1>6, <1>7, <1>8 DEF copied

LEMMA UnpackLists == ASSUME ListInv, Unpack PROVE ListInv'
<1> DEFINE entry == Head(header)
           copied == Copied(archive.bytes, pos, entry.size)
           n == Len(fileNames)
           k == n - Len(header)
<1>1. /\ phase = "unpack" /\ UNCHANGED <<phase, fileNames, archive>>
      /\ entry \in EntryRec /\ header' \in Seq(EntryRec)
      /\ Len(header) \in Nat /\ Len(header') = Len(header) - 1
      /\ copied \in Seq(Held) /\ Len(copied) \in 0..MaxLen
      /\ DOMAIN disk' = DOMAIN disk \cup {entry.name} /\ disk'[entry.name] = copied
      /\ \A f \in DOMAIN disk \ {entry.name} : disk'[f] = disk[f]
      /\ pos' = pos + Len(copied)
  BY UnpackedOne
<1> HIDE DEF entry, copied
<1>2. /\ n \in Nat /\ n <= MaxFiles /\ pos \in Nat /\ MaxFiles \in Nat /\ MaxLen \in Nat
      /\ Len(header) <= n /\ pos <= HeaderRoom(n) + k * MaxLen
  <2>1. Len(header) <= n /\ pos <= HeaderRoom(n) + k * MaxLen
    BY <1>1 DEF ListInv, Within
  <2> QED BY <2>1, TypeParts, TarAssumption DEF ListInv
<1>3. Len(header') \in Nat /\ n - Len(header') = k + 1 /\ k \in Nat /\ k + 1 <= n
  <2>1. Len(header') \in Nat
    BY <1>1, LenProperties
  <2> QED BY <1>1, <1>2, <2>1
<1> HIDE DEF n, k
<1>4. /\ HeaderRoom(n) \in Nat /\ (k + 1) * MaxLen \in Nat
      /\ HeaderRoom(n) + (k + 1) * MaxLen <= HeaderRoom(MaxFiles) + MaxFiles * MaxLen
      /\ HeaderRoom(MaxFiles) \in Nat /\ MaxFiles * MaxLen \in Nat
  <2> DEFINE j == k + 1
  <2>1. j \in Nat /\ j <= n /\ MaxFiles <= MaxFiles
    BY <1>2, <1>3
  <2> HIDE DEF j
  <2>2. /\ HeaderRoom(n) \in Nat /\ j * MaxLen \in Nat
        /\ HeaderRoom(n) + j * MaxLen <= HeaderRoom(MaxFiles) + MaxFiles * MaxLen
        /\ HeaderRoom(MaxFiles) \in Nat /\ MaxFiles * MaxLen \in Nat
    BY <1>2, <2>1, WithinBound
  <2> QED BY <2>2 DEF j
<1>5. pos' <= HeaderRoom(n) + (k + 1) * MaxLen
  <2>1. (k + 1) * MaxLen = k * MaxLen + MaxLen /\ k * MaxLen \in Nat
    BY <1>3, OneMore
  <2> DEFINE a == k * MaxLen
             b == (k + 1) * MaxLen
             h == HeaderRoom(n)
  <2>2. b = a + MaxLen /\ a \in Nat /\ h \in Nat /\ pos <= h + a
    BY <1>2, <1>4, <2>1
  <2> HIDE DEF a, b, h
  <2>3. pos' <= h + b
    BY <1>1, <1>2, <2>2
  <2> QED BY <2>3 DEF b, h
<1>6. pos' \in 0..(HeaderRoom(MaxFiles) + MaxFiles * MaxLen)
  BY <1>1, <1>2, <1>4, <1>5
<1>7. ASSUME NEW f \in DOMAIN disk' PROVE f \in Files /\ disk'[f] \in Seq(Held) /\ Len(disk'[f]) <= MaxLen
  <2>1. CASE f = entry.name
    BY <1>1, <1>2, <2>1 DEF EntryRec
  <2>2. CASE f # entry.name
    <3>1. f \in DOMAIN disk
      BY <1>1, <1>7, <2>2
    <3>2. disk'[f] = disk[f]
      BY <1>1, <2>2, <3>1
    <3> QED BY <3>1, <3>2, TypeParts DEF ListInv
  <2> QED BY <2>1, <2>2
<1>8. TarTypeOK'
  <2>1. /\ phase' \in {"pack", "packed", "unpack", "unpacked", "failed", "stuck"}
        /\ fileNames' \in Seq(Files) /\ Len(fileNames') <= MaxFiles
        /\ archive' \in [exists : BOOLEAN, header : Seq(EntryRec), bytes : Seq(NotEOF)]
    BY <1>1 DEF ListInv, TarTypeOK, EntryRec, NotEOF
  <2>2. DOMAIN disk' \subseteq Files
    BY <1>7
  <2> QED BY <1>1, <1>6, <1>7, <2>1, <2>2 DEF TarTypeOK, EntryRec, NotEOF, Held
<1>9. Listed'
  BY <1>1 DEF ListInv, Listed
<1>10. Within'
  <2>1. Len(header') <= n
    BY <1>1, <1>2, <1>3
  <2> QED BY <1>1, <1>3, <1>5, <2>1 DEF Within, n
<1> QED BY <1>8, <1>9, <1>10 DEF ListInv

LEMMA ChangeLists == ASSUME ListInv, NEW f \in Files, UserChanges(f) PROVE ListInv'
<1>1. phase = "packed" /\ UNCHANGED <<phase, fileNames, header, pos, archive>>
  BY DEF UserChanges
<1>2. \/ disk' = [g \in DOMAIN disk \ {f} |-> disk[g]]
      \/ disk' = [g \in DOMAIN disk \cup {f} |-> IF g = f THEN <<>> ELSE disk[g]]
  BY DEF UserChanges
<1>3. ASSUME NEW g \in DOMAIN disk' PROVE g \in Files /\ disk'[g] \in Seq(Held) /\ Len(disk'[g]) <= MaxLen
  <2>1. <<>> \in Seq(Held) /\ Len(<<>>) <= MaxLen
    BY EmptySeq, TarAssumption
  <2>2. \A h \in DOMAIN disk : h \in Files /\ disk[h] \in Seq(Held) /\ Len(disk[h]) <= MaxLen
    BY TypeParts DEF ListInv
  <2> QED BY <1>2, <1>3, <2>1, <2>2
<1>4. TarTypeOK'
  BY <1>1, <1>3 DEF ListInv, TarTypeOK, Held
<1>5. Listed' /\ Within'
  BY <1>1 DEF ListInv, Listed, Within
<1> QED BY <1>4, <1>5 DEF ListInv

LEMMA ListStep == ListInv /\ [TarNext]_tarVars => ListInv'
<1> SUFFICES ASSUME ListInv, [TarNext]_tarVars PROVE ListInv'
  OBVIOUS
<1>1. CASE OutputFails
  <2>1. phase = "unpack" /\ phase' = "stuck" /\ UNCHANGED <<fileNames, header, pos, archive, disk>>
    BY <1>1 DEF OutputFails
  <2> QED BY <2>1 DEF ListInv, TarTypeOK, Listed, Within
<1>2. CASE Unpacked
  <2>1. phase = "unpack" /\ phase' = "unpacked" /\ UNCHANGED <<fileNames, header, pos, archive, disk>>
    BY <1>2 DEF Unpacked
  <2> QED BY <2>1 DEF ListInv, TarTypeOK, Listed, Within
<1>3. CASE UNCHANGED tarVars
  BY <1>3 DEF ListInv, TarTypeOK, Listed, Within, tarVars
<1> QED BY <1>1, <1>2, <1>3, MissingLists, PackLists, HeaderLists, ReadLists, UnpackLists, ChangeLists
        DEF TarNext

\* Every step of packing and unpacking leaves the variables in their shape and within the
\* bounds; in particular no byte of the archive counts as EOF.
THEOREM ArchiveTyped == TarSpec => []TarTypeOK
<1>1. ListInv => TarTypeOK
  BY DEF ListInv
<1> QED BY <1>1, ListInit, ListStep, PTL DEF TarSpec

\* createTar leaves no archive when it fails, and one that lists all its files when it does
\* not.
THEOREM NothingHalfPacked == TarSpec => []NoHalfArchive
<1>1. ListInv => NoHalfArchive
  <2> SUFFICES ASSUME ListInv, phase \in {"packed", "unpack", "unpacked", "stuck"}
               PROVE [i \in DOMAIN archive.header |-> archive.header[i].name] = fileNames
    BY DEF ListInv, Listed, NoHalfArchive
  <2>1. fileNames \in Seq(Files) /\ archive.header \in Seq(EntryRec)
    BY TypeParts DEF ListInv
  <2>2. DOMAIN archive.header = DOMAIN fileNames /\ DOMAIN fileNames = 1..Len(fileNames)
    BY <2>1, LenProperties DEF ListInv, Listed
  <2>3. \A i \in DOMAIN fileNames : archive.header[i].name = fileNames[i]
    BY <2>2 DEF ListInv, Listed
  <2> QED BY <2>1, <2>2, <2>3
<1> QED BY <1>1, ListInit, ListStep, PTL DEF TarSpec

\* What is kept of a file are bytes that do not count as EOF.
LEMMA KeptProperties ==
  ASSUME NEW content \in Seq(Held)
  PROVE  /\ Kept(content) \in Seq(Held) /\ Len(Kept(content)) \in Nat
         /\ \A j \in 1..Len(Kept(content)) : Kept(content)[j] # EOF
<1>0. Len(content) \in Nat
  BY LenProperties
<1>1. PICK k \in 0..Len(content) :
        /\ Copied(content, 0, Len(content)) = SubSeq(content, 0 + 1, 0 + k)
        /\ \A i \in 1..k : 0 + i <= Len(content) /\ content[0 + i] # EOF
  BY ZenonT(40), <1>0, CopiedProperties
<1>2. Kept(content) = SubSeq(content, 1, k)
  BY <1>1, WholeCopied
<1>3. \A i \in 1..k : content[i] \in Held
  BY <1>0, ElementOfSeq
<1>4. /\ SubSeq(content, 1, k) \in Seq(Held)
      /\ Len(SubSeq(content, 1, k)) = IF 1 <= k THEN k - 1 + 1 ELSE 0
      /\ \A i \in 1..(k - 1 + 1) : SubSeq(content, 1, k)[i] = content[1 + i - 1]
  BY <1>3, SubSeqProperties
<1> QED BY <1>1, <1>2, <1>4

\* From a position where bytes stand that do not count as EOF, so many are copied.
LEMMA DataCopied ==
  ASSUME NEW origin \in Seq(Held), NEW from \in Nat, NEW data \in Seq(Held),
         \A j \in 1..Len(data) : /\ from + j <= Len(origin) /\ origin[from + j] = data[j]
                                 /\ data[j] # EOF
  PROVE  Copied(origin, from, Len(data)) = data
<1>0. Len(data) \in Nat
  BY LenProperties
<1>1. PICK k \in 0..Len(data) :
        /\ Copied(origin, from, Len(data)) = SubSeq(origin, from + 1, from + k)
        /\ k < Len(data) => from + k + 1 > Len(origin) \/ origin[from + k + 1] = EOF
  BY <1>0, CopiedProperties
<1>2. k = Len(data)
  <2>1. SUFFICES ASSUME k < Len(data) PROVE FALSE
    BY <1>0
  <2>2. k + 1 \in 1..Len(data) /\ from + (k + 1) = from + k + 1
    BY <1>0, <2>1
  <2>3. from + k + 1 <= Len(origin) /\ origin[from + k + 1] # EOF
    BY <2>2
  <2>4. Len(origin) \in Nat
    BY LenProperties
  <2> QED BY <1>1, <2>1, <2>3, <2>4
<1>3. \A i \in (from + 1)..(from + k) : origin[i] \in Held
  <2> SUFFICES ASSUME NEW i \in (from + 1)..(from + k) PROVE origin[i] \in Held
    OBVIOUS
  <2>1. i - from \in 1..Len(data) /\ from + (i - from) = i
    BY <1>2
  <2>2. i <= Len(origin)
    BY <2>1
  <2>3. i \in 1..Len(origin)
    BY <2>2, LenProperties
  <2> QED BY <2>3, ElementOfSeq
<1>4. /\ SubSeq(origin, from + 1, from + k) \in Seq(Held)
      /\ Len(SubSeq(origin, from + 1, from + k)) = k
      /\ \A i \in 1..k : SubSeq(origin, from + 1, from + k)[i] = origin[from + i]
  <2>1. from + 1 \in Int /\ from + k \in Int
    OBVIOUS
  <2>2. /\ SubSeq(origin, from + 1, from + k) \in Seq(Held)
        /\ Len(SubSeq(origin, from + 1, from + k))
             = IF from + 1 <= from + k THEN from + k - (from + 1) + 1 ELSE 0
        /\ \A i \in 1..(from + k - (from + 1) + 1) :
             SubSeq(origin, from + 1, from + k)[i] = origin[from + 1 + i - 1]
    BY <1>3, <2>1, SubSeqProperties
  <2>3. Len(SubSeq(origin, from + 1, from + k)) = k
    BY <2>2
  <2>4. ASSUME NEW i \in 1..k PROVE SubSeq(origin, from + 1, from + k)[i] = origin[from + i]
    <3>1. i \in 1..(from + k - (from + 1) + 1) /\ from + 1 + i - 1 = from + i
      OBVIOUS
    <3> QED BY <2>2, <3>1
  <2> QED BY <2>2, <2>3, <2>4
<1>5. \A i \in 1..Len(data) : SubSeq(origin, from + 1, from + k)[i] = data[i]
  BY <1>2, <1>4
<1> QED BY <1>1, <1>2, <1>4, <1>5, SeqEqual

\* The first n files lie one behind the other, from the end of the header's room on.
Laid(place, n) ==
    /\ place \in [1..(n + 1) -> Nat]
    /\ place[1] = HeaderRoom(Len(fileNames))
    /\ \A i \in 1..(n + 1) : HeaderRoom(Len(fileNames)) <= place[i] /\ place[i] <= place[n + 1]
    /\ \A i \in 1..n :
         /\ place[i + 1] = place[i] + Len(Kept(original[i]))
         /\ \A j \in 1..Len(Kept(original[i])) :
              /\ place[i] + j <= Len(archive.bytes)
              /\ archive.bytes[place[i] + j] = Kept(original[i])[j]

Restored(i) == fileNames[i] \in DOMAIN disk /\ disk[fileNames[i]] = Kept(original[i])

\* While packing, the observed contents are those of the disk, and lie in the archive up to
\* the position.
PackData ==
    /\ Len(original) = Len(header)
    /\ \A i \in 1..Len(header) : /\ fileNames[i] \in DOMAIN disk
                                 /\ original[i] = disk[fileNames[i]]
                                 /\ header[i].size = Len(Kept(original[i]))
    /\ \E place : Laid(place, Len(header)) /\ pos = place[Len(header) + 1]

\* The header of the archive belongs to what was packed, and one name to one content.
HeaderData ==
    /\ Len(original) = Len(fileNames)
    /\ \A i \in 1..Len(fileNames) : archive.header[i].size = Len(Kept(original[i]))
    /\ \A i, j \in 1..Len(fileNames) : fileNames[i] = fileNames[j] => original[i] = original[j]

\* While unpacking, the header holds what is left to do, the position is where its first
\* file lies, and those before it are restored.
UnpackData ==
    LET done == Len(fileNames) - Len(header)
    IN  /\ \A i \in 1..Len(header) : header[i] = archive.header[done + i]
        /\ Fits => /\ \E place : Laid(place, Len(fileNames)) /\ pos = place[done + 1]
                   /\ \A i \in 1..done : Restored(i)

DataInv ==
    /\ original \in Seq(Seq(Held))
    /\ phase = "pack" => PackData
    /\ phase \in {"packed", "unpack", "unpacked"} => HeaderData
    /\ phase = "packed" /\ Fits => \E place : Laid(place, Len(fileNames))
    /\ phase = "unpack" => UnpackData
    /\ phase = "unpacked" /\ Fits => \A i \in 1..Len(fileNames) : Restored(i)

\* The data stay where they are, as long as nothing is written between the header and their
\* end.
LEMMA LaidStays ==
  ASSUME ListInv, NEW n \in Nat, NEW place, Laid(place, n), original \in Seq(Seq(Held)),
         n <= Len(original), fileNames' = fileNames,
         \A i \in 1..n : original'[i] = original[i],
         Len(archive'.bytes) >= Len(archive.bytes), Len(archive'.bytes) \in Nat,
         \A i \in 1..Len(archive.bytes) :
             HeaderRoom(Len(fileNames)) < i /\ i <= place[n + 1] =>
                 archive'.bytes[i] = archive.bytes[i]
  PROVE  Laid(place, n)'
<1>1. HeaderRoom(Len(fileNames)) \in Nat
  <2>1. Len(fileNames) \in Nat /\ Len(fileNames) <= Len(fileNames) /\ Len(fileNames) <= MaxFiles
    BY TypeParts DEF ListInv
  <2> QED BY <2>1, WithinBound
<1>2. Len(archive.bytes) \in Nat
  BY TypeParts DEF ListInv
<1>3. /\ place \in [1..(n + 1) -> Nat] /\ place[1] = HeaderRoom(Len(fileNames))
      /\ \A i \in 1..(n + 1) : HeaderRoom(Len(fileNames)) <= place[i] /\ place[i] <= place[n + 1]
  BY DEF Laid
<1>4. ASSUME NEW i \in 1..n
      PROVE  /\ place[i + 1] = place[i] + Len(Kept(original'[i]))
             /\ \A j \in 1..Len(Kept(original'[i])) :
                  /\ place[i] + j <= Len(archive'.bytes)
                  /\ archive'.bytes[place[i] + j] = Kept(original'[i])[j]
  <2>1. /\ place[i + 1] = place[i] + Len(Kept(original[i]))
        /\ \A j \in 1..Len(Kept(original[i])) :
             /\ place[i] + j <= Len(archive.bytes)
             /\ archive.bytes[place[i] + j] = Kept(original[i])[j]
    BY DEF Laid
  <2>2. original'[i] = original[i]
    OBVIOUS
  <2>3. Len(Kept(original[i])) \in Nat
    <3>1. i \in 1..Len(original)
      BY LenProperties
    <3>2. original[i] \in Seq(Held)
      BY <3>1, ElementOfSeq
    <3> QED BY <3>2, KeptProperties
  <2>4. /\ place[i] \in Nat /\ place[i + 1] \in Nat /\ place[n + 1] \in Nat
        /\ HeaderRoom(Len(fileNames)) <= place[i] /\ place[i + 1] <= place[n + 1]
    <3>1. i \in 1..(n + 1) /\ i + 1 \in 1..(n + 1) /\ n + 1 \in 1..(n + 1)
      OBVIOUS
    <3> QED BY <1>3, <3>1
  <2>5. ASSUME NEW j \in 1..Len(Kept(original[i]))
        PROVE  /\ place[i] + j <= Len(archive'.bytes)
               /\ archive'.bytes[place[i] + j] = Kept(original[i])[j]
    <3> DEFINE len == Len(Kept(original[i]))
               room == HeaderRoom(Len(fileNames))
               byte == place[i] + j
               size == Len(archive.bytes)
               size1 == Len(archive'.bytes)
               begin == place[i]
               end == place[n + 1]
    <3>0. /\ len \in Nat /\ j \in 1..len /\ room \in Nat /\ size \in Nat /\ size1 \in Nat
          /\ begin \in Nat /\ end \in Nat /\ room <= begin /\ begin + len <= end
          /\ byte <= size /\ size <= size1 /\ byte = begin + j
      BY <1>1, <1>2, <2>1, <2>3, <2>4
    <3>1. archive.bytes[byte] = Kept(original[i])[j]
      BY <2>1
    <3> HIDE DEF len, room, byte, size, size1, begin, end
    <3>2. byte \in 1..size /\ room < byte /\ byte <= end /\ byte <= size1
      BY <3>0
    <3>3. archive'.bytes[byte] = archive.bytes[byte]
      BY <3>2 DEF room, size, end
    <3> QED BY <3>1, <3>2, <3>3 DEF byte, size1
  <2> QED BY <2>1, <2>2, <2>5
<1> QED BY <1>3, <1>4 DEF Laid

LEMMA DataInit == TarInit => DataInv
<1> SUFFICES ASSUME TarInit PROVE DataInv
  OBVIOUS
<1>1. /\ original = <<>> /\ header = <<>> /\ Len(original) = 0 /\ Len(header) = 0
      /\ original \in Seq(Seq(Held)) /\ phase = "pack" /\ pos = HeaderRoom(Len(fileNames))
  BY EmptySeq DEF TarInit
<1>2. pos \in Nat
  BY ListInit, TypeParts DEF ListInv
<1> DEFINE place == [i \in 1..(0 + 1) |-> pos]
<1>3. Laid(place, 0) /\ place[0 + 1] = pos
  BY <1>1, <1>2 DEF Laid
<1>4. PackData
  <2> HIDE DEF place
  <2> QED BY <1>1, <1>3 DEF PackData
<1> QED BY <1>1, <1>4 DEF DataInv

\* The next file is laid behind those before it.
LEMMA PackLays ==
  ASSUME ListInv, DataInv, Pack
  PROVE  \E place : Laid(place, Len(header))' /\ pos' = place[Len(header') + 1]
<1> PICK n : n = Len(header)
  OBVIOUS
<1> DEFINE content == disk[FileName]
           kept == Kept(content)
           room == HeaderRoom(Len(fileNames))
           old == archive.bytes
           new == archive'.bytes
<1>1. PICK place : Laid(place, n) /\ pos = place[n + 1]
  BY Packed DEF DataInv, PackData
<1>2. n \in Nat /\ pos \in Nat /\ room \in Nat /\ Len(old) \in Nat
      /\ old \in Seq(NotEOF) /\ Hole \in NotEOF
  <2>1. Len(fileNames) \in Nat /\ Len(fileNames) <= Len(fileNames) /\ Len(fileNames) <= MaxFiles
    BY TypeParts DEF ListInv
  <2>2. room \in Nat
    BY <2>1, WithinBound
  <2> QED BY <2>2, TypeParts DEF ListInv, NotEOF
<1>3. kept \in Seq(NotEOF) /\ Len(kept) \in Nat /\ pos' = pos + Len(kept)
      /\ new = Written(old, pos, kept) /\ fileNames' = fileNames
      /\ original' = Append(original, content)
  <2>1. kept \in Seq(NotEOF) /\ pos' = pos + Len(kept) /\ fileNames' = fileNames
        /\ archive' = [archive EXCEPT !.bytes = Written(@, pos, kept)]
        /\ original' = Append(original, content)
    BY Packed
  <2>2. new = Written(old, pos, kept)
    <3> HIDE DEF kept
    <3> QED BY <2>1, Zenon DEF ListInv, TarTypeOK
  <2> HIDE DEF kept, new
  <2> QED BY <2>1, <2>2, LenProperties
<1>4. /\ new \in Seq(NotEOF) /\ Len(new) \in Nat /\ Len(new) >= Len(old)
      /\ \A i \in 1..Len(old) : i <= pos => new[i] = old[i]
      /\ \A j \in 1..Len(kept) : pos + j <= Len(new) /\ new[pos + j] = kept[j]
  <2> HIDE DEF kept, new, old
  <2> QED BY <1>2, <1>3, WrittenProperties, LenProperties
<1>5. /\ original \in Seq(Seq(Held)) /\ Len(original) = n /\ content \in Seq(Held)
      /\ \A i \in 1..n : original'[i] = original[i]
      /\ original'[n + 1] = content
  <2>1. original \in Seq(Seq(Held)) /\ Len(original) = n /\ content \in Seq(Held)
    BY Packed, TypeParts DEF DataInv, PackData, ListInv
  <2> HIDE DEF content
  <2> QED BY <1>3, <2>1, AppendProperties
<1>6. Laid(place, n)'
  <2>1. \A i \in 1..Len(old) : room < i /\ i <= place[n + 1] => new[i] = old[i]
    BY <1>1, <1>4
  <2>2. Len(new) >= Len(old) /\ Len(new) \in Nat /\ n <= Len(original)
    BY <1>2, <1>4, <1>5
  <2> QED BY <1>1, <1>2, <1>3, <1>5, <2>1, <2>2, LaidStays
<1> PICK longer : longer = [i \in 1..(n + 2) |-> IF i = n + 2 THEN pos' ELSE place[i]]
  OBVIOUS
<1>7. /\ place \in [1..(n + 1) -> Nat] /\ place[1] = room
      /\ \A i \in 1..(n + 1) : room <= place[i] /\ place[i] <= pos
      /\ \A i \in 1..n :
           /\ place[i + 1] = place[i] + Len(Kept(original'[i]))
           /\ \A j \in 1..Len(Kept(original'[i])) :
                /\ place[i] + j <= Len(new)
                /\ new[place[i] + j] = Kept(original'[i])[j]
  BY <1>1, <1>3, <1>6 DEF Laid
<1>8. pos' \in Nat /\ pos' >= pos /\ room <= pos'
  <2>1. n + 1 \in 1..(n + 1)
    BY <1>2
  <2>2. room <= pos
    BY <1>1, <1>7, <2>1
  <2> HIDE DEF room, kept
  <2> QED BY <1>2, <1>3, <2>2
<1> HIDE DEF room, new, old, kept
<1>9. /\ longer \in [1..(n + 1 + 1) -> Nat] /\ longer[1] = room /\ longer[n + 1 + 1] = pos'
      /\ longer[n + 2] = pos'
      /\ \A i \in 1..(n + 1) : longer[i] = place[i]
  BY <1>2, <1>7, <1>8
<1>10. ASSUME NEW i \in 1..(n + 1 + 1) PROVE room <= longer[i] /\ longer[i] <= pos'
  <2>1. CASE i = n + 2
    BY <1>8, <1>9, <2>1
  <2>2. CASE i # n + 2
    <3>1. i \in 1..(n + 1)
      BY <1>2, <2>2
    <3>2. longer[i] = place[i] /\ room <= place[i] /\ place[i] <= pos /\ place[i] \in Nat
      BY <1>7, <1>9, <3>1
    <3> QED BY <1>2, <1>8, <3>2
  <2> QED BY <2>1, <2>2
<1>11. ASSUME NEW i \in 1..(n + 1)
       PROVE  /\ longer[i + 1] = longer[i] + Len(Kept(original'[i]))
              /\ \A j \in 1..Len(Kept(original'[i])) :
                   /\ longer[i] + j <= Len(new)
                   /\ new[longer[i] + j] = Kept(original'[i])[j]
  <2>1. CASE i = n + 1
    <3>1. longer[i] = pos /\ longer[i + 1] = pos' /\ Kept(original'[i]) = kept
      BY <1>1, <1>2, <1>5, <1>9, <2>1 DEF kept
    <3> QED BY <1>3, <1>4, <3>1
  <2>2. CASE i # n + 1
    <3>1. i \in 1..n /\ i + 1 \in 1..(n + 1)
      BY <1>2, <2>2
    <3>2. longer[i] = place[i] /\ longer[i + 1] = place[i + 1]
      BY <1>9, <3>1
    <3> QED BY <1>7, <3>1, <3>2
  <2> QED BY <2>1, <2>2
<1>12. Laid(longer, n + 1)'
  <2>1. room = HeaderRoom(Len(fileNames'))
    BY <1>3 DEF room
  <2>2. /\ longer \in [1..(n + 1 + 1) -> Nat] /\ longer[1] = HeaderRoom(Len(fileNames'))
        /\ \A i \in 1..(n + 1 + 1) :
             HeaderRoom(Len(fileNames')) <= longer[i] /\ longer[i] <= longer[n + 1 + 1]
    BY <1>9, <1>10, <2>1
  <2> QED BY <1>11, <2>2 DEF Laid, new
<1>13. Len(header') = n + 1
  BY <1>2, Packed, TypeParts, AppendProperties DEF ListInv, EntryRec
<1> QED BY <1>9, <1>12, <1>13

LEMMA PackKeeps == ASSUME ListInv, DataInv, Pack PROVE DataInv'
<1> PICK n : n = Len(header)
  OBVIOUS
<1> DEFINE content == disk[FileName]
<1>1. /\ phase' = "pack" /\ UNCHANGED <<fileNames, disk>> /\ FileName \in DOMAIN disk
      /\ FileName = fileNames[n + 1] /\ content \in Seq(Held)
      /\ original' = Append(original, content)
      /\ original \in Seq(Seq(Held)) /\ Len(original) = n /\ n \in Nat
      /\ header \in Seq(EntryRec)
      /\ header' = Append(header, [name |-> FileName, size |-> Len(Kept(content))])
      /\ [name |-> FileName, size |-> Len(Kept(content))] \in EntryRec
  BY Packed, TypeParts DEF DataInv, PackData, ListInv, EntryRec
<1> HIDE DEF content
<1>2. /\ original' \in Seq(Seq(Held)) /\ Len(original') = n + 1
      /\ \A i \in 1..n : original'[i] = original[i]
      /\ original'[n + 1] = content
  BY <1>1, AppendProperties
<1>3. /\ Len(header') = n + 1 /\ header'[n + 1].size = Len(Kept(content))
      /\ \A i \in 1..n : header'[i] = header[i]
  BY <1>1, AppendProperties
<1>4. ASSUME NEW i \in 1..(n + 1)
      PROVE  /\ fileNames[i] \in DOMAIN disk /\ original'[i] = disk[fileNames[i]]
             /\ header'[i].size = Len(Kept(original'[i]))
  <2>1. CASE i = n + 1
    BY <1>1, <1>2, <1>3, <2>1 DEF content
  <2>2. CASE i # n + 1
    <3>1. i \in 1..n
      BY <1>1, <2>2
    <3>2. /\ fileNames[i] \in DOMAIN disk /\ original[i] = disk[fileNames[i]]
          /\ header[i].size = Len(Kept(original[i]))
      BY <3>1, Packed DEF DataInv, PackData
    <3> QED BY <1>2, <1>3, <3>1, <3>2
  <2> QED BY <2>1, <2>2
<1>5. \E place : Laid(place, Len(header))' /\ pos' = place[Len(header') + 1]
  BY PackLays
<1>6. PackData'
  BY <1>1, <1>2, <1>3, <1>4, <1>5 DEF PackData
<1> QED BY <1>1, <1>2, <1>6 DEF DataInv

\* If the header fits, writing it touches no data.
LEMMA HeaderKeeps == ASSUME ListInv, DataInv, WriteHeader PROVE DataInv'
<1> PICK n : n = Len(fileNames)
  OBVIOUS
<1>1. /\ phase = "pack" /\ phase' = "packed" /\ UNCHANGED <<fileNames, disk, original>>
      /\ Len(header) = n /\ n \in Nat /\ n <= MaxFiles
      /\ archive'.header = header /\ Len(original) = n
      /\ original \in Seq(Seq(Held)) /\ fileNames \in Seq(Files)
      /\ \A i \in 1..n : /\ original[i] = disk[fileNames[i]]
                         /\ header[i].size = Len(Kept(original[i]))
  BY HeaderWritten, TypeParts DEF DataInv, PackData, ListInv
<1>2. HeaderData'
  <2>1. Len(original') = Len(fileNames') /\ Len(fileNames') = n
    BY <1>1
  <2>2. \A i \in 1..n : archive'.header[i].size = Len(Kept(original'[i]))
    BY <1>1
  <2>3. \A i, j \in 1..n : fileNames'[i] = fileNames'[j] => original'[i] = original'[j]
    BY <1>1
  <2> QED BY <2>1, <2>2, <2>3 DEF HeaderData
<1>3. ASSUME Fits' PROVE \E place : Laid(place, n)'
  <2> DEFINE room == HeaderRoom(n)
             len == HeaderLen(header)
             bytes == [i \in 1..len |-> HeaderByte]
             old == archive.bytes
             new == archive'.bytes
  <2>1. PICK place : Laid(place, n)
    BY <1>1 DEF DataInv, PackData
  <2>2. len \in Nat /\ len <= room
    <3>1. EntriesLen(fileNames) <= EntrySize * Len(fileNames)
      BY <1>1, <1>3 DEF Fits
    <3>2. len = IntSize + EntriesLen(fileNames) /\ len \in Nat
      BY HeaderWritten
    <3>3. EntriesLen(fileNames) \in Nat /\ EntrySize * n \in Nat /\ IntSize \in Nat
      BY <1>1, EntriesLenType, TarAssumption, Grows
    <3> HIDE DEF len
    <3> QED BY <3>1, <3>2, <3>3 DEF HeaderRoom
  <2>3. bytes \in Seq(NotEOF) /\ Len(bytes) = len
    <3>1. HeaderByte \in NotEOF
      BY DEF NotEOF
    <3> HIDE DEF len
    <3>2. bytes \in [1..len -> NotEOF]
      BY <3>1
    <3> HIDE DEF bytes
    <3> QED BY <2>2, <3>2
  <2>4. new = Written(old, 0, bytes) /\ old \in Seq(NotEOF) /\ Len(old) \in Nat
        /\ Hole \in NotEOF /\ 0 \in Nat
    BY HeaderWritten, TypeParts DEF ListInv, NotEOF
  <2>5. /\ new \in Seq(NotEOF) /\ Len(new) \in Nat /\ Len(new) >= Len(old)
        /\ \A i \in 1..Len(old) : 0 + Len(bytes) < i => new[i] = old[i]
    <3> HIDE DEF bytes, new, old
    <3> QED BY <2>3, <2>4, WrittenProperties, LenProperties
  <2>6. \A i \in 1..Len(old) : HeaderRoom(Len(fileNames)) < i /\ i <= place[n + 1] => new[i] = old[i]
    <3> SUFFICES ASSUME NEW i \in 1..Len(old), room < i PROVE new[i] = old[i]
      OBVIOUS
    <3>1. room \in Nat
      <4>1. n <= n
        BY <1>1
      <4> QED BY <1>1, <4>1, WithinBound
    <3> HIDE DEF room, len, bytes, new, old
    <3>2. 0 + Len(bytes) < i
      BY <2>2, <2>3, <3>1
    <3> QED BY <2>5, <3>2
  <2>7. Laid(place, n)'
    <3>1. n <= Len(original) /\ \A i \in 1..n : original'[i] = original[i]
      BY <1>1
    <3> QED BY <1>1, <2>1, <2>5, <2>6, <3>1, LaidStays
  <2> QED BY <2>7
<1> QED BY <1>1, <1>2, <1>3 DEF DataInv

LEMMA ReadKeeps == ASSUME ListInv, DataInv, ReadHeader PROVE DataInv'
<1> PICK n : n = Len(fileNames)
  OBVIOUS
<1>1. /\ phase = "packed" /\ phase' = "unpack" /\ header' = archive.header
      /\ pos' = HeaderRoom(Len(archive.header)) /\ UNCHANGED <<fileNames, archive, disk, original>>
  BY DEF ReadHeader
<1>2. n \in Nat /\ Len(archive.header) = n
  BY <1>1, TypeParts DEF ListInv, Listed
<1>3. HeaderData'
  BY <1>1 DEF DataInv, HeaderData
<1>4. UnpackData'
  <2>1. Len(fileNames') = n /\ Len(header') = n /\ n - n = 0
    BY <1>1, <1>2
  <2>2. \A i \in 1..n : header'[i] = archive'.header[0 + i]
    BY <1>1
  <2>3. ASSUME Fits' PROVE \E place : Laid(place, n)' /\ pos' = place[0 + 1]
    <3>1. Fits
      BY <1>1, <2>3 DEF Fits
    <3>2. PICK place : Laid(place, n)
      BY <1>1, <3>1 DEF DataInv
    <3>3. place[1] = pos'
      BY <1>1, <1>2, <3>2 DEF Laid
    <3>4. Laid(place, n)'
      BY <1>1, <3>2 DEF Laid
    <3> QED BY <3>3, <3>4
  <2>4. \A i \in 1..0 : Restored(i)'
    OBVIOUS
  <2> QED BY <2>1, <2>2, <2>3, <2>4 DEF UnpackData
<1> QED BY <1>1, <1>3, <1>4 DEF DataInv

LEMMA UnpackKeeps == ASSUME ListInv, DataInv, Unpack PROVE DataInv'
<1> PICK n : n = Len(fileNames)
  OBVIOUS
<1> PICK done : done = n - Len(header)
  OBVIOUS
<1> DEFINE entry == Head(header)
           copied == Copied(archive.bytes, pos, entry.size)
<1>1. /\ phase = "unpack" /\ phase' = "unpack" /\ UNCHANGED <<fileNames, archive, original>>
      /\ entry = header[1] /\ Len(header) \in Nat /\ Len(header') = Len(header) - 1
      /\ \A i \in 1..Len(header') : header'[i] = header[i + 1]
      /\ DOMAIN disk' = DOMAIN disk \cup {entry.name} /\ disk'[entry.name] = copied
      /\ \A f \in DOMAIN disk \ {entry.name} : disk'[f] = disk[f]
      /\ pos' = pos + Len(copied)
      /\ Len(header') \in Nat
  BY UnpackedOne, LenProperties
<1> HIDE DEF entry, copied
<1>2. /\ n \in Nat /\ done \in Nat /\ done + 1 \in 1..n /\ Len(header) = n - done
      /\ n - Len(header') = done + 1
  <2>1. Len(header) <= n /\ n \in Nat
    BY <1>1, TypeParts DEF ListInv, Within
  <2> QED BY <1>1, <2>1
<1>3. /\ \A i \in 1..n : /\ archive.header[i].name = fileNames[i]
                         /\ archive.header[i].size = Len(Kept(original[i]))
      /\ \A i, j \in 1..n : fileNames[i] = fileNames[j] => original[i] = original[j]
      /\ \A i \in 1..Len(header) : header[i] = archive.header[done + i]
      /\ original \in Seq(Seq(Held)) /\ Len(original) = n
  BY <1>1 DEF ListInv, Listed, DataInv, HeaderData, UnpackData
<1>4. entry.name = fileNames[done + 1] /\ entry.size = Len(Kept(original[done + 1]))
  <2>1. 1 \in 1..Len(header)
    BY <1>1, <1>2
  <2> QED BY <1>1, <1>2, <1>3, <2>1
<1>5. ASSUME Fits
      PROVE  copied = Kept(original[done + 1])
             /\ \E place : Laid(place, n) /\ pos' = place[done + 2]
  <2> DEFINE data == Kept(original[done + 1])
  <2>1. PICK place : Laid(place, n) /\ pos = place[done + 1]
    BY <1>1, <1>5 DEF DataInv, UnpackData
  <2>2. /\ place[done + 1 + 1] = pos + Len(data)
        /\ \A j \in 1..Len(data) :
             /\ pos + j <= Len(archive.bytes)
             /\ archive.bytes[pos + j] = data[j]
    BY <1>2, <2>1 DEF Laid
  <2>3. data \in Seq(Held) /\ \A j \in 1..Len(data) : data[j] # EOF
    <3>1. original[done + 1] \in Seq(Held)
      BY <1>2, <1>3, ElementOfSeq
    <3> QED BY <3>1, KeptProperties
  <2>4. archive.bytes \in Seq(Held) /\ pos \in Nat
    BY TypeParts DEF ListInv
  <2> HIDE DEF data
  <2>5. Copied(archive.bytes, pos, Len(data)) = data
    BY <2>2, <2>3, <2>4, DataCopied
  <2>6. copied = data
    BY <1>4, <2>5 DEF copied, data
  <2>7. pos' = place[done + 2]
    <3>1. done + 1 + 1 = done + 2
      BY <1>2
    <3> QED BY <1>1, <2>2, <2>6, <3>1
  <2> QED BY <2>1, <2>6, <2>7 DEF data
<1>6. ASSUME Fits, NEW i \in 1..(done + 1)
      PROVE  fileNames[i] \in DOMAIN disk' /\ disk'[fileNames[i]] = Kept(original[i])
  <2>1. i \in 1..n
    BY <1>2
  <2>2. CASE fileNames[i] = fileNames[done + 1]
    BY <1>1, <1>2, <1>3, <1>4, <1>5, <1>6, <2>1, <2>2
  <2>3. CASE fileNames[i] # fileNames[done + 1]
    <3>1. i \in 1..done
      BY <1>2, <2>3
    <3>2. fileNames[i] \in DOMAIN disk /\ disk[fileNames[i]] = Kept(original[i])
      BY <1>1, <1>6, <3>1 DEF DataInv, UnpackData, Restored
    <3> QED BY <1>1, <1>4, <2>3, <3>2
  <2> QED BY <2>2, <2>3
<1>7. \A i \in 1..Len(header') : header'[i] = archive'.header[done + 1 + i]
  <2> SUFFICES ASSUME NEW i \in 1..Len(header') PROVE header'[i] = archive.header[done + 1 + i]
    BY <1>1
  <2>1. i + 1 \in 1..Len(header) /\ done + (i + 1) = done + 1 + i
    BY <1>1, <1>2
  <2> QED BY <1>1, <1>3, <2>1
<1>8. UnpackData'
  <2>1. ASSUME Fits' PROVE /\ \E place : Laid(place, n)' /\ pos' = place[done + 1 + 1]
                           /\ \A i \in 1..(done + 1) : Restored(i)'
    <3>1. Fits
      BY <1>1, <2>1 DEF Fits
    <3>2. PICK place : Laid(place, n) /\ pos' = place[done + 2]
      BY <1>5, <3>1
    <3>3. Laid(place, n)'
      BY <1>1, <3>2 DEF Laid
    <3>4. done + 1 + 1 = done + 2
      BY <1>2
    <3>5. \A i \in 1..(done + 1) : Restored(i)'
      BY <1>1, <1>6, <3>1 DEF Restored
    <3> QED BY <3>2, <3>3, <3>4, <3>5
  <2>2. Len(fileNames') - Len(header') = done + 1 /\ Len(fileNames') = n
    BY <1>1, <1>2
  <2> QED BY <1>7, <2>1, <2>2 DEF UnpackData
<1>9. HeaderData'
  BY <1>1 DEF DataInv, HeaderData
<1> QED BY <1>1, <1>8, <1>9 DEF DataInv

LEMMA DataStep == ListInv /\ DataInv /\ [TarNext]_tarVars => DataInv'
<1> SUFFICES ASSUME ListInv, DataInv, [TarNext]_tarVars PROVE DataInv'
  OBVIOUS
<1>1. CASE InputMissing
  <2>1. phase' = "failed" /\ original' = original
    BY <1>1 DEF InputMissing
  <2> QED BY <2>1 DEF DataInv
<1>2. CASE OutputFails
  <2>1. phase' = "stuck" /\ original' = original
    BY <1>2 DEF OutputFails
  <2> QED BY <2>1 DEF DataInv
<1>3. CASE Unpacked
  <2>1. /\ phase = "unpack" /\ header = <<>> /\ phase' = "unpacked"
        /\ UNCHANGED <<fileNames, archive, disk, original>>
    BY <1>3 DEF Unpacked
  <2>2. Len(fileNames) - Len(header) = Len(fileNames)
    BY <2>1, EmptySeq, TypeParts DEF ListInv
  <2>3. ASSUME Fits' PROVE \A i \in 1..Len(fileNames) : Restored(i)'
    <3>1. Fits
      BY <2>1, <2>3 DEF Fits
    <3>2. \A i \in 1..Len(fileNames) : Restored(i)
      BY <2>1, <2>2, <3>1 DEF DataInv, UnpackData
    <3> QED BY <2>1, <3>2 DEF Restored
  <2>4. HeaderData'
    BY <2>1 DEF DataInv, HeaderData
  <2> QED BY <2>1, <2>3, <2>4 DEF DataInv
<1>4. CASE \E f \in Files : UserChanges(f)
  <2>1. phase = "packed" /\ UNCHANGED <<phase, fileNames, archive, original>>
    BY <1>4 DEF UserChanges
  <2>2. HeaderData'
    BY <2>1 DEF DataInv, HeaderData
  <2>3. ASSUME Fits' PROVE \E place : Laid(place, Len(fileNames))'
    <3>1. PICK place : Laid(place, Len(fileNames))
      BY <2>1, <2>3 DEF DataInv, Fits
    <3> PICK n : n = Len(fileNames)
      OBVIOUS
    <3>2. Laid(place, n)'
      BY <2>1, <3>1 DEF Laid
    <3> QED BY <2>1, <3>2
  <2> QED BY <2>1, <2>2, <2>3 DEF DataInv
<1>5. CASE UNCHANGED tarVars
  <2>1. UNCHANGED <<phase, fileNames, header, pos, archive, disk, original>>
    BY <1>5 DEF tarVars
  <2>2. PackData' = PackData /\ HeaderData' = HeaderData /\ UnpackData' = UnpackData /\ Fits' = Fits
    BY <2>1, ZenonT(40) DEF PackData, HeaderData, UnpackData, Laid, Restored, Fits
  <2>3. \A i : Restored(i)' = Restored(i)
    BY <2>1, Zenon DEF Restored
  <2>4. \A place : Laid(place, Len(fileNames))' = Laid(place, Len(fileNames))
    BY <2>1, Zenon DEF Laid
  <2> QED BY <2>1, <2>2, <2>3, <2>4 DEF DataInv
<1> QED BY <1>1, <1>2, <1>3, <1>4, <1>5, PackKeeps, HeaderKeeps, ReadKeeps, UnpackKeeps DEF TarNext

\* Of a file without such a byte that is all.
LEMMA KeptWhole ==
  ASSUME NEW content, \A k \in DOMAIN content : content[k] # EOF, content \in Seq(Held)
  PROVE  Kept(content) = content
<1> DEFINE I == {i \in 1..Len(content) : content[i] = EOF}
<1>1. I = {}
  BY LenProperties
<1>2. UpToEOF(content) = IF I # {} THEN CHOOSE x \in I : \A y \in I : x =< y ELSE 0
  BY DEF UpToEOF, SelectInSeq, Min
<1>3. UpToEOF(content) = 0
  BY <1>1, <1>2
<1> QED BY <1>3 DEF Kept

\* A file without a byte 255 that has gone through an archive whose names leave the header
\* its room comes back as it was when it was packed: for any files, names and lengths, and
\* with any files next to it.
THEOREM FilesComeBack == TarSpec => []RoundTrip
<1>1. ListInv /\ DataInv => RoundTrip
  <2> SUFFICES ASSUME ListInv, DataInv, phase = "unpacked", Fits,
                      NEW i \in DOMAIN fileNames, Plain(i)
               PROVE  ComesBack(i)
    BY DEF RoundTrip
  <2>1. i \in 1..Len(fileNames)
    BY TypeParts, LenProperties DEF ListInv
  <2>2. fileNames[i] \in DOMAIN disk /\ disk[fileNames[i]] = Kept(original[i])
    BY <2>1 DEF DataInv, Restored
  <2>3. original[i] \in Seq(Held)
    BY <2>1, ElementOfSeq DEF DataInv, HeaderData
  <2> QED BY <2>2, <2>3, KeptWhole DEF Plain, ComesBack
<1> QED BY <1>1, ListInit, ListStep, DataInit, DataStep, PTL DEF TarSpec

=============================================================================
