---------------------------- MODULE SincroProofs ----------------------------
(***************************************************************************)
(* The daemon, for any number of daemons, files, blocks and changes: its    *)
(* lock file, the types of its variables, and what it owes the destination *)
(* directory while it watches.                                             *)
(***************************************************************************)
EXTENDS Sincro, SequenceTheorems, TLAPS

USE DEF lockVars

Places == {"none", "refused"} \cup Working \cup Ending

PlacesOK == pc \in [Daemons -> Places] /\ robbed \in BOOLEAN

\* OneDaemon is inductive once pc is known to be a function.
LockInv == PlacesOK /\ OneDaemon

\* A daemon that moves within the places that need the lock, or away from them,
\* takes the lock from nobody.
LEMMA MovesKeepLock ==
    ASSUME LockInv, NEW p \in Daemons, NEW to \in Places,
           pc' = [pc EXCEPT ![p] = to], lockFile' = lockFile, robbed' = robbed,
           to \in Working => pc[p] \in Working
    PROVE  LockInv'
  BY DEF LockInv, PlacesOK, OneDaemon, Daemons

LEMMA StaysKeepLock ==
    ASSUME LockInv, pc' = pc, lockFile' = lockFile, robbed' = robbed
    PROVE  LockInv'
  BY DEF LockInv, PlacesOK, OneDaemon, Daemons

LEMMA LockInit == Init => LockInv
  BY DEF Init, LockInv, PlacesOK, OneDaemon, Places, Working, Looping, Handling, Daemons

\* The lock goes: with the only daemon that works, or under the hands of another, and then
\* that is remembered.
LEMMA UnlinkKeepsLock ==
    ASSUME LockInv, NEW p \in Daemons, UnlinkLock(p)
    PROVE  LockInv'
<1>1. \E to \in {"closing", "exit"} : pc' = [pc EXCEPT ![p] = to]
  BY DEF UnlinkLock, Go
<1>2. PlacesOK' /\ (~robbed' => ~robbed)
  <2>1. robbed \in BOOLEAN /\ robbed' \in BOOLEAN /\ (~robbed' => ~robbed)
    BY DEF UnlinkLock, LockInv, PlacesOK
  <2> QED BY <1>1, <2>1 DEF LockInv, PlacesOK, Places, Ending
<1>3. ASSUME ~robbed' PROVE \A r \in Daemons : pc'[r] \notin Working
  <2>1. ~ (\E r \in Daemons \ {p} : pc[r] \in Working)
    <3>1. CASE pc[p] = "late"
      BY <1>3, <3>1 DEF UnlinkLock
    <3>2. CASE pc[p] \in {"cleanup", "unlink"}
      BY <1>2, <1>3, <3>2 DEF LockInv, OneDaemon, Working
    <3> QED BY <3>1, <3>2 DEF UnlinkLock
  <2> QED BY <1>1, <2>1 DEF LockInv, PlacesOK, Working, Looping, Handling
<1> QED BY <1>2, <1>3 DEF LockInv, OneDaemon

LEMMA LockStep == LockInv /\ [Next]_vars => LockInv'
<1>. SUFFICES ASSUME LockInv, [Next]_vars PROVE LockInv'
  OBVIOUS
<1>. USE DEF Go, Handled
<1>1. CASE User
  <2>1. pc' = pc /\ lockFile' = lockFile /\ robbed' = robbed
    BY <1>1 DEF User, UserDoes, CreateFile, DeleteFile, ChangeMode, WriteFile,
                TruncateFile, MoveOut, MoveIn, RemoveSource
  <2>. QED BY <2>1, StaysKeepLock
<1>2. ASSUME NEW p \in Daemons, Daemon(p) PROVE LockInv'
  <2>. DEFINE Moves(to) == pc' = [pc EXCEPT ![p] = to] /\ lockFile' = lockFile /\ robbed' = robbed
  <2>1. CASE Lock(p)
    <3>1. CASE LockFree
      <4>1. ~robbed => \A r \in Daemons : pc[r] \notin Working
        BY <3>1 DEF LockFree, LockInv, OneDaemon
      <4>2. pc' = [pc EXCEPT ![p] = "locked"] /\ lockFile' = TRUE /\ robbed' = robbed
        BY <2>1, <3>1 DEF Lock
      <4>. QED
        BY <4>1, <4>2 DEF LockInv, PlacesOK, OneDaemon, Places, Working, Daemons
    <3>2. CASE ~LockFree
      <4>1. Moves("refused")
        BY <2>1, <3>2 DEF Lock
      <4>. QED
        BY <4>1, MovesKeepLock DEF Places, Working, Looping, Handling
    <3>. QED BY <3>1, <3>2
  <2>2. CASE UnlinkLock(p)
    BY <2>2, UnlinkKeepsLock
  <2>3. CASE Copia(p)
    BY <2>3, StaysKeepLock DEF Copia
  <2>4. CASE InstallHandlers(p) \/ WatchDir(p) \/ Check(p) \/ Poll(p) \/ Alarm(p)
               \/ ReadEvents(p) \/ QueueEmpty(p)
    <3>1. pc[p] \in Working /\ \E to \in Working : Moves(to)
      BY <2>4 DEF InstallHandlers, WatchDir, Check, Poll, Alarm, ReadEvents, QueueEmpty,
                  Working, Looping
    <3>. QED BY <3>1, MovesKeepLock DEF Places
  <2>5. CASE Dequeue(p) \/ Creat(p) \/ OpenDst(p) \/ OpenSrc(p) \/ CopiaEnds(p)
    <3>1. pc[p] \in Working /\ \E to \in Working : Moves(to)
      BY <2>5 DEF Dequeue, Creat, OpenDst, OpenSrc, CopiaEnds, Handler,
                  Working, Looping, Handling
    <3>. QED BY <3>1, MovesKeepLock DEF Places
  <2>6. CASE Stat(p)
    <3>1. pc[p] \in Working /\ \E to \in Working \cup {"ended"} : Moves(to)
      BY <2>6 DEF Stat, Working, Looping, Handling
    <3>. QED BY <3>1, MovesKeepLock DEF Places, Ending
  <2>7. CASE Exit(p)
    <3>1. Moves("ended")
      BY <2>7 DEF Exit
    <3>. QED BY <3>1, MovesKeepLock DEF Places, Ending, Working, Looping, Handling
  <2>. QED
    BY <1>2, <2>1, <2>2, <2>3, <2>4, <2>5, <2>6, <2>7 DEF Daemon
<1>3. ASSUME NEW p \in Daemons, Signal(p) PROVE LockInv'
  <2>1. lockFile' = lockFile /\ robbed' = robbed
    BY <1>3 DEF Signal, Sigint, Sigterm, Killed
  <2>2. CASE Sigint(p)
    <3>1. pc[p] \in Working /\ \E to \in {"check", pc[p]} : pc' = [pc EXCEPT ![p] = to]
      BY <2>2 DEF Sigint, Working
    <3>. QED BY <2>1, <3>1, MovesKeepLock DEF Places, Working, Looping
  <2>3. CASE Sigterm(p)
    <3>1. \/ pc[p] \in Working /\ pc' = [pc EXCEPT ![p] = "unlink"]
          \/ pc' = [pc EXCEPT ![p] = "late"]
      BY <2>3 DEF Sigterm, Working
    <3>. QED
      BY <2>1, <3>1, MovesKeepLock DEF Places, Ending, Working, Looping, Handling
  <2>4. CASE Killed(p)
    <3>1. pc' = [pc EXCEPT ![p] = "ended"]
      BY <2>4 DEF Killed
    <3>. QED BY <2>1, <3>1, MovesKeepLock DEF Places, Ending, Working, Looping, Handling
  <2>. QED BY <1>3, <2>2, <2>3, <2>4 DEF Signal
<1>4. CASE UNCHANGED vars
  BY <1>4, StaysKeepLock DEF vars
<1>. QED BY <1>1, <1>2, <1>3, <1>4 DEF Next

\* sincro.lock admits one working daemon at a time and is there as long as it works,
\* however many daemons are started and however they end, up to the moment when a daemon
\* is reached by SIGTERM after its own unlink and removes the lock of another.
THEOREM LockExcludes == Spec => []OneDaemon
<1>1. Spec => []LockInv
  BY LockInit, LockStep, PTL DEF Spec
<1>2. LockInv => OneDaemon
  BY DEF LockInv
<1>. QED BY <1>1, <1>2, PTL

-----------------------------------------------------------------------------
(* Types *)

\* What the kernel delivers.
FileKinds == {"CREATE", "DELETE", "MODIFY", "ATTRIB", "MOVED_FROM", "MOVED_TO"}
Ignored == [kind |-> "IGNORED", file |-> "NONE"]
Delivered == [kind : FileKinds, file : Files] \cup {Ignored}

\* The events the daemon has not begun to handle, in the order in which they happened.
Coming(p) == queue[p] \o kernel[p]

DaemonsTyped ==
    /\ pc \in [Daemons -> Places] /\ keepRunning \in [Daemons -> BOOLEAN]
    /\ watched \in [Daemons -> {0, 1}]
    /\ kernel \in [Daemons -> Seq(Delivered)] /\ queue \in [Daemons -> Seq(Delivered)]
    /\ event \in [Daemons -> EventType]
    /\ fdOri \in [Daemons -> 0..MaxInodes] /\ pos \in [Daemons -> 0..MaxLen]

\* The directories; a file has its i-node for itself.
StoreTyped ==
    /\ inodes \in 0..MaxInodes /\ srcDir \in BOOLEAN /\ unrepaired \subseteq Files
    /\ src \in [Files -> 0..MaxInodes] /\ \A f \in Files : src[f] <= inodes
    /\ \A f, g \in Files : src[f] = src[g] /\ src[f] # 0 => f = g
    /\ DOMAIN data = InodeIds
    /\ \A i \in InodeIds : data[i] \in Seq(Bytes) /\ Len(data[i]) <= MaxLen
    /\ DOMAIN dst \subseteq Files /\ \A f \in DOMAIN dst : dst[f] \in Seq(Bytes)

\* A handler has the event it is for, and nothing is left of it when it returns.
HandlerTyped(p) ==
    /\ pc[p] \in Handling => event[p] \in [kind : {"CREATE", "ATTRIB", "MODIFY"}, file : Files]
    /\ pc[p] = "stat" => event[p].kind # "MODIFY"
    /\ pc[p] = "creat" => event[p].kind = "CREATE"
    /\ pc[p] = "opendst" => event[p].kind = "MODIFY"
    /\ pc[p] \in {"opensrc", "copy"} => event[p].kind # "ATTRIB"
    /\ pc[p] \notin Handling => event[p] = NoEvent
    /\ pc[p] # "copy" => pos[p] = 0

\* The source directory goes once, and the daemon that watches it hears of it once.
IgnoredOnce(p) ==
    /\ \A i \in 1..Len(Coming(p)) : Coming(p)[i] = Ignored => ~srcDir /\ watched[p] = 1
    /\ \A i, j \in 1..Len(Coming(p)) :
         Coming(p)[i] = Ignored /\ Coming(p)[j] = Ignored => i = j

TypeInv ==
    /\ DaemonsTyped /\ lockFile \in BOOLEAN /\ StoreTyped
    /\ \A p \in Daemons : HandlerTyped(p) /\ IgnoredOnce(p)

LEMMA TypeGiven == TypeInv /\ PlacesOK => TypeOK
<1>1. Delivered \subseteq EventType
  BY DEF Delivered, FileKinds, Ignored, EventType, Kinds
<1>2. TypeInv => kernel \in [Daemons -> Seq(EventType)] /\ queue \in [Daemons -> Seq(EventType)]
  BY <1>1, SeqMonotonic DEF TypeInv, DaemonsTyped
<1> QED BY <1>2 DEF TypeInv, DaemonsTyped, StoreTyped, TypeOK, Places, PlacesOK

\* A daemon whose variables a step leaves alone, while the source directory stays.
Stands(r) ==
    /\ pc'[r] = pc[r] /\ watched'[r] = watched[r] /\ event'[r] = event[r]
    /\ fdOri'[r] = fdOri[r] /\ pos'[r] = pos[r]
    /\ queue'[r] = queue[r] /\ kernel'[r] = kernel[r]

LEMMA StandsTyped ==
  ASSUME NEW r \in Daemons, HandlerTyped(r), IgnoredOnce(r), Stands(r), srcDir' = srcDir
  PROVE  HandlerTyped(r)' /\ IgnoredOnce(r)'
<1>1. Coming(r)' = Coming(r)
  BY DEF Stands, Coming
<1>2. HandlerTyped(r)'
  BY DEF Stands, HandlerTyped
<1>3. IgnoredOnce(r)'
  BY <1>1 DEF Stands, IgnoredOnce
<1> QED BY <1>2, <1>3

\* A step of one daemon: the others stand.
LEMMA OneTyped ==
  ASSUME TypeInv, NEW p \in Daemons, \A r \in Daemons \ {p} : Stands(r), srcDir' = srcDir,
         DaemonsTyped', lockFile' \in BOOLEAN, StoreTyped', HandlerTyped(p)', IgnoredOnce(p)'
  PROVE  TypeInv'
<1> SUFFICES ASSUME NEW r \in Daemons PROVE (HandlerTyped(r) /\ IgnoredOnce(r))'
  BY DEF TypeInv
<1>1. CASE r = p
  BY <1>1
<1>2. CASE r # p
  BY <1>2, StandsTyped DEF TypeInv
<1> QED BY <1>1, <1>2

LEMMA StoreStays ==
  ASSUME StoreTyped, UNCHANGED <<srcDir, src, data, inodes, unrepaired, dst>>
  PROVE  StoreTyped'
BY DEF StoreTyped

\* Steps that only move a daemon from one place to another, outside the handlers.
LEMMA MoveTyped ==
  ASSUME TypeInv, NEW p \in Daemons, NEW to \in Places, pc' = [pc EXCEPT ![p] = to],
         to = pc[p] \/ (pc[p] \notin Handling /\ to \notin Handling),
         keepRunning' \in [Daemons -> BOOLEAN], lockFile' \in BOOLEAN,
         UNCHANGED <<watched, kernel, queue, event, fdOri, pos>>,
         UNCHANGED <<srcDir, src, data, inodes, unrepaired, dst>>
  PROVE  TypeInv'
<1>1. pc' \in [Daemons -> Places] /\ pc'[p] = to /\ \A r \in Daemons \ {p} : pc'[r] = pc[r]
  BY DEF TypeInv, DaemonsTyped
<1>2. DaemonsTyped'
  BY <1>1 DEF TypeInv, DaemonsTyped
<1>3. StoreTyped'
  BY StoreStays DEF TypeInv
<1>4. \A r \in Daemons \ {p} : Stands(r)
  BY <1>1 DEF Stands
<1>5. HandlerTyped(p)'
  BY <1>1 DEF TypeInv, HandlerTyped, Handling
<1>6. IgnoredOnce(p)'
  <2>1. Coming(p)' = Coming(p) /\ IgnoredOnce(p)
    BY DEF TypeInv, Coming
  <2> QED BY <2>1 DEF IgnoredOnce
<1> QED BY <1>2, <1>3, <1>4, <1>5, <1>6, OneTyped

LEMMA MovesTyped ==
  ASSUME TypeInv, NEW p \in Daemons,
         \/ Lock(p) \/ InstallHandlers(p) \/ Check(p) \/ Poll(p) \/ Alarm(p) \/ QueueEmpty(p)
         \/ UnlinkLock(p) \/ Sigint(p) \/ Killed(p)
  PROVE  TypeInv'
<1>1. /\ UNCHANGED <<watched, kernel, queue, event, fdOri, pos>>
      /\ UNCHANGED <<srcDir, src, data, inodes, unrepaired, dst>>
  BY DEF Lock, InstallHandlers, Check, Poll, Alarm, QueueEmpty, UnlinkLock, Sigint, Killed,
         daemonVars, dirVars
<1>2. keepRunning' \in [Daemons -> BOOLEAN] /\ lockFile' \in BOOLEAN
  <2>1. keepRunning' = keepRunning \/ keepRunning' = [keepRunning EXCEPT ![p] = FALSE]
    BY DEF Lock, InstallHandlers, Check, Poll, Alarm, QueueEmpty, UnlinkLock, Sigint, Killed,
           daemonVars
  <2>2. lockFile' = lockFile \/ lockFile' = TRUE \/ lockFile' = FALSE
    BY DEF Lock, InstallHandlers, Check, Poll, Alarm, QueueEmpty, UnlinkLock, Sigint, Killed
  <2>3. keepRunning \in [Daemons -> BOOLEAN] /\ lockFile \in BOOLEAN
    BY DEF TypeInv, DaemonsTyped
  <2> QED BY <2>1, <2>2, <2>3, Zenon
<1>3. CASE Lock(p)
  <2>1. pc[p] = "none" /\ \E to \in {"locked", "refused"} : pc' = [pc EXCEPT ![p] = to]
    BY <1>3 DEF Lock, Go
  <2> QED BY <1>1, <1>2, <2>1, MoveTyped DEF Places, Ending, Working, Looping, Handling
<1>4. CASE InstallHandlers(p)
  <2>1. pc[p] = "locked" /\ pc' = [pc EXCEPT ![p] = "init"]
    BY <1>4 DEF InstallHandlers, Go
  <2> QED BY <1>1, <1>2, <2>1, MoveTyped DEF Places, Ending, Working, Looping, Handling
<1>5. CASE Check(p)
  <2>1. pc[p] = "check" /\ \E to \in {"poll", "cleanup"} : pc' = [pc EXCEPT ![p] = to]
    BY <1>5 DEF Check, Go
  <2> QED BY <1>1, <1>2, <2>1, MoveTyped DEF Places, Ending, Working, Looping, Handling
<1>6. CASE Poll(p) \/ Alarm(p) \/ QueueEmpty(p)
  <2>1. pc[p] \in {"poll", "waiting", "take"}
        /\ \E to \in {"waiting", "check"} : pc' = [pc EXCEPT ![p] = to]
    BY <1>6 DEF Poll, Alarm, QueueEmpty, Go
  <2> QED BY <1>1, <1>2, <2>1, MoveTyped DEF Places, Ending, Working, Looping, Handling
<1>7. CASE UnlinkLock(p)
  <2>1. pc[p] \in {"cleanup", "unlink", "late"}
        /\ \E to \in {"closing", "exit"} : pc' = [pc EXCEPT ![p] = to]
    BY <1>7 DEF UnlinkLock, Go
  <2> QED BY <1>1, <1>2, <2>1, MoveTyped DEF Places, Ending, Working, Looping, Handling
<1>8. CASE Sigint(p)
  <2>1. CASE pc[p] = "waiting" /\ kernel[p] = <<>>
    <3>1. pc' = [pc EXCEPT ![p] = "check"]
      BY <1>8, <2>1 DEF Sigint
    <3> QED BY <1>1, <1>2, <2>1, <3>1, MoveTyped DEF Places, Ending, Working, Looping, Handling
  <2>2. CASE ~ (pc[p] = "waiting" /\ kernel[p] = <<>>)
    <3>1. pc' = [pc EXCEPT ![p] = pc[p]] /\ pc[p] \in Places
      BY <1>8, <2>2 DEF Sigint, TypeInv, DaemonsTyped
    <3> QED BY <1>1, <1>2, <3>1, MoveTyped
  <2> QED BY <2>1, <2>2
<1>9. CASE Killed(p)
  <2>1. pc[p] = "locked" /\ pc' = [pc EXCEPT ![p] = "ended"]
    BY <1>9 DEF Killed, Go
  <2> QED BY <1>1, <1>2, <2>1, MoveTyped DEF Places, Ending, Working, Looping, Handling
<1> QED BY <1>3, <1>4, <1>5, <1>6, <1>7, <1>8, <1>9

\* Steps that leave the loop for good, with nothing pending or nobody to look at it.
LEMMA LeavesTyped ==
  ASSUME TypeInv, NEW p \in Daemons, Exit(p) \/ Sigterm(p) \/ (Stat(p) /\ src[event[p].file] = 0)
  PROVE  TypeInv' /\ pc'[p] \in {"ended", "unlink", "late"} /\ \A r \in Daemons \ {p} : Stands(r)
<1>0. DaemonsTyped /\ HandlerTyped(p) /\ IgnoredOnce(p) /\ lockFile' = lockFile
      /\ UNCHANGED <<srcDir, src, data, inodes, unrepaired, dst>>
  BY DEF TypeInv, Exit, Sigterm, Stat, dirVars
<1>1. NoEvent \in EventType /\ <<>> \in Seq(Delivered) /\ 0 \in 0..MaxInodes /\ 0 \in 0..MaxLen
  BY EmptySeq, SincroAssumption DEF NoEvent, EventType, Kinds
<1>2. CASE Sigterm(p)
  <2>0. PICK to \in {"unlink", "late"} : pc' = [pc EXCEPT ![p] = to]
    BY <1>2 DEF Sigterm
  <2>1. /\ event' = [event EXCEPT ![p] = NoEvent]
        /\ fdOri' = [fdOri EXCEPT ![p] = 0] /\ pos' = [pos EXCEPT ![p] = 0]
        /\ UNCHANGED <<keepRunning, watched, kernel, queue>>
    BY <1>2 DEF Sigterm
  <2>2. DaemonsTyped'
    BY <1>0, <1>1, <2>0, <2>1 DEF DaemonsTyped, Places, Working, Ending
  <2>3. pc'[p] \in {"unlink", "late"} /\ event'[p] = NoEvent /\ pos'[p] = 0
    BY <1>0, <2>0, <2>1 DEF DaemonsTyped
  <2>4. \A r \in Daemons \ {p} : Stands(r)
    BY <1>0, <2>0, <2>1 DEF DaemonsTyped, Stands
  <2>5. Coming(p)' = Coming(p) /\ watched' = watched /\ srcDir' = srcDir
    BY <1>0, <2>1 DEF Coming
  <2>6. HandlerTyped(p)' /\ IgnoredOnce(p)'
    <3>1. HandlerTyped(p)'
      BY <2>3 DEF HandlerTyped, Handling
    <3>2. IgnoredOnce(p)'
      BY <1>0, <2>5 DEF IgnoredOnce
    <3> QED BY <3>1, <3>2
  <2>7. StoreTyped' /\ lockFile' \in BOOLEAN
    BY <1>0, StoreStays DEF TypeInv
  <2> QED BY <1>0, <2>2, <2>3, <2>4, <2>6, <2>7, OneTyped
<1>3. CASE Exit(p) \/ (Stat(p) /\ src[event[p].file] = 0)
  <2>1. /\ pc' = [pc EXCEPT ![p] = "ended"]
        /\ event' = event \/ event' = [event EXCEPT ![p] = NoEvent]
        /\ pc[p] \in Handling => event' = [event EXCEPT ![p] = NoEvent]
        /\ watched' = [watched EXCEPT ![p] = 0] /\ kernel' = [kernel EXCEPT ![p] = <<>>]
        /\ queue' = [queue EXCEPT ![p] = <<>>]
        /\ UNCHANGED <<keepRunning, fdOri, pos>> /\ pc[p] # "copy"
    BY <1>3 DEF Exit, Stat, Go, Handled, Handling
  <2>2. DaemonsTyped'
    BY <1>0, <1>1, <2>1 DEF DaemonsTyped, Places, Ending
  <2>3. pc'[p] = "ended" /\ event'[p] = NoEvent /\ pos'[p] = 0
    BY <1>0, <2>1 DEF DaemonsTyped, HandlerTyped
  <2>4. \A r \in Daemons \ {p} : Stands(r)
    BY <1>0, <2>1 DEF DaemonsTyped, Stands
  <2>5. Coming(p)' = <<>>
    <3>1. queue'[p] = <<>> /\ kernel'[p] = <<>>
      BY <1>0, <2>1 DEF DaemonsTyped
    <3> QED BY <1>1, <3>1, ConcatEmptySeq DEF Coming
  <2>6. HandlerTyped(p)' /\ IgnoredOnce(p)'
    <3>1. HandlerTyped(p)'
      BY <2>3 DEF HandlerTyped, Handling
    <3>2. IgnoredOnce(p)'
      BY <1>1, <2>5, EmptySeq DEF IgnoredOnce
    <3> QED BY <3>1, <3>2
  <2>7. StoreTyped' /\ lockFile' \in BOOLEAN
    BY <1>0, StoreStays DEF TypeInv
  <2> QED BY <1>0, <2>2, <2>3, <2>4, <2>6, <2>7, OneTyped
<1> QED BY <1>2, <1>3

LEMMA WatchTyped ==
  ASSUME TypeInv, NEW p \in Daemons, WatchDir(p)
  PROVE  TypeInv' /\ \A r \in Daemons \ {p} : Stands(r)
<1>1. /\ pc[p] = "init" /\ UNCHANGED <<kernel, queue, event, fdOri, pos, keepRunning, lockFile>>
      /\ UNCHANGED <<srcDir, src, data, inodes, unrepaired, dst>>
      /\ \E to \in {"check", "cleanup"} : pc' = [pc EXCEPT ![p] = to]
      /\ watched' = watched \/ (srcDir /\ watched' = [watched EXCEPT ![p] = 1])
  BY DEF WatchDir, Go, dirVars
<1>2. DaemonsTyped /\ HandlerTyped(p) /\ IgnoredOnce(p) /\ StoreTyped /\ lockFile \in BOOLEAN
  BY DEF TypeInv
<1>3. DaemonsTyped' /\ pc'[p] \in {"check", "cleanup"}
  BY <1>1, <1>2 DEF DaemonsTyped, Places, Working, Looping
<1>4. \A r \in Daemons \ {p} : Stands(r)
  BY <1>1, <1>2 DEF DaemonsTyped, Stands
<1>5. HandlerTyped(p)'
  BY <1>1, <1>2, <1>3 DEF HandlerTyped, Handling
<1>6. IgnoredOnce(p)'
  <2>1. Coming(p)' = Coming(p) /\ srcDir' = srcDir /\ (watched'[p] = watched[p] \/ srcDir)
    BY <1>1 DEF Coming
  <2> QED BY <1>2, <2>1 DEF IgnoredOnce
<1>7. StoreTyped' /\ lockFile' \in BOOLEAN
  BY <1>1, <1>2, StoreStays
<1> QED BY <1>1, <1>3, <1>4, <1>5, <1>6, <1>7, OneTyped

\* The provers find an instance of associativity only under a name.
Associative(a, b, c) == (a \o b) \o c = a \o (b \o c)

LEMMA Associates ==
  ASSUME NEW S, NEW a \in Seq(S), NEW b \in Seq(S), NEW c \in Seq(S)
  PROVE  Associative(a, b, c)
BY ConcatAssociative DEF Associative

\* A sequence that is cut and put together behind another one.
LEMMA CutAndJoined ==
  ASSUME NEW S, NEW q \in Seq(S), NEW k \in Seq(S), NEW n \in 1..Len(k)
  PROVE  /\ q \o SubSeq(k, 1, n) \in Seq(S) /\ SubSeq(k, n + 1, Len(k)) \in Seq(S)
         /\ (q \o SubSeq(k, 1, n)) \o SubSeq(k, n + 1, Len(k)) = q \o k
<1>1. Len(k) \in Nat
  BY LenProperties
<1>2. SubSeq(k, 1, n) \in Seq(S) /\ SubSeq(k, n + 1, Len(k)) \in Seq(S)
  <2>1. (\A i \in 1..n : k[i] \in S) /\ \A i \in (n + 1)..Len(k) : k[i] \in S
    BY <1>1, ElementOfSeq
  <2>2. 1 \in Int /\ n \in Int /\ n + 1 \in Int /\ Len(k) \in Int
    BY <1>1
  <2> QED BY <2>1, <2>2, SubSeqProperties
<1>3. SubSeq(k, 1, n) \o SubSeq(k, n + 1, Len(k)) = k
  <2>1. 1 \in 1..(Len(k) + 1) /\ n \in 1 - 1..Len(k) /\ Len(k) \in n..Len(k)
    BY <1>1
  <2>2. SubSeq(k, 1, n) \o SubSeq(k, n + 1, Len(k)) = SubSeq(k, 1, Len(k))
    BY <2>1, ConcatAdjacentSubSeq
  <2> QED BY <2>2, SubSeqFull
<1>4. q \o SubSeq(k, 1, n) \in Seq(S)
  BY <1>2, ConcatProperties
<1>5. (q \o SubSeq(k, 1, n)) \o SubSeq(k, n + 1, Len(k))
        = q \o (SubSeq(k, 1, n) \o SubSeq(k, n + 1, Len(k)))
  <2> DEFINE b == SubSeq(k, 1, n)
             c == SubSeq(k, n + 1, Len(k))
  <2>1. b \in Seq(S) /\ c \in Seq(S)
    BY <1>2
  <2> HIDE DEF b, c
  <2>2. Associative(q, b, c)
    BY <2>1, Associates
  <2> QED BY <2>2 DEF Associative, b, c
<1> QED BY <1>2, <1>3, <1>4, <1>5

\* Taking events from the kernel into the queue changes nothing of their order.
LEMMA ReadOrder ==
  ASSUME TypeInv, NEW p \in Daemons, ReadEvents(p)
  PROVE  /\ queue' \in [Daemons -> Seq(Delivered)] /\ kernel' \in [Daemons -> Seq(Delivered)]
         /\ Coming(p)' = Coming(p)
         /\ \A r \in Daemons \ {p} : queue'[r] = queue[r] /\ kernel'[r] = kernel[r]
<1>1. PICK n \in 1..Len(kernel[p]) :
        /\ queue' = [queue EXCEPT ![p] = @ \o SubSeq(kernel[p], 1, n)]
        /\ kernel' = [kernel EXCEPT ![p] = SubSeq(@, n + 1, Len(@))]
  BY DEF ReadEvents, Parsed
<1>2. kernel \in [Daemons -> Seq(Delivered)] /\ queue \in [Daemons -> Seq(Delivered)]
  BY DEF TypeInv, DaemonsTyped
<1> DEFINE q1 == queue[p] \o SubSeq(kernel[p], 1, n)
           k1 == SubSeq(kernel[p], n + 1, Len(kernel[p]))
<1>3. q1 \in Seq(Delivered) /\ k1 \in Seq(Delivered) /\ q1 \o k1 = queue[p] \o kernel[p]
  <2>1. queue[p] \in Seq(Delivered) /\ kernel[p] \in Seq(Delivered)
    BY <1>2
  <2> QED BY ZenonT(40), <2>1, CutAndJoined
<1>4. queue' = [queue EXCEPT ![p] = q1] /\ kernel' = [kernel EXCEPT ![p] = k1]
  BY <1>1
<1> HIDE DEF q1, k1
<1>5. /\ queue' \in [Daemons -> Seq(Delivered)] /\ kernel' \in [Daemons -> Seq(Delivered)]
      /\ queue'[p] = q1 /\ kernel'[p] = k1
      /\ \A r \in Daemons \ {p} : queue'[r] = queue[r] /\ kernel'[r] = kernel[r]
  BY <1>2, <1>3, <1>4
<1>6. Coming(p)' = Coming(p)
  BY <1>3, <1>5 DEF Coming
<1> QED BY <1>5, <1>6

LEMMA ReadTyped ==
  ASSUME TypeInv, NEW p \in Daemons, ReadEvents(p)
  PROVE  TypeInv' /\ \A r \in Daemons \ {p} : Stands(r)
<1>1. /\ pc[p] = "waiting" /\ pc' = [pc EXCEPT ![p] = "take"]
      /\ UNCHANGED <<keepRunning, watched, event, fdOri, pos, lockFile>>
      /\ UNCHANGED <<srcDir, src, data, inodes, unrepaired, dst>>
  BY DEF ReadEvents, Go, dirVars
<1>2. DaemonsTyped /\ HandlerTyped(p) /\ IgnoredOnce(p) /\ StoreTyped /\ lockFile \in BOOLEAN
  BY DEF TypeInv
<1>3. DaemonsTyped' /\ pc'[p] = "take"
  BY <1>1, <1>2, ReadOrder DEF DaemonsTyped, Places, Working, Looping
<1>4. \A r \in Daemons \ {p} : Stands(r)
  BY <1>1, <1>2, ReadOrder DEF DaemonsTyped, Stands
<1>5. HandlerTyped(p)'
  BY <1>1, <1>2, <1>3 DEF HandlerTyped, Handling
<1>6. IgnoredOnce(p)'
  BY <1>1, <1>2, ReadOrder DEF IgnoredOnce
<1>7. StoreTyped' /\ lockFile' \in BOOLEAN
  BY <1>1, <1>2, StoreStays
<1> QED BY <1>1, <1>3, <1>4, <1>5, <1>6, <1>7, OneTyped

\* The event that is taken is the first of those to come.
LEMMA TakenOrder ==
  ASSUME TypeInv, NEW p \in Daemons, Dequeue(p)
  PROVE  /\ queue' \in [Daemons -> Seq(Delivered)] /\ kernel' = kernel
         /\ \A r \in Daemons \ {p} : queue'[r] = queue[r]
         /\ Coming(p) \in Seq(Delivered) /\ Len(Coming(p)) \in Nat \ {0}
         /\ Head(queue[p]) = Coming(p)[1] /\ Coming(p)[1] \in Delivered
         /\ Coming(p)' \in Seq(Delivered) /\ Len(Coming(p)') = Len(Coming(p)) - 1
         /\ \A j \in 1..Len(Coming(p)') : Coming(p)'[j] = Coming(p)[j + 1]
<1> DEFINE q == queue[p]
           k == kernel[p]
<1>1. q # <<>> /\ queue' = [queue EXCEPT ![p] = Tail(@)] /\ kernel' = kernel
  BY DEF Dequeue
<1>2. /\ queue \in [Daemons -> Seq(Delivered)] /\ q \in Seq(Delivered) /\ k \in Seq(Delivered)
      /\ Len(k) \in Nat
  BY LenProperties DEF TypeInv, DaemonsTyped
<1>3. /\ Head(q) \in Delivered /\ Head(q) = q[1] /\ Tail(q) \in Seq(Delivered)
      /\ Len(q) \in Nat \ {0} /\ Len(Tail(q)) = Len(q) - 1
      /\ \A i \in 1..Len(Tail(q)) : Tail(q)[i] = q[i + 1]
  <2> HIDE DEF q
  <2> QED BY <1>1, <1>2, HeadTailProperties, EmptySeq
<1>4. queue'[p] = Tail(q) /\ kernel'[p] = k
  BY <1>1, <1>2
<1> HIDE DEF q, k
<1>5. /\ q \o k \in Seq(Delivered) /\ Len(q \o k) = Len(q) + Len(k)
      /\ \A i \in 1..(Len(q) + Len(k)) : (q \o k)[i] = IF i <= Len(q) THEN q[i] ELSE k[i - Len(q)]
      /\ Tail(q) \o k \in Seq(Delivered) /\ Len(Tail(q) \o k) = Len(Tail(q)) + Len(k)
      /\ \A i \in 1..(Len(Tail(q)) + Len(k)) :
           (Tail(q) \o k)[i] = IF i <= Len(Tail(q)) THEN Tail(q)[i] ELSE k[i - Len(Tail(q))]
  BY <1>2, <1>3, ConcatProperties
<1>6. ASSUME NEW j \in 1..Len(Tail(q) \o k) PROVE (Tail(q) \o k)[j] = (q \o k)[j + 1]
  <2>1. CASE j <= Len(Tail(q))
    BY <1>2, <1>3, <1>5, <2>1
  <2>2. CASE ~ (j <= Len(Tail(q)))
    <3>1. j - Len(Tail(q)) = j + 1 - Len(q) /\ j + 1 \in 1..(Len(q) + Len(k)) /\ ~ (j + 1 <= Len(q))
          /\ j \in 1..(Len(Tail(q)) + Len(k))
      BY <1>2, <1>3, <1>5, <2>2
    <3> QED BY <1>5, <2>2, <3>1
  <2> QED BY <2>1, <2>2
<1>7. Coming(p) = q \o k /\ Coming(p)' = Tail(q) \o k
  BY <1>4 DEF Coming, q, k
<1>8. (q \o k)[1] = q[1]
  BY <1>2, <1>3, <1>5
<1>9. queue' \in [Daemons -> Seq(Delivered)] /\ \A r \in Daemons \ {p} : queue'[r] = queue[r]
  BY <1>1, <1>2, <1>3 DEF q
<1>10. Len(q \o k) \in Nat \ {0} /\ Len(Tail(q) \o k) = Len(q \o k) - 1
  BY <1>2, <1>3, <1>5
<1> QED BY <1>1, <1>3, <1>5, <1>6, <1>7, <1>8, <1>9, <1>10 DEF q

LEMMA DequeueTyped ==
  ASSUME TypeInv, NEW p \in Daemons, Dequeue(p)
  PROVE  TypeInv' /\ \A r \in Daemons \ {p} : Stands(r)
<1> DEFINE e == Head(queue[p])
<1>1. /\ pc[p] = "take" /\ pc' = [pc EXCEPT ![p] = Handler(e.kind)]
      /\ event' = [event EXCEPT ![p] = IF Handler(e.kind) = "take" THEN NoEvent ELSE e]
      /\ watched' = [watched EXCEPT ![p] = WatchedAfter(e.kind, @)]
      /\ dst' = [f \in DOMAIN dst \ {x \in Files : e = [kind |-> "DELETE", file |-> x]} |-> dst[f]]
      /\ UNCHANGED <<keepRunning, fdOri, pos, lockFile>>
      /\ UNCHANGED <<srcDir, src, data, inodes, unrepaired>>
  BY DEF Dequeue, Go, dirVars
<1>2. DaemonsTyped /\ HandlerTyped(p) /\ IgnoredOnce(p) /\ StoreTyped /\ lockFile \in BOOLEAN
  BY DEF TypeInv
<1>3. /\ e = Coming(p)[1] /\ e \in Delivered /\ Len(Coming(p)) \in Nat \ {0}
      /\ Coming(p)' \in Seq(Delivered) /\ Len(Coming(p)') = Len(Coming(p)) - 1
      /\ \A j \in 1..Len(Coming(p)') : Coming(p)'[j] = Coming(p)[j + 1]
  BY TakenOrder
<1> HIDE DEF e
<1>4. /\ Handler(e.kind) \in {"take", "stat", "opendst"}
      /\ Handler(e.kind) = "stat" <=> e.kind \in {"CREATE", "ATTRIB"}
      /\ Handler(e.kind) = "opendst" <=> e.kind = "MODIFY"
  BY DEF Handler
<1>5. e.kind = "IGNORED" <=> e = Ignored
  BY <1>3 DEF Delivered, Ignored, FileKinds
<1>6. WatchedAfter(e.kind, watched[p]) \in {0, 1}
  <2>1. CASE e = Ignored
    <3>1. watched[p] = 1
      <4>1. 1 \in 1..Len(Coming(p)) /\ Coming(p)[1] = Ignored
        BY <1>3, <2>1
      <4> QED BY <1>2, <4>1 DEF IgnoredOnce
    <3> QED BY <1>5, <2>1, <3>1 DEF WatchedAfter
  <2>2. CASE e # Ignored
    BY <1>2, <1>5, <2>2 DEF WatchedAfter, DaemonsTyped
  <2> QED BY <2>1, <2>2
<1>7. e \in EventType /\ NoEvent \in EventType
  BY <1>3 DEF Delivered, Ignored, FileKinds, NoEvent, EventType, Kinds
<1>8. DaemonsTyped'
  BY <1>1, <1>2, <1>4, <1>6, <1>7, TakenOrder DEF DaemonsTyped, Places, Working, Looping, Handling
<1>9. \A r \in Daemons \ {p} : Stands(r)
  BY <1>1, <1>2, TakenOrder DEF DaemonsTyped, Stands
<1>10. HandlerTyped(p)'
  <2>1. /\ pc'[p] = Handler(e.kind) /\ pos'[p] = 0
        /\ event'[p] = IF Handler(e.kind) = "take" THEN NoEvent ELSE e
    BY <1>1, <1>2 DEF DaemonsTyped, HandlerTyped
  <2>2. e.kind \in {"CREATE", "ATTRIB", "MODIFY"} =>
          e \in [kind : {"CREATE", "ATTRIB", "MODIFY"}, file : Files]
    BY <1>3 DEF Delivered, Ignored
  <2> QED BY <1>4, <2>1, <2>2 DEF HandlerTyped, Handling
<1>11. IgnoredOnce(p)'
  <2>1. ASSUME NEW i \in 1..Len(Coming(p)'), Coming(p)'[i] = Ignored
        PROVE  ~srcDir' /\ watched'[p] = 1 /\ e # Ignored
    <3>1. i + 1 \in 1..Len(Coming(p)) /\ 1 \in 1..Len(Coming(p)) /\ i + 1 # 1
      BY <1>3
    <3>2. Coming(p)[i + 1] = Ignored
      BY <1>3, <2>1
    <3>3. ~srcDir /\ watched[p] = 1 /\ e # Ignored
      BY <1>2, <1>3, <3>1, <3>2 DEF IgnoredOnce
    <3>4. watched'[p] = WatchedAfter(e.kind, watched[p])
      BY <1>1, <1>2 DEF DaemonsTyped
    <3> QED BY <1>1, <1>5, <3>3, <3>4 DEF WatchedAfter
  <2>2. ASSUME NEW i \in 1..Len(Coming(p)'), NEW j \in 1..Len(Coming(p)'),
               Coming(p)'[i] = Ignored, Coming(p)'[j] = Ignored
        PROVE  i = j
    <3>1. i + 1 \in 1..Len(Coming(p)) /\ j + 1 \in 1..Len(Coming(p))
      BY <1>3
    <3>2. Coming(p)[i + 1] = Ignored /\ Coming(p)[j + 1] = Ignored
      BY <1>3, <2>2
    <3>3. i + 1 = j + 1
      BY <1>2, <3>1, <3>2 DEF IgnoredOnce
    <3> QED BY <3>3
  <2> QED BY <2>1, <2>2 DEF IgnoredOnce
<1>12. StoreTyped'
  BY <1>1, <1>2 DEF StoreTyped
<1>13. lockFile' \in BOOLEAN /\ srcDir' = srcDir
  BY <1>1, <1>2
<1> QED BY <1>8, <1>9, <1>10, <1>11, <1>12, <1>13, OneTyped

\* The steps of a handler leave the events to come alone.
LEMMA HandlerSteps ==
  ASSUME TypeInv, NEW p \in Daemons,
         \/ Stat(p) /\ src[event[p].file] # 0
         \/ Creat(p) \/ OpenDst(p) \/ OpenSrc(p) \/ Copia(p) \/ CopiaEnds(p)
  PROVE  /\ UNCHANGED <<keepRunning, watched, kernel, queue, lockFile>>
         /\ UNCHANGED <<srcDir, src, data, inodes, unrepaired>>
         /\ Coming(p)' = Coming(p) /\ event[p].file \in Files /\ pc[p] \in Handling
<1>1. /\ UNCHANGED <<keepRunning, watched, kernel, queue, lockFile>>
      /\ UNCHANGED <<srcDir, src, data, inodes, unrepaired>>
  BY DEF Stat, Handled, Creat, OpenDst, OpenSrc, Copia, CopiaEnds, daemonVars, dirVars
<1>2. pc[p] \in Handling
  BY DEF Stat, Handled, Creat, OpenDst, OpenSrc, Copia, CopiaEnds, Go, Handling
<1>3. event[p].file \in Files
  BY <1>2 DEF TypeInv, HandlerTyped
<1>4. Coming(p)' = Coming(p)
  BY <1>1 DEF Coming
<1> QED BY <1>1, <1>2, <1>3, <1>4

LEMMA HandlersTyped ==
  ASSUME TypeInv, NEW p \in Daemons,
         \/ Stat(p) /\ src[event[p].file] # 0
         \/ Creat(p) \/ OpenDst(p) \/ OpenSrc(p) \/ Copia(p) \/ CopiaEnds(p)
  PROVE  TypeInv' /\ \A r \in Daemons \ {p} : Stands(r)
<1>0. DaemonsTyped /\ HandlerTyped(p) /\ IgnoredOnce(p) /\ StoreTyped /\ lockFile \in BOOLEAN
  BY DEF TypeInv
<1> DEFINE f == event[p].file
<1>1. /\ UNCHANGED <<keepRunning, watched, kernel, queue, lockFile>>
      /\ UNCHANGED <<srcDir, src, data, inodes, unrepaired>>
      /\ Coming(p)' = Coming(p) /\ f \in Files
  BY HandlerSteps
<1>2. IgnoredOnce(p)'
  BY <1>0, <1>1 DEF IgnoredOnce
<1>3. lockFile' \in BOOLEAN /\ srcDir' = srcDir
  BY <1>0, <1>1
<1>4. NoEvent \in EventType /\ 0 \in 0..MaxInodes /\ 0 \in 0..MaxLen
  BY SincroAssumption DEF NoEvent, EventType, Kinds
<1>5. CASE (Stat(p) /\ src[f] # 0 /\ event[p].kind # "CREATE") \/ CopiaEnds(p)
           \/ (OpenDst(p) /\ f \notin DOMAIN dst)
  <2>1. /\ pc' = [pc EXCEPT ![p] = "take"] /\ event' = [event EXCEPT ![p] = NoEvent]
        /\ fdOri' = [fdOri EXCEPT ![p] = 0] /\ pos' = [pos EXCEPT ![p] = 0] /\ dst' = dst
    BY <1>5 DEF Stat, OpenDst, CopiaEnds, Handled, Go
  <2>2. DaemonsTyped' /\ pc'[p] = "take" /\ event'[p] = NoEvent /\ pos'[p] = 0
    BY <1>0, <1>1, <1>4, <2>1 DEF DaemonsTyped, Places, Working, Looping
  <2>3. \A r \in Daemons \ {p} : Stands(r)
    BY <1>0, <1>1, <2>1 DEF DaemonsTyped, Stands
  <2>4. HandlerTyped(p)'
    BY <2>2 DEF HandlerTyped, Handling
  <2>5. StoreTyped'
    BY <1>0, <1>1, <2>1, StoreStays
  <2> QED BY <1>2, <1>3, <2>2, <2>3, <2>4, <2>5, OneTyped
<1>6. CASE Stat(p) /\ src[f] # 0 /\ event[p].kind = "CREATE"
  <2>1. /\ pc[p] = "stat" /\ pc' = [pc EXCEPT ![p] = "creat"] /\ UNCHANGED <<event, fdOri, pos, dst>>
    BY <1>6 DEF Stat, Go
  <2>2. DaemonsTyped' /\ pc'[p] = "creat"
    BY <1>0, <1>1, <2>1 DEF DaemonsTyped, Places, Working, Looping, Handling
  <2>3. \A r \in Daemons \ {p} : Stands(r)
    BY <1>0, <1>1, <2>1 DEF DaemonsTyped, Stands
  <2>4. HandlerTyped(p)'
    BY <1>0, <1>6, <2>1, <2>2 DEF HandlerTyped, Handling
  <2>5. StoreTyped'
    BY <1>0, <1>1, <2>1, StoreStays
  <2> QED BY <1>2, <1>3, <2>2, <2>3, <2>4, <2>5, OneTyped
<1>7. CASE Creat(p)
  <2>1. /\ pc[p] = "creat" /\ pc' = [pc EXCEPT ![p] = "opensrc"] /\ UNCHANGED <<event, fdOri, pos>>
        /\ dst' = [x \in DOMAIN dst \cup {f} |-> IF x = f THEN <<>> ELSE dst[x]]
    BY <1>7 DEF Creat, Go, daemonVars
  <2>2. DaemonsTyped' /\ pc'[p] = "opensrc"
    BY <1>0, <1>1, <2>1 DEF DaemonsTyped, Places, Working, Looping, Handling
  <2>3. \A r \in Daemons \ {p} : Stands(r)
    BY <1>0, <1>1, <2>1 DEF DaemonsTyped, Stands
  <2>4. HandlerTyped(p)'
    BY <1>0, <2>1, <2>2 DEF HandlerTyped, Handling
  <2>5. StoreTyped'
    <3>1. <<>> \in Seq(Bytes)
      BY EmptySeq
    <3> HIDE DEF f
    <3> QED BY <1>0, <1>1, <2>1, <3>1 DEF StoreTyped
  <2> QED BY <1>2, <1>3, <2>2, <2>3, <2>4, <2>5, OneTyped
<1>8. CASE OpenDst(p) /\ f \in DOMAIN dst
  <2>1. /\ pc[p] = "opendst" /\ pc' = [pc EXCEPT ![p] = "opensrc"]
        /\ UNCHANGED <<event, fdOri, pos, dst>>
    BY <1>8 DEF OpenDst, Go
  <2>2. DaemonsTyped' /\ pc'[p] = "opensrc"
    BY <1>0, <1>1, <2>1 DEF DaemonsTyped, Places, Working, Looping, Handling
  <2>3. \A r \in Daemons \ {p} : Stands(r)
    BY <1>0, <1>1, <2>1 DEF DaemonsTyped, Stands
  <2>4. HandlerTyped(p)'
    BY <1>0, <2>1, <2>2 DEF HandlerTyped, Handling
  <2>5. StoreTyped'
    BY <1>0, <1>1, <2>1, StoreStays
  <2> QED BY <1>2, <1>3, <2>2, <2>3, <2>4, <2>5, OneTyped
<1>9. CASE OpenSrc(p)
  <2>1. /\ pc[p] = "opensrc" /\ pc' = [pc EXCEPT ![p] = "copy"] /\ UNCHANGED <<event, pos, dst>>
        /\ fdOri' = [fdOri EXCEPT ![p] = src[f]]
    BY <1>9 DEF OpenSrc, Go
  <2>2. src[f] \in 0..MaxInodes
    BY <1>0, <1>1 DEF StoreTyped
  <2> HIDE DEF f
  <2>3. DaemonsTyped' /\ pc'[p] = "copy"
    BY <1>0, <1>1, <2>1, <2>2 DEF DaemonsTyped, Places, Working, Looping, Handling
  <2>4. \A r \in Daemons \ {p} : Stands(r)
    BY <1>0, <1>1, <2>1 DEF DaemonsTyped, Stands
  <2>5. HandlerTyped(p)'
    BY <1>0, <2>1, <2>3 DEF HandlerTyped, Handling
  <2>6. StoreTyped'
    BY <1>0, <1>1, <2>1, StoreStays
  <2> QED BY <1>2, <1>3, <2>3, <2>4, <2>5, <2>6, OneTyped
<1>10. CASE Copia(p)
  <2> DEFINE d == data[fdOri[p]]
             block == d[pos[p] + 1]
             copied == IF pos[p] < Len(dst[f]) THEN [dst[f] EXCEPT ![pos[p] + 1] = block]
                       ELSE Append(dst[f], block)
  <2>1. /\ pc[p] = "copy" /\ UNCHANGED <<pc, event, fdOri>> /\ ~AtEnd(p)
        /\ pos' = [pos EXCEPT ![p] = @ + 1]
        /\ dst' = [dst EXCEPT ![f] = copied]
    BY <1>10 DEF Copia
  <2>2. fdOri[p] \in 0..MaxInodes /\ fdOri[p] # 0 /\ pos[p] < Len(d) /\ pos[p] \in 0..MaxLen
    <3>1. fdOri[p] \in 0..MaxInodes /\ pos[p] \in 0..MaxLen
      BY <1>0 DEF DaemonsTyped
    <3>2. fdOri[p] # 0 /\ ~ (pos[p] >= Len(d))
      BY <2>1 DEF AtEnd
    <3>3. d \in Seq(Bytes)
      BY <1>0, <3>1, <3>2, SincroAssumption DEF StoreTyped, InodeIds
    <3> QED BY <3>1, <3>2, <3>3, LenProperties
  <2>3. d \in Seq(Bytes) /\ Len(d) <= MaxLen /\ Len(d) \in Nat
    BY <1>0, <2>2, LenProperties, SincroAssumption DEF StoreTyped, InodeIds
  <2>4. block \in Bytes
    <3>1. pos[p] + 1 \in 1..Len(d)
      BY <2>2, <2>3
    <3> QED BY <2>3, <3>1, ElementOfSeq
  <2>5. pos[p] + 1 \in 0..MaxLen
    <3> HIDE DEF d
    <3> QED BY <2>2, <2>3, SincroAssumption
  <2>6. DaemonsTyped' /\ pc'[p] = "copy"
    BY <1>0, <1>1, <2>1, <2>5 DEF DaemonsTyped
  <2>7. \A r \in Daemons \ {p} : Stands(r)
    BY <1>0, <1>1, <2>1 DEF DaemonsTyped, Stands
  <2>8. HandlerTyped(p)'
    BY <1>0, <2>1, <2>6 DEF HandlerTyped, Handling
  <2>9. StoreTyped'
    <3>1. f \in DOMAIN dst => copied \in Seq(Bytes)
      <4> SUFFICES ASSUME f \in DOMAIN dst PROVE copied \in Seq(Bytes)
        OBVIOUS
      <4>1. dst[f] \in Seq(Bytes) /\ Len(dst[f]) \in Nat
        BY <1>0, LenProperties DEF StoreTyped
      <4> HIDE DEF block
      <4>2. CASE pos[p] < Len(dst[f])
        <5>1. pos[p] + 1 \in 1..Len(dst[f])
          BY <2>2, <4>1, <4>2
        <5> QED BY <2>4, <4>1, <4>2, <5>1, ExceptSeq
      <4>3. CASE ~ (pos[p] < Len(dst[f]))
        BY <2>4, <4>1, <4>3, AppendProperties
      <4> QED BY <4>2, <4>3
    <3> HIDE DEF copied, f
    <3> QED BY <1>0, <1>1, <2>1, <3>1 DEF StoreTyped
  <2> QED BY <1>2, <1>3, <2>6, <2>7, <2>8, <2>9, OneTyped
<1> QED BY <1>5, <1>6, <1>7, <1>8, <1>9, <1>10


\* An event that reaches daemon p is the last of those to come: it was added, or was
\* there already.
Arrives(p, e) ==
    /\ Coming(p) \in Seq(Delivered) /\ Coming(p)' \in Seq(Delivered)
    /\ Len(Coming(p)') \in Nat \ {0} /\ Coming(p)'[Len(Coming(p)')] = e
    /\ Len(Coming(p)) \in {Len(Coming(p)'), Len(Coming(p)') - 1}
    /\ \A j \in 1..Len(Coming(p)) : Coming(p)'[j] = Coming(p)[j]

LEMMA Appended ==
  ASSUME NEW S, NEW q \in Seq(S), NEW k \in Seq(S), NEW e \in S
  PROVE  /\ q \o k \in Seq(S) /\ q \o Append(k, e) \in Seq(S)
         /\ Len(q \o k) \in Nat /\ Len(q \o Append(k, e)) = Len(q \o k) + 1
         /\ (q \o Append(k, e))[Len(q \o k) + 1] = e
         /\ \A j \in 1..Len(q \o k) : (q \o Append(k, e))[j] = (q \o k)[j]
<1>1. /\ Append(k, e) \in Seq(S) /\ Len(Append(k, e)) = Len(k) + 1 /\ Len(k) \in Nat
      /\ \A i \in 1..Len(k) : Append(k, e)[i] = k[i] /\ Append(k, e)[Len(k) + 1] = e
      /\ Append(k, e)[Len(k) + 1] = e
  BY AppendProperties, LenProperties
<1>2. Len(q) \in Nat
  BY LenProperties
<1> DEFINE a == Append(k, e)
<1>3. a \in Seq(S) /\ Len(a) = Len(k) + 1 /\ (\A i \in 1..Len(k) : a[i] = k[i]) /\ a[Len(k) + 1] = e
  BY <1>1
<1> HIDE DEF a
<1>4. /\ q \o a \in Seq(S) /\ Len(q \o a) = Len(q) + Len(a)
      /\ \A i \in 1..(Len(q) + Len(a)) : (q \o a)[i] = IF i <= Len(q) THEN q[i] ELSE a[i - Len(q)]
  BY <1>3, ConcatProperties
<1>5. /\ q \o k \in Seq(S) /\ Len(q \o k) = Len(q) + Len(k)
      /\ \A i \in 1..(Len(q) + Len(k)) : (q \o k)[i] = IF i <= Len(q) THEN q[i] ELSE k[i - Len(q)]
  BY ConcatProperties
<1>6. (q \o a)[Len(q \o k) + 1] = e
  BY <1>1, <1>2, <1>3, <1>4, <1>5
<1>7. ASSUME NEW j \in 1..Len(q \o k) PROVE (q \o a)[j] = (q \o k)[j]
  <2>1. CASE j <= Len(q)
    BY <1>1, <1>2, <1>3, <1>4, <1>5, <2>1
  <2>2. CASE ~ (j <= Len(q))
    <3>1. j - Len(q) \in 1..Len(k) /\ j \in 1..(Len(q) + Len(k)) /\ j \in 1..(Len(q) + Len(a))
      BY <1>1, <1>2, <1>3, <1>5, <2>2
    <3>2. a[j - Len(q)] = k[j - Len(q)]
      BY <1>3, <3>1
    <3> QED BY <1>4, <1>5, <2>2, <3>1, <3>2
  <2> QED BY <2>1, <2>2
<1> QED BY <1>1, <1>2, <1>3, <1>4, <1>5, <1>6, <1>7 DEF a

LEMMA LastJoined ==
  ASSUME NEW S, NEW q \in Seq(S), NEW k \in Seq(S), k # <<>>
  PROVE  Len(q \o k) \in Nat \ {0} /\ (q \o k)[Len(q \o k)] = Last(k)
<1>1. Len(k) \in Nat \ {0} /\ Len(q) \in Nat
  BY EmptySeq, LenProperties
<1>2. /\ Len(q \o k) = Len(q) + Len(k)
      /\ \A i \in 1..(Len(q) + Len(k)) : (q \o k)[i] = IF i <= Len(q) THEN q[i] ELSE k[i - Len(q)]
  BY ConcatProperties
<1>3. (q \o k)[Len(q) + Len(k)] = k[Len(k)]
  <2>1. Len(q) + Len(k) \in 1..(Len(q) + Len(k)) /\ ~ (Len(q) + Len(k) <= Len(q))
        /\ (Len(q) + Len(k)) - Len(q) = Len(k)
    BY <1>1
  <2> QED BY <1>2, <2>1
<1> QED BY <1>1, <1>2, <1>3 DEF Last

LEMMA Notified ==
  ASSUME TypeInv, NEW e \in Delivered, Notify(e), queue' = queue
  PROVE  /\ kernel' \in [Daemons -> Seq(Delivered)]
         /\ \A p \in Watching : Arrives(p, e)
         /\ \A p \in Daemons \ Watching : kernel'[p] = kernel[p] /\ Coming(p)' = Coming(p)
<1>1. kernel \in [Daemons -> Seq(Delivered)] /\ queue \in [Daemons -> Seq(Delivered)]
  BY DEF TypeInv, DaemonsTyped
<1>2. kernel' = [p \in Daemons |-> IF p \notin Watching \/ (kernel[p] # <<>> /\ Last(kernel[p]) = e)
                                  THEN kernel[p] ELSE Append(kernel[p], e)]
  BY DEF Notify
<1>3. \A p \in Daemons : Append(kernel[p], e) \in Seq(Delivered)
  BY <1>1, AppendProperties
<1>4. kernel' \in [Daemons -> Seq(Delivered)]
  BY <1>1, <1>2, <1>3
<1>5. \A p \in Daemons \ Watching : kernel'[p] = kernel[p] /\ Coming(p)' = Coming(p)
  BY <1>2 DEF Coming
<1>6. ASSUME NEW p \in Watching PROVE Arrives(p, e)
  <2>1. p \in Daemons /\ kernel[p] \in Seq(Delivered) /\ queue[p] \in Seq(Delivered)
    BY <1>1 DEF Watching
  <2>2. CASE kernel[p] # <<>> /\ Last(kernel[p]) = e
    <3>1. kernel'[p] = kernel[p]
      BY <1>2, <2>1, <2>2
    <3>2. Coming(p)' = Coming(p)
      BY <3>1 DEF Coming
    <3> DEFINE q == queue[p]
               k == kernel[p]
    <3>3. q \in Seq(Delivered) /\ k \in Seq(Delivered) /\ k # <<>> /\ Last(k) = e
      BY <2>1, <2>2
    <3>4. Coming(p) = q \o k
      BY DEF Coming
    <3> HIDE DEF q, k
    <3>5. q \o k \in Seq(Delivered) /\ Len(q \o k) \in Nat \ {0} /\ (q \o k)[Len(q \o k)] = e
      BY <3>3, LastJoined, ConcatProperties
    <3> QED BY <3>2, <3>4, <3>5 DEF Arrives
  <2>3. CASE ~ (kernel[p] # <<>> /\ Last(kernel[p]) = e)
    <3>1. kernel'[p] = Append(kernel[p], e)
      BY <1>2, <1>6, <2>1, <2>3
    <3> DEFINE q == queue[p]
               k == kernel[p]
    <3>2. Coming(p) = q \o k /\ Coming(p)' = q \o Append(k, e)
      BY <3>1 DEF Coming
    <3>3. q \in Seq(Delivered) /\ k \in Seq(Delivered)
      BY <2>1
    <3> HIDE DEF q, k
    <3>4. /\ q \o k \in Seq(Delivered) /\ q \o Append(k, e) \in Seq(Delivered)
          /\ Len(q \o k) \in Nat /\ Len(q \o Append(k, e)) = Len(q \o k) + 1
          /\ (q \o Append(k, e))[Len(q \o k) + 1] = e
          /\ \A j \in 1..Len(q \o k) : (q \o Append(k, e))[j] = (q \o k)[j]
      BY <3>3, Appended
    <3> QED BY <3>2, <3>4 DEF Arrives
  <2> QED BY <2>2, <2>3
<1> QED BY <1>4, <1>5, <1>6

\* What a user does: the event reaches whoever watches, and the directory goes with the
\* one event that says so.
LEMMA UsersTyped ==
  ASSUME TypeInv, NEW e \in Delivered, Notify(e), srcDir, srcDir' = (e # Ignored),
         UNCHANGED <<pc, keepRunning, watched, queue, event, fdOri, pos, lockFile>>,
         StoreTyped'
  PROVE  TypeInv'
<1>1. /\ kernel' \in [Daemons -> Seq(Delivered)]
      /\ \A p \in Watching : Arrives(p, e)
      /\ \A p \in Daemons \ Watching : kernel'[p] = kernel[p] /\ Coming(p)' = Coming(p)
  BY Notified
<1>2. DaemonsTyped' /\ lockFile' \in BOOLEAN
  BY <1>1 DEF TypeInv, DaemonsTyped
<1>3. ASSUME NEW p \in Daemons PROVE HandlerTyped(p)' /\ IgnoredOnce(p)'
  <2>1. HandlerTyped(p) /\ IgnoredOnce(p) /\ watched[p] \in {0, 1}
    BY DEF TypeInv, DaemonsTyped
  <2>2. HandlerTyped(p)'
    BY <2>1 DEF HandlerTyped
  <2>3. \A i \in 1..Len(Coming(p)) : Coming(p)[i] # Ignored
    BY <2>1 DEF IgnoredOnce
  <2>4. CASE p \notin Watching
    <3>1. Coming(p)' = Coming(p)
      BY <1>1, <2>4
    <3> QED BY <2>2, <2>3, <3>1 DEF IgnoredOnce
  <2>5. CASE p \in Watching
    <3>1. Arrives(p, e) /\ watched'[p] = 1
      BY <1>1, <2>1, <2>5 DEF Watching
    <3>2. ASSUME NEW i \in 1..Len(Coming(p)'), Coming(p)'[i] = Ignored
          PROVE  i = Len(Coming(p)') /\ e = Ignored
      <4>1. i \notin 1..Len(Coming(p))
        BY <2>3, <3>1, <3>2 DEF Arrives
      <4>2. i = Len(Coming(p)')
        BY <3>1, <4>1 DEF Arrives
      <4> QED BY <3>1, <3>2, <4>2 DEF Arrives
    <3> QED BY <2>2, <3>1, <3>2 DEF IgnoredOnce
  <2> QED BY <2>4, <2>5
<1> QED BY <1>2, <1>3 DEF TypeInv

LEMMA CutShort ==
  ASSUME NEW S, NEW d \in Seq(S), d # <<>>
  PROVE  /\ Front(d) \in Seq(S) /\ Len(Front(d)) = Len(d) - 1
         /\ \A i \in 1..(Len(d) - 1) : Front(d)[i] = d[i]
<1>1. Len(d) \in Nat \ {0} /\ \A i \in 1..(Len(d) - 1) : d[i] \in S
  <2>1. Len(d) \in Nat \ {0}
    BY EmptySeq, LenProperties
  <2> QED BY <2>1, ElementOfSeq
<1> DEFINE n == Len(d) - 1
<1>2. 1 \in Int /\ n \in Nat /\ Len(d) = n + 1 /\ \A i \in 1..n : d[i] \in S
  BY <1>1
<1>3. Front(d) = SubSeq(d, 1, n)
  BY DEF Front
<1> HIDE DEF n
<1>4. /\ SubSeq(d, 1, n) \in Seq(S) /\ Len(SubSeq(d, 1, n)) = IF 1 <= n THEN n - 1 + 1 ELSE 0
      /\ \A i \in 1..(n - 1 + 1) : SubSeq(d, 1, n)[i] = d[1 + i - 1]
  BY <1>2, SubSeqProperties
<1>5. \A i \in 1..n : SubSeq(d, 1, n)[i] = d[i]
  BY <1>2, <1>4
<1> QED BY <1>2, <1>3, <1>4, <1>5

LEMMA UserTyped ==
  ASSUME TypeInv, User
  PROVE  TypeInv'
<1>0. StoreTyped
  BY DEF TypeInv
<1>1. \A op \in FileKinds, f \in Files :
        [kind |-> op, file |-> f] \in Delivered /\ [kind |-> op, file |-> f] # Ignored
  BY DEF Delivered, FileKinds, Ignored
<1>2. ASSUME NEW op \in FileKinds, NEW f \in Files, UserDoes(op, f), srcDir' = srcDir, StoreTyped'
      PROVE  TypeInv'
  <2> DEFINE e == [kind |-> op, file |-> f]
  <2>1. e \in Delivered /\ e # Ignored
    BY <1>1
  <2>2. /\ srcDir /\ Notify(e)
        /\ UNCHANGED <<pc, keepRunning, watched, queue, event, fdOri, pos, lockFile>>
    BY <1>2 DEF UserDoes
  <2> HIDE DEF e
  <2>3. srcDir' = (e # Ignored)
    BY <1>2, <2>1, <2>2
  <2> QED BY <1>2, <2>1, <2>2, <2>3, UsersTyped
<1>3. ASSUME NEW f \in Files, CreateFile(f) PROVE TypeInv'
  <2>1. /\ UserDoes("CREATE", f) /\ inodes < MaxInodes /\ inodes' = inodes + 1
        /\ src' = [src EXCEPT ![f] = inodes + 1] /\ unrepaired' = unrepaired \ {f}
        /\ UNCHANGED <<srcDir, data, dst>>
    BY <1>3 DEF CreateFile, UserDoes
  <2>2. StoreTyped'
    BY <1>0, <2>1, SincroAssumption DEF StoreTyped
  <2> QED BY <1>2, <2>1, <2>2 DEF FileKinds
<1>4. ASSUME NEW f \in Files, DeleteFile(f) \/ MoveOut(f) PROVE TypeInv'
  <2>1. /\ \E op \in {"DELETE", "MOVED_FROM"} : UserDoes(op, f)
        /\ src' = [src EXCEPT ![f] = 0] /\ unrepaired' \subseteq unrepaired \cup {f}
        /\ UNCHANGED <<srcDir, data, dst, inodes>>
    BY <1>4 DEF DeleteFile, MoveOut, UserDoes
  <2>2. StoreTyped'
    BY <1>0, <2>1, SincroAssumption DEF StoreTyped
  <2> QED BY <1>2, <2>1, <2>2 DEF FileKinds
<1>5. ASSUME NEW f \in Files, ChangeMode(f) PROVE TypeInv'
  <2>1. UserDoes("ATTRIB", f) /\ UNCHANGED <<srcDir, src, data, inodes, unrepaired, dst>>
    BY <1>5 DEF ChangeMode, UserDoes
  <2>2. StoreTyped'
    BY <1>0, <2>1, StoreStays
  <2> QED BY <1>2, <2>1, <2>2 DEF FileKinds
<1>6. ASSUME NEW f \in Files, NEW i \in 1..MaxLen, NEW b \in Bytes, WriteFile(f, i, b) PROVE TypeInv'
  <2> DEFINE n == src[f]
             new == IF i <= Len(data[n]) THEN [data[n] EXCEPT ![i] = b] ELSE Append(data[n], b)
  <2>1. /\ UserDoes("MODIFY", f) /\ n # 0 /\ i \in 1..(Len(data[n]) + 1) /\ i <= MaxLen
        /\ data' = [data EXCEPT ![n] = new]
        /\ UNCHANGED <<srcDir, src, inodes, unrepaired, dst>>
    BY <1>6 DEF WriteFile, UserDoes
  <2>2. n \in InodeIds /\ data[n] \in Seq(Bytes) /\ Len(data[n]) \in Nat /\ Len(data[n]) <= MaxLen
    BY <1>0, <2>1, LenProperties, SincroAssumption DEF StoreTyped, InodeIds
  <2>3. new \in Seq(Bytes) /\ Len(new) <= MaxLen
    <3>1. CASE i <= Len(data[n])
      <4>1. i \in 1..Len(data[n])
        BY <2>2, <3>1, SincroAssumption
      <4> QED BY <2>2, <3>1, <4>1, ExceptSeq
    <3>2. CASE ~ (i <= Len(data[n]))
      BY <2>1, <2>2, <3>2, AppendProperties, SincroAssumption
    <3> QED BY <3>1, <3>2
  <2> HIDE DEF new, n
  <2>4. StoreTyped'
    BY <1>0, <2>1, <2>2, <2>3 DEF StoreTyped
  <2> QED BY <1>2, <2>1, <2>4 DEF FileKinds
<1>7. ASSUME NEW f \in Files, TruncateFile(f) PROVE TypeInv'
  <2> DEFINE n == src[f]
             new == Front(data[n])
  <2>1. /\ UserDoes("MODIFY", f) /\ n # 0 /\ data[n] # <<>>
        /\ data' = [data EXCEPT ![n] = new] /\ unrepaired' = unrepaired \cup {f}
        /\ UNCHANGED <<srcDir, src, inodes, dst>>
    BY <1>7 DEF TruncateFile, UserDoes
  <2>2. n \in InodeIds /\ data[n] \in Seq(Bytes) /\ Len(data[n]) \in Nat /\ Len(data[n]) <= MaxLen
    BY <1>0, <2>1, LenProperties, SincroAssumption DEF StoreTyped, InodeIds
  <2>3. new \in Seq(Bytes) /\ Len(new) <= MaxLen
    <3> DEFINE d == data[n]
    <3>1. d \in Seq(Bytes) /\ d # <<>> /\ Len(d) \in Nat /\ Len(d) <= MaxLen /\ new = Front(d)
      BY <2>1, <2>2
    <3> HIDE DEF d, new
    <3> QED BY <3>1, CutShort, SincroAssumption
  <2> HIDE DEF new, n
  <2>4. StoreTyped'
    BY <1>0, <2>1, <2>2, <2>3 DEF StoreTyped
  <2> QED BY <1>2, <2>1, <2>4 DEF FileKinds
<1>8. ASSUME NEW f \in Files, NEW b \in Bytes, MoveIn(f, b) PROVE TypeInv'
  <2>1. /\ UserDoes("MOVED_TO", f) /\ inodes < MaxInodes /\ inodes' = inodes + 1
        /\ src' = [src EXCEPT ![f] = inodes + 1] /\ unrepaired' = unrepaired \cup {f}
        /\ data' = [data EXCEPT ![inodes + 1] = <<b>>]
        /\ UNCHANGED <<srcDir, dst>>
    BY <1>8 DEF MoveIn, UserDoes
  <2>2. <<b>> \in Seq(Bytes) /\ Len(<<b>>) <= MaxLen
    BY SincroAssumption
  <2>3. StoreTyped'
    <3> DEFINE new == <<b>>
    <3>1. data' = [data EXCEPT ![inodes + 1] = new] /\ new \in Seq(Bytes) /\ Len(new) <= MaxLen
      BY <2>1, <2>2
    <3> HIDE DEF new
    <3> QED BY <1>0, <2>1, <3>1, SincroAssumption DEF StoreTyped
  <2> QED BY <1>2, <2>1, <2>3 DEF FileKinds
<1>9. CASE RemoveSource
  <2>1. /\ srcDir /\ Notify(Ignored) /\ srcDir' = FALSE
        /\ UNCHANGED <<pc, keepRunning, watched, queue, event, fdOri, pos, lockFile>>
        /\ UNCHANGED <<src, data, inodes, unrepaired, dst>>
    BY <1>9 DEF RemoveSource, UserDoes, Ignored
  <2>2. StoreTyped'
    BY <1>0, <2>1 DEF StoreTyped
  <2>3. Ignored \in Delivered
    BY DEF Delivered
  <2>4. srcDir' = (Ignored # Ignored)
    BY <2>1
  <2> QED BY <2>1, <2>2, <2>3, <2>4, UsersTyped
<1> QED BY <1>3, <1>4, <1>5, <1>6, <1>7, <1>8, <1>9 DEF User

LEMMA TypeInit == Init => TypeInv
<1> SUFFICES ASSUME Init PROVE TypeInv
  OBVIOUS
<1>1. <<>> \in Seq(Delivered) /\ <<>> \in Seq(Bytes) /\ Len(<<>>) = 0
  BY EmptySeq
<1>2. DaemonsTyped
  BY <1>1, SincroAssumption DEF Init, DaemonsTyped, Places, NoEvent, EventType, Kinds
<1>3. StoreTyped /\ lockFile \in BOOLEAN
  <2>1. /\ inodes = 0 /\ srcDir = TRUE /\ lockFile = FALSE /\ unrepaired = {}
        /\ src = [f \in Files |-> 0] /\ DOMAIN dst = {}
    BY DEF Init
  <2>2. DOMAIN data = InodeIds /\ \A i \in InodeIds : data[i] \in Seq(Bytes) /\ Len(data[i]) <= MaxLen
    <3> DEFINE none == <<>>
    <3>1. data = [i \in InodeIds |-> none] /\ none \in Seq(Bytes) /\ Len(none) = 0
      BY <1>1 DEF Init
    <3> HIDE DEF none
    <3> QED BY <3>1, SincroAssumption
  <2>3. srcDir \in BOOLEAN /\ lockFile \in BOOLEAN
    BY <2>1, Zenon
  <2>4. /\ inodes \in 0..MaxInodes /\ unrepaired \subseteq Files /\ src \in [Files -> 0..MaxInodes]
        /\ \A f \in Files : src[f] = 0 /\ src[f] <= inodes
    BY <2>1, SincroAssumption
  <2>5. \A f \in DOMAIN dst : dst[f] \in Seq(Bytes)
    BY <2>1, Zenon
  <2> QED BY <2>1, <2>2, <2>3, <2>4, <2>5, Zenon DEF StoreTyped
<1>4. ASSUME NEW p \in Daemons PROVE HandlerTyped(p) /\ IgnoredOnce(p)
  <2>1. HandlerTyped(p)
    BY DEF Init, HandlerTyped, Handling
  <2>2. Coming(p) = <<>>
    <3>1. queue[p] = <<>> /\ kernel[p] = <<>>
      BY DEF Init
    <3> QED BY <1>1, <3>1, ConcatEmptySeq DEF Coming
  <2>3. IgnoredOnce(p)
    BY <1>1, <2>2 DEF IgnoredOnce
  <2> QED BY <2>1, <2>3
<1> QED BY <1>2, <1>3, <1>4 DEF TypeInv

LEMMA TypeStep ==
  ASSUME TypeInv, [Next]_vars
  PROVE  TypeInv'
<1>1. CASE User
  BY <1>1, UserTyped
<1>2. ASSUME NEW p \in Daemons, Daemon(p) PROVE TypeInv'
  <2>1. CASE Stat(p)
    BY <2>1, LeavesTyped, HandlersTyped
  <2> QED BY <1>2, <2>1, MovesTyped, WatchTyped, ReadTyped, DequeueTyped, HandlersTyped, LeavesTyped
         DEF Daemon
<1>3. ASSUME NEW p \in Daemons, Signal(p) PROVE TypeInv'
  BY <1>3, MovesTyped, LeavesTyped DEF Signal
<1>4. CASE UNCHANGED vars
  <2>1. /\ UNCHANGED <<pc, keepRunning, watched, kernel, queue, event, fdOri, pos, lockFile>>
        /\ UNCHANGED <<srcDir, src, data, inodes, unrepaired, dst>>
    BY <1>4 DEF vars, daemonVars, dirVars
  <2>2. DaemonsTyped' = DaemonsTyped
    BY <2>1, Zenon DEF DaemonsTyped
  <2>3. StoreTyped' = StoreTyped
    BY <2>1, Zenon DEF StoreTyped
  <2>4. \A p \in Daemons : HandlerTyped(p)' = HandlerTyped(p)
    BY <2>1, Zenon DEF HandlerTyped
  <2>5. \A p \in Daemons : IgnoredOnce(p)' = IgnoredOnce(p)
    BY <2>1, Zenon DEF IgnoredOnce, Coming
  <2> QED BY <2>1, <2>2, <2>3, <2>4, <2>5, Zenon DEF TypeInv
<1> QED BY <1>1, <1>2, <1>3, <1>4 DEF Next

\* The variables keep their types through every interleaving of daemons, users and
\* signals; so the queue holds whole events, a handler has the event it is for, and the
\* number of watched directories goes no further than 0.
THEOREM DaemonTyped == Spec => []TypeOK
<1>1. Init => TypeInv
  BY TypeInit
<1>2. TypeInv /\ [Next]_vars => TypeInv'
  BY TypeStep
<1>3. LockInv => PlacesOK
  BY DEF LockInv
<1>4. TypeInv /\ PlacesOK => TypeOK
  BY TypeGiven
<1> QED BY <1>1, <1>2, <1>3, <1>4, LockInit, LockStep, PTL DEF Spec

-----------------------------------------------------------------------------
(* What the daemon owes the destination *)

\* The only daemon at work, while it watches.
Sole(p) ==
    watched[p] > 0 /\ pc[p] \in Looping /\ \A r \in Daemons \ {p} : pc[r] \in {"none", "refused"}

\* Until a daemon watches, nothing happens that could be missed.
Early == {"none", "refused", "locked", "init"}
Quiet ==
    (\A p \in Daemons : pc[p] \in Early) =>
      /\ \A f \in Files : src[f] = 0
      /\ DOMAIN dst = {} /\ \A p \in Daemons : Len(Coming(p)) = 0

\* A handler that has to do with f; one that copies it.
Busy(p, f) == pc[p] \in Handling /\ event[p].file = f
Copies(p, f) == Busy(p, f) /\ event[p].kind # "ATTRIB"
Begins(p, f) == Copies(p, f) /\ pc[p] \in {"stat", "creat"}

\* The events for f after the k-th are of these kinds only.
After(p, f, k, kinds) ==
    \A j \in 1..Len(Coming(p)) : k < j /\ Coming(p)[j].file = f => Coming(p)[j].kind \in kinds

WrittenSince(p, f) ==
    \E i \in 1..Len(Coming(p)) : Coming(p)[i] = [kind |-> "MODIFY", file |-> f]

\* The copy of f is right as far as it goes: entirely, once the handlers are through,
\* unless another MODIFY is to come; up to the block that is copied, during the copy.
CopiedSoFar(p, f) ==
    /\ f \in DOMAIN dst /\ Len(dst[f]) <= Len(data[src[f]])
    /\ ~Copies(p, f) /\ ~WrittenSince(p, f) => dst[f] = data[src[f]]
    /\ Copies(p, f) /\ pc[p] = "copy" =>
         /\ fdOri[p] = src[f] /\ pos[p] <= Len(dst[f])
         /\ ~WrittenSince(p, f) => \A i \in 1..pos[p] : dst[f][i] = data[src[f]][i]

\* For a file that is there: its CREATE is to come, or the handler of it is about to make
\* an empty file, or the copy exists.
LiveSynced(p, f) ==
    \/ \E k \in 1..Len(Coming(p)) : /\ Coming(p)[k] = [kind |-> "CREATE", file |-> f]
                                    /\ After(p, f, k, {"MODIFY", "ATTRIB"})
    \/ After(p, f, 0, {"MODIFY", "ATTRIB"}) /\ (Begins(p, f) \/ (~Begins(p, f) /\ CopiedSoFar(p, f)))

\* For one that is not: its DELETE is to come, and nothing after it, or the copy is gone.
GoneSynced(p, f) ==
    \/ \E k \in 1..Len(Coming(p)) : /\ Coming(p)[k] = [kind |-> "DELETE", file |-> f]
                                    /\ After(p, f, k, {})
    \/ After(p, f, 0, {}) /\ f \notin DOMAIN dst /\ ~Busy(p, f)

SyncedFor(p, f) == IF src[f] # 0 THEN LiveSynced(p, f) ELSE GoneSynced(p, f)

Synced == \A p \in Daemons : Sole(p) => \A f \in Files \ unrepaired : SyncedFor(p, f)

\* A step that does not concern f, or concerns it while nothing of it changes.
LEMMA Unaffected ==
  ASSUME NEW p \in Daemons, NEW f \in Files, SyncedFor(p, f), Coming(p)' = Coming(p),
         UNCHANGED <<src, data>>, f \in DOMAIN dst' <=> f \in DOMAIN dst, f \in DOMAIN dst => dst'[f] = dst[f],
         \/ ~Busy(p, f) /\ ~Busy(p, f)'
         \/ /\ pc'[p] = pc[p] /\ event'[p] = event[p]
            /\ fdOri'[p] = fdOri[p] /\ pos'[p] = pos[p]
  PROVE  SyncedFor(p, f)'
<1>1. /\ \A k, kinds : After(p, f, k, kinds)' = After(p, f, k, kinds)
      /\ WrittenSince(p, f)' = WrittenSince(p, f)
  BY DEF After, WrittenSince
<1>2. CASE ~Busy(p, f) /\ ~Busy(p, f)'
  <2>1. ~Copies(p, f) /\ ~Copies(p, f)' /\ ~Begins(p, f) /\ ~Begins(p, f)'
    BY <1>2 DEF Copies, Begins
  <2>2. CopiedSoFar(p, f) => CopiedSoFar(p, f)'
    BY <1>1, <2>1 DEF CopiedSoFar
  <2>3. LiveSynced(p, f) => LiveSynced(p, f)'
    BY <1>1, <2>1, <2>2 DEF LiveSynced
  <2>4. GoneSynced(p, f) => GoneSynced(p, f)'
    BY <1>1, <1>2 DEF GoneSynced
  <2> QED BY <2>3, <2>4 DEF SyncedFor
<1>3. CASE /\ pc'[p] = pc[p] /\ event'[p] = event[p]
           /\ fdOri'[p] = fdOri[p] /\ pos'[p] = pos[p]
  <2>1. /\ Copies(p, f)' = Copies(p, f) /\ Begins(p, f)' = Begins(p, f) /\ Busy(p, f)' = Busy(p, f)
    BY <1>3 DEF Copies, Begins, Busy
  <2>2. CopiedSoFar(p, f) => CopiedSoFar(p, f)'
    BY <1>1, <1>3, <2>1 DEF CopiedSoFar
  <2>3. LiveSynced(p, f) => LiveSynced(p, f)'
    BY <1>1, <2>1, <2>2 DEF LiveSynced
  <2>4. GoneSynced(p, f) => GoneSynced(p, f)'
    BY <1>1, <2>1 DEF GoneSynced
  <2> QED BY <2>3, <2>4 DEF SyncedFor
<1> QED BY <1>2, <1>3

\* The event taken is no longer to come, but the handler has it, or it has been repeated.
LEMMA DequeueSynced ==
  ASSUME TypeInv, NEW p \in Daemons, Dequeue(p), NEW f \in Files, SyncedFor(p, f)
  PROVE  SyncedFor(p, f)'
<1> DEFINE e == Head(queue[p])
           n == Len(Coming(p))
<1>1. /\ pc[p] = "take" /\ pc'[p] = Handler(e.kind)
      /\ event'[p] = IF Handler(e.kind) = "take" THEN NoEvent ELSE e
      /\ dst' = [g \in DOMAIN dst \ {x \in Files : e = [kind |-> "DELETE", file |-> x]} |-> dst[g]]
      /\ UNCHANGED <<src, data>>
  BY DEF Dequeue, Go, dirVars, TypeInv, DaemonsTyped
<1>2. /\ e = Coming(p)[1] /\ e \in Delivered /\ n \in Nat \ {0} /\ Len(Coming(p)') = n - 1
      /\ \A j \in 1..(n - 1) : Coming(p)'[j] = Coming(p)[j + 1]
  BY TakenOrder
<1> HIDE DEF e
<1>3. /\ Handler(e.kind) \in {"take", "stat", "opendst"}
      /\ Handler(e.kind) = "stat" <=> e.kind \in {"CREATE", "ATTRIB"}
      /\ Handler(e.kind) = "opendst" <=> e.kind = "MODIFY"
  BY DEF Handler
<1>4. ~Busy(p, f) /\ ~Copies(p, f) /\ ~Begins(p, f)
  BY <1>1 DEF Busy, Copies, Begins, Handling
<1>5. /\ Busy(p, f)' <=> e.kind \in {"CREATE", "ATTRIB", "MODIFY"} /\ e.file = f
      /\ Copies(p, f)' <=> e.kind \in {"CREATE", "MODIFY"} /\ e.file = f
      /\ Begins(p, f)' <=> e.kind = "CREATE" /\ e.file = f
      /\ pc'[p] # "copy"
  BY <1>1, <1>3 DEF Busy, Copies, Begins, Handling
<1>6. ASSUME NEW k \in 1..n, NEW kinds, After(p, f, k, kinds) PROVE After(p, f, k - 1, kinds)'
  <2> SUFFICES ASSUME NEW j \in 1..Len(Coming(p)'), k - 1 < j, Coming(p)'[j].file = f
               PROVE  Coming(p)'[j].kind \in kinds
    BY DEF After
  <2>1. j + 1 \in 1..n /\ k < j + 1 /\ Coming(p)[j + 1] = Coming(p)'[j]
    BY <1>2
  <2> QED BY <1>6, <2>1 DEF After
<1>7. \A kinds : After(p, f, 0, kinds) => After(p, f, 0, kinds)' /\ (e.file = f => e.kind \in kinds)
  BY <1>2 DEF After
<1>8. \A k \in 2..n : k - 1 \in 1..Len(Coming(p)') /\ Coming(p)'[k - 1] = Coming(p)[k]
  BY <1>2
<1>9. ASSUME src[f] # 0 PROVE LiveSynced(p, f)'
  <2>1. CASE \E k \in 1..n : Coming(p)[k] = [kind |-> "CREATE", file |-> f]
                             /\ After(p, f, k, {"MODIFY", "ATTRIB"})
    <3>1. PICK k \in 1..n : /\ Coming(p)[k] = [kind |-> "CREATE", file |-> f]
                            /\ After(p, f, k, {"MODIFY", "ATTRIB"})
      BY <2>1
    <3>2. After(p, f, k - 1, {"MODIFY", "ATTRIB"})'
      BY <1>6, <3>1
    <3>3. CASE k = 1
      <4>1. e = [kind |-> "CREATE", file |-> f]
        BY <1>2, <3>1, <3>3
      <4>2. Begins(p, f)'
        BY <1>5, <4>1
      <4> QED BY <3>2, <3>3, <4>2 DEF LiveSynced
    <3>4. CASE k # 1
      <4>1. k \in 2..n
        BY <1>2, <3>4
      <4>2. k - 1 \in 1..Len(Coming(p)') /\ Coming(p)'[k - 1] = [kind |-> "CREATE", file |-> f]
        BY <1>8, <3>1, <4>1
      <4> QED BY <3>2, <4>2 DEF LiveSynced
    <3> QED BY <3>3, <3>4
  <2>2. CASE After(p, f, 0, {"MODIFY", "ATTRIB"}) /\ CopiedSoFar(p, f)
    <3>1. After(p, f, 0, {"MODIFY", "ATTRIB"})' /\ (e.file = f => e.kind \in {"MODIFY", "ATTRIB"})
      BY <1>7, <2>2
    <3>2. ~Begins(p, f)'
      BY <1>5, <3>1
    <3>3. f \in DOMAIN dst' /\ dst'[f] = dst[f]
      BY <1>1, <2>2, <3>1 DEF CopiedSoFar
    <3>4. ~Copies(p, f)' /\ WrittenSince(p, f) => WrittenSince(p, f)'
      <4> SUFFICES ASSUME ~Copies(p, f)', WrittenSince(p, f) PROVE WrittenSince(p, f)'
        OBVIOUS
      <4>1. PICK i \in 1..n : Coming(p)[i] = [kind |-> "MODIFY", file |-> f]
        BY DEF WrittenSince
      <4>2. i # 1
        BY <1>2, <1>5, <4>1
      <4>3. i \in 2..n
        BY <1>2, <4>2
      <4>4. i - 1 \in 1..Len(Coming(p)') /\ Coming(p)'[i - 1] = [kind |-> "MODIFY", file |-> f]
        BY <1>8, <4>1, <4>3
      <4> QED BY <4>4 DEF WrittenSince
    <3>5. CopiedSoFar(p, f)'
      BY <1>1, <1>4, <1>5, <2>2, <3>3, <3>4 DEF CopiedSoFar
    <3> QED BY <3>1, <3>2, <3>5 DEF LiveSynced
  <2> QED BY <1>4, <1>9, <2>1, <2>2 DEF SyncedFor, LiveSynced
<1>10. ASSUME src[f] = 0 PROVE GoneSynced(p, f)'
  <2>1. CASE \E k \in 1..n : Coming(p)[k] = [kind |-> "DELETE", file |-> f] /\ After(p, f, k, {})
    <3>1. PICK k \in 1..n : Coming(p)[k] = [kind |-> "DELETE", file |-> f] /\ After(p, f, k, {})
      BY <2>1
    <3>2. After(p, f, k - 1, {})'
      BY <1>6, <3>1
    <3>3. CASE k = 1
      <4>1. e = [kind |-> "DELETE", file |-> f]
        BY <1>2, <3>1, <3>3
      <4>2. ~Busy(p, f)' /\ f \notin DOMAIN dst'
        BY <1>1, <1>5, <4>1
      <4> QED BY <3>2, <3>3, <4>2 DEF GoneSynced
    <3>4. CASE k # 1
      <4>1. k \in 2..n
        BY <1>2, <3>4
      <4>2. k - 1 \in 1..Len(Coming(p)') /\ Coming(p)'[k - 1] = [kind |-> "DELETE", file |-> f]
        BY <1>8, <3>1, <4>1
      <4> QED BY <3>2, <4>2 DEF GoneSynced
    <3> QED BY <3>3, <3>4
  <2>2. CASE After(p, f, 0, {}) /\ f \notin DOMAIN dst
    <3>1. After(p, f, 0, {})' /\ e.file # f
      BY <1>7, <2>2
    <3>2. ~Busy(p, f)' /\ f \notin DOMAIN dst'
      BY <1>1, <1>5, <2>2, <3>1
    <3> QED BY <3>1, <3>2 DEF GoneSynced
  <2> QED BY <1>10, <2>1, <2>2 DEF SyncedFor, GoneSynced
<1>11. src'[f] = src[f]
  BY <1>1
<1> QED BY <1>9, <1>10, <1>11 DEF SyncedFor

\* The handlers: whatever was true of other files stays so, and the copy grows block by
\* block of the i-node that was opened.
LEMMA HandlersSynced ==
  ASSUME TypeInv, NEW p \in Daemons, NEW f \in Files, SyncedFor(p, f),
         \/ Stat(p) /\ src[event[p].file] # 0
         \/ Creat(p) \/ OpenDst(p) \/ OpenSrc(p) \/ Copia(p) \/ CopiaEnds(p)
  PROVE  SyncedFor(p, f)'
<1> DEFINE g == event[p].file
<1>1. /\ UNCHANGED <<src, data>> /\ Coming(p)' = Coming(p) /\ g \in Files /\ pc[p] \in Handling
  BY HandlerSteps
<1>2. DaemonsTyped /\ HandlerTyped(p) /\ StoreTyped
  BY DEF TypeInv
<1>3. /\ \A k, kinds : After(p, f, k, kinds)' = After(p, f, k, kinds)
      /\ WrittenSince(p, f)' = WrittenSince(p, f)
  BY <1>1 DEF After, WrittenSince
<1>4. CASE f # g
  <2>1. f \in DOMAIN dst' <=> f \in DOMAIN dst
    BY <1>4 DEF Stat, Creat, OpenDst, OpenSrc, Copia, CopiaEnds
  <2>2. f \in DOMAIN dst => dst'[f] = dst[f]
    BY <1>4 DEF Stat, Creat, OpenDst, OpenSrc, Copia, CopiaEnds
  <2>3. pc'[p] = "take" \/ event'[p] = event[p]
    BY <1>2 DEF DaemonsTyped, Stat, Creat, OpenDst, OpenSrc, Copia, CopiaEnds, Handled, Go, daemonVars
  <2>4. ~Busy(p, f) /\ ~Busy(p, f)'
    BY <1>4, <2>3 DEF Busy, Handling
  <2> QED BY <1>1, <2>1, <2>2, <2>4, Unaffected
<1>5. CASE f = g
  <2>1. Busy(p, f) /\ src'[f] = src[f] /\ data' = data
    BY <1>1, <1>5 DEF Busy
  <2>2. ASSUME src[f] # 0, After(p, f, 0, {"MODIFY", "ATTRIB"}), Begins(p, f) \/ (~Begins(p, f) /\ CopiedSoFar(p, f))
        PROVE  Begins(p, f)' \/ (~Begins(p, f)' /\ CopiedSoFar(p, f)')
    <3>0. /\ Copies(p, f) <=> event[p].kind # "ATTRIB"
          /\ Begins(p, f) <=> event[p].kind # "ATTRIB" /\ pc[p] \in {"stat", "creat"}
      BY <2>1 DEF Copies, Begins
    <3>1. CASE Stat(p) /\ event[p].kind = "CREATE"
      <4>1. pc'[p] = "creat" /\ event' = event
        BY <1>2, <1>5, <2>2, <3>1 DEF Stat, Go, DaemonsTyped
      <4> QED BY <1>5, <3>1, <4>1 DEF Begins, Copies, Busy, Handling
    <3>2. CASE Stat(p) /\ event[p].kind # "CREATE"
      <4>1. pc'[p] = "take" /\ dst' = dst /\ event[p].kind = "ATTRIB"
        BY <1>2, <2>2, <1>5, <3>2 DEF Stat, Handled, Go, DaemonsTyped
      <4>2. ~Copies(p, f)' /\ ~Begins(p, f)'
        BY <4>1 DEF Begins, Copies, Busy, Handling
      <4> QED BY <1>3, <2>1, <2>2, <3>0, <4>1, <4>2 DEF CopiedSoFar
    <3>3. CASE Creat(p)
      <4>1. /\ pc'[p] = "opensrc" /\ event' = event
            /\ dst' = [x \in DOMAIN dst \cup {g} |-> IF x = g THEN <<>> ELSE dst[x]]
        BY <1>2, <3>3 DEF Creat, Go, DaemonsTyped, daemonVars
      <4>2. f \in DOMAIN dst' /\ dst'[f] = <<>> /\ Len(<<>>) = 0
        BY <1>5, <4>1
      <4>3. Len(data[src[f]]) \in Nat
        BY <1>2, <2>2, LenProperties, SincroAssumption DEF StoreTyped, InodeIds
      <4>4. pc[p] = "creat" /\ event[p].kind = "CREATE"
        BY <1>2, <3>3 DEF Creat, Go, HandlerTyped
      <4>5. Copies(p, f)' /\ ~Begins(p, f)'
        BY <1>5, <4>1, <4>4 DEF Begins, Copies, Busy, Handling
      <4> QED BY <2>1, <4>1, <4>2, <4>3, <4>5 DEF CopiedSoFar
    <3>4. CASE OpenDst(p)
      <4>1. pc[p] = "opendst" /\ event[p].kind = "MODIFY" /\ dst' = dst
        BY <1>2, <3>4 DEF OpenDst, HandlerTyped
      <4>2. CopiedSoFar(p, f) /\ f \in DOMAIN dst
        BY <2>2, <3>0, <4>1 DEF CopiedSoFar
      <4>3. pc'[p] = "opensrc" /\ event' = event
        BY <1>2, <1>5, <3>4, <4>2 DEF OpenDst, Go, DaemonsTyped
      <4>4. Copies(p, f)' /\ ~Begins(p, f)'
        BY <1>5, <4>1, <4>3 DEF Begins, Copies, Busy, Handling
      <4> QED BY <2>1, <4>1, <4>2, <4>3, <4>4 DEF CopiedSoFar
    <3>5. CASE OpenSrc(p)
      <4>1. /\ pc[p] = "opensrc" /\ event[p].kind # "ATTRIB" /\ dst' = dst /\ pos[p] = 0
            /\ pc'[p] = "copy" /\ event' = event /\ pos' = pos /\ fdOri'[p] = src[f]
        BY <1>2, <1>5, <3>5 DEF OpenSrc, Go, HandlerTyped, DaemonsTyped
      <4>2. CopiedSoFar(p, f)
        BY <2>2, <3>0, <4>1
      <4>3. Copies(p, f)' /\ ~Begins(p, f)'
        BY <1>5, <4>1 DEF Begins, Copies, Busy, Handling
      <4>4. Len(dst[f]) \in Nat
        BY <1>2, <4>2, LenProperties DEF StoreTyped, CopiedSoFar
      <4>5. \A i \in 1..pos'[p] : FALSE
        BY <4>1
      <4>6. pos'[p] <= Len(dst[f])
        BY <4>1, <4>4
      <4> QED BY <2>1, <4>1, <4>2, <4>3, <4>5, <4>6 DEF CopiedSoFar
    <3>6. CASE Copia(p)
      <4> DEFINE d == data[src[f]]
                 n == pos[p] + 1
                 old == dst[f]
                 new == IF pos[p] < Len(old) THEN [old EXCEPT ![n] = d[n]] ELSE Append(old, d[n])
      <4>1. /\ pc[p] = "copy" /\ event[p].kind # "ATTRIB"
            /\ UNCHANGED <<pc, event, fdOri>> /\ pos'[p] = n /\ ~AtEnd(p)
        BY <1>2, <3>6 DEF Copia, HandlerTyped, DaemonsTyped
      <4>2. /\ CopiedSoFar(p, f) /\ f \in DOMAIN dst /\ fdOri[p] = src[f] /\ pos[p] <= Len(old)
            /\ Len(old) <= Len(d)
            /\ ~WrittenSince(p, f) => \A i \in 1..pos[p] : old[i] = d[i]
        BY <2>2, <3>0, <4>1 DEF CopiedSoFar
      <4>3. d \in Seq(Bytes) /\ Len(d) \in Nat /\ old \in Seq(Bytes) /\ Len(old) \in Nat /\ pos[p] \in Nat
        BY <1>2, <2>2, <4>2, LenProperties, SincroAssumption DEF StoreTyped, InodeIds, DaemonsTyped
      <4>4. pos[p] < Len(d)
        BY <2>2, <4>1, <4>2, <4>3 DEF AtEnd
      <4>5. dst' = [dst EXCEPT ![f] = new]
        BY <1>5, <3>6, <4>2 DEF Copia
      <4>6. d[n] \in Bytes
        <5>1. n \in 1..Len(d)
          BY <4>3, <4>4
        <5> QED BY <4>3, <5>1, ElementOfSeq
      <4>7. /\ Len(new) <= Len(d) /\ n <= Len(new) /\ new[n] = d[n]
            /\ \A i \in 1..pos[p] : new[i] = old[i]
        <5> DEFINE b == d[n]
        <5>1. b \in Bytes
          BY <4>6
        <5> HIDE DEF b, d, old
        <5>2. CASE pos[p] < Len(old)
          <6>1. n \in 1..Len(old)
            BY <4>3, <5>2
          <6>2. new = [old EXCEPT ![n] = b] /\ Len(new) = Len(old) /\ new[n] = b
                /\ \A i \in 1..Len(old) : i # n => new[i] = old[i]
            <7>1. new = [old EXCEPT ![n] = b]
              BY <5>2 DEF b
            <7>2. [old EXCEPT ![n] = b] \in Seq(Bytes) /\ Len([old EXCEPT ![n] = b]) = Len(old)
              BY <4>3, <5>1, <6>1, ExceptSeq
            <7>3. DOMAIN old = 1..Len(old)
              BY <4>3, LenProperties
            <7> HIDE DEF new, n
            <7> QED BY <6>1, <7>1, <7>2, <7>3
          <6> HIDE DEF new
          <6> QED BY <4>2, <4>3, <5>2, <6>2 DEF b
        <5>3. CASE ~ (pos[p] < Len(old))
          <6>1. new = Append(old, b) /\ n = Len(old) + 1
            BY <4>2, <4>3, <5>3 DEF b
          <6> HIDE DEF new, n
          <6>2. Len(new) = Len(old) + 1 /\ new[n] = b /\ \A i \in 1..Len(old) : new[i] = old[i]
            BY <4>3, <5>1, <6>1, AppendProperties
          <6> QED BY <4>2, <4>3, <4>4, <5>3, <6>1, <6>2 DEF b, n
        <5> QED BY <5>2, <5>3
      <4>8. Copies(p, f)' /\ ~Begins(p, f)'
        BY <1>5, <4>1, <1>1 DEF Begins, Copies, Busy, Handling
      <4>9. f \in DOMAIN dst' /\ dst'[f] = new /\ data'[src'[f]] = d
        BY <2>1, <4>2, <4>5
      <4> HIDE DEF new, d, old
      <4>10. ASSUME ~WrittenSince(p, f) PROVE \A i \in 1..n : new[i] = d[i]
        BY <4>2, <4>3, <4>7, <4>10
      <4> HIDE DEF n
      <4> QED BY <1>3, <2>1, <4>1, <4>2, <4>7, <4>8, <4>9, <4>10 DEF CopiedSoFar
    <3>7. CASE CopiaEnds(p)
      <4> DEFINE d == data[src[f]]
                 c == dst[f]
      <4>1. pc[p] = "copy" /\ event[p].kind # "ATTRIB" /\ pc'[p] = "take" /\ dst' = dst /\ AtEnd(p)
        BY <1>2, <3>7 DEF CopiaEnds, Handled, Go, HandlerTyped, DaemonsTyped
      <4>2. /\ CopiedSoFar(p, f) /\ f \in DOMAIN dst /\ fdOri[p] = src[f] /\ pos[p] <= Len(c)
            /\ Len(c) <= Len(d)
            /\ ~WrittenSince(p, f) => \A i \in 1..pos[p] : c[i] = d[i]
        BY <2>2, <3>0, <4>1 DEF CopiedSoFar
      <4>3. d \in Seq(Bytes) /\ Len(d) \in Nat /\ c \in Seq(Bytes) /\ Len(c) \in Nat /\ pos[p] \in Nat
        BY <1>2, <2>2, <4>2, LenProperties, SincroAssumption DEF StoreTyped, InodeIds, DaemonsTyped
      <4>4. pos[p] >= Len(d)
        BY <2>2, <4>1, <4>2 DEF AtEnd
      <4>5. Len(c) = Len(d) /\ pos[p] = Len(c)
        BY <4>2, <4>3, <4>4
      <4>6. ~WrittenSince(p, f) => c = d
        <5> HIDE DEF c, d
        <5> QED BY <4>2, <4>3, <4>5, SeqEqual
      <4>7. ~Copies(p, f)' /\ ~Begins(p, f)'
        BY <4>1 DEF Begins, Copies, Busy, Handling
      <4>8. /\ f \in DOMAIN dst' /\ Len(dst'[f]) <= Len(data'[src'[f]])
            /\ ~WrittenSince(p, f)' => dst'[f] = data'[src'[f]]
        BY <1>3, <2>1, <4>1, <4>2, <4>6
      <4> QED BY <4>7, <4>8 DEF CopiedSoFar
    <3> QED BY <3>1, <3>2, <3>3, <3>4, <3>5, <3>6, <3>7
  <2>3. LiveSynced(p, f) /\ src[f] # 0 => LiveSynced(p, f)'
    BY <1>1, <1>3, <2>2 DEF LiveSynced
  <2>4. GoneSynced(p, f) => GoneSynced(p, f)'
    BY <1>1, <1>3, <2>1 DEF GoneSynced
  <2> QED BY <2>1, <2>3, <2>4 DEF SyncedFor
<1> QED BY <1>4, <1>5

\* Users: the last event of a file says what became of it.
LEMMA OthersArrive ==
  ASSUME TypeInv, NEW p \in Daemons, NEW e \in Delivered, Arrives(p, e), NEW f \in Files, e.file # f,
         SyncedFor(p, f), UNCHANGED <<pc, event, fdOri, pos, dst>>, src'[f] = src[f],
         src[f] # 0 => data'[src[f]] = data[src[f]]
  PROVE  SyncedFor(p, f)'
<1> DEFINE n == Len(Coming(p))
<1>1. /\ n \in Nat /\ Len(Coming(p)') \in {n, n + 1} /\ Coming(p)'[Len(Coming(p)')] = e
      /\ \A j \in 1..n : j \in 1..Len(Coming(p)') /\ Coming(p)'[j] = Coming(p)[j]
  BY LenProperties DEF Arrives
<1>2. ASSUME NEW j \in 1..Len(Coming(p)'), Coming(p)'[j].file = f
      PROVE  j \in 1..n /\ Coming(p)'[j] = Coming(p)[j]
  <2>1. j # Len(Coming(p)')
    BY <1>1, <1>2
  <2> QED BY <1>1, <2>1
<1>3. \A k, kinds : After(p, f, k, kinds) => After(p, f, k, kinds)'
  BY <1>2 DEF After
<1>4. WrittenSince(p, f)' <=> WrittenSince(p, f)
  BY <1>1, <1>2 DEF WrittenSince
<1>5. Copies(p, f)' = Copies(p, f) /\ Begins(p, f)' = Begins(p, f) /\ Busy(p, f)' = Busy(p, f)
  BY DEF Copies, Begins, Busy
<1>6. src[f] # 0 /\ CopiedSoFar(p, f) => CopiedSoFar(p, f)'
  BY <1>4, <1>5 DEF CopiedSoFar
<1>7. src[f] # 0 /\ LiveSynced(p, f) => LiveSynced(p, f)'
  BY <1>1, <1>3, <1>5, <1>6 DEF LiveSynced
<1>8. GoneSynced(p, f) => GoneSynced(p, f)'
  BY <1>1, <1>3, <1>5 DEF GoneSynced
<1> QED BY <1>7, <1>8 DEF SyncedFor

LEMMA UsersSynced ==
  ASSUME TypeInv, User, NEW p \in Watching, NEW f \in Files \ unrepaired',
         f \notin unrepaired => SyncedFor(p, f)
  PROVE  SyncedFor(p, f)'
<1>0. /\ StoreTyped /\ p \in Daemons /\ f \in Files
      /\ UNCHANGED <<pc, event, fdOri, pos, dst>>
  BY DEF TypeInv, Watching, User, CreateFile, DeleteFile, ChangeMode, WriteFile,
         TruncateFile, MoveOut, MoveIn, RemoveSource, UserDoes
<1>1. ASSUME NEW op, NEW g, UserDoes(op, g), [kind |-> op, file |-> g] \in Delivered
      PROVE  Arrives(p, [kind |-> op, file |-> g])
  BY <1>1, Notified DEF UserDoes
<1>2. \A op \in FileKinds, g \in Files : [kind |-> op, file |-> g] \in Delivered
  BY DEF Delivered
\* The file itself.
<1>3. CASE CreateFile(f)
  <2> DEFINE e == [kind |-> "CREATE", file |-> f]
  <2>1. Arrives(p, e) /\ src'[f] = inodes + 1 /\ inodes + 1 # 0
    BY <1>0, <1>1, <1>2, <1>3 DEF CreateFile, FileKinds, StoreTyped
  <2>2. LiveSynced(p, f)'
    BY <2>1 DEF LiveSynced, After, Arrives
  <2> QED BY <2>1, <2>2 DEF SyncedFor
<1>4. CASE DeleteFile(f)
  <2> DEFINE e == [kind |-> "DELETE", file |-> f]
  <2>1. Arrives(p, e) /\ src'[f] = 0
    BY <1>0, <1>1, <1>2, <1>4 DEF DeleteFile, FileKinds, StoreTyped
  <2>2. GoneSynced(p, f)'
    BY <2>1 DEF GoneSynced, After, Arrives
  <2> QED BY <2>1, <2>2 DEF SyncedFor
<1>5. ASSUME NEW op \in {"MODIFY", "ATTRIB"}, UserDoes(op, f), src[f] # 0, src' = src, unrepaired' = unrepaired,
             op = "ATTRIB" => data' = data,
             Len(data[src[f]]) <= Len(data'[src[f]])
      PROVE  SyncedFor(p, f)'
  <2> DEFINE e == [kind |-> op, file |-> f]
             n == Len(Coming(p))
             kept == {"MODIFY", "ATTRIB"}
  <2>1. Arrives(p, e) /\ LiveSynced(p, f)
    BY <1>0, <1>1, <1>2, <1>5 DEF FileKinds, SyncedFor
  <2>2. /\ n \in Nat /\ Len(Coming(p)') \in {n, n + 1} /\ Len(Coming(p)') \in Nat \ {0}
        /\ Coming(p)'[Len(Coming(p)')] = e
        /\ \A j \in 1..n : j \in 1..Len(Coming(p)') /\ Coming(p)'[j] = Coming(p)[j]
    BY <2>1, LenProperties DEF Arrives
  <2>3. ASSUME NEW k, After(p, f, k, kept) PROVE After(p, f, k, kept)'
    <3> SUFFICES ASSUME NEW j \in 1..Len(Coming(p)'), k < j, Coming(p)'[j].file = f
                 PROVE  Coming(p)'[j].kind \in kept
      BY DEF After
    <3>1. CASE j = Len(Coming(p)')
      BY <2>2, <3>1
    <3>2. CASE j # Len(Coming(p)')
      <4>1. j \in 1..n /\ Coming(p)'[j] = Coming(p)[j]
        BY <2>2, <3>2
      <4> QED BY <2>3, <4>1 DEF After
    <3> QED BY <3>1, <3>2
  <2>4. Copies(p, f)' = Copies(p, f) /\ Begins(p, f)' = Begins(p, f)
    BY <1>0 DEF Copies, Begins, Busy
  <2>5. WrittenSince(p, f) => WrittenSince(p, f)'
    BY <2>2 DEF WrittenSince
  <2>6. op = "MODIFY" => WrittenSince(p, f)'
    BY <2>2 DEF WrittenSince
  <2>7. CopiedSoFar(p, f) => CopiedSoFar(p, f)'
    <3> SUFFICES ASSUME CopiedSoFar(p, f) PROVE CopiedSoFar(p, f)'
      OBVIOUS
    <3>1. Len(dst[f]) <= Len(data'[src[f]])
      <4>1. Len(dst[f]) \in Nat /\ Len(data[src[f]]) \in Nat /\ Len(dst[f]) <= Len(data[src[f]])
        BY <1>0, <1>5, LenProperties, SincroAssumption DEF StoreTyped, InodeIds, CopiedSoFar
      <4>2. Len(data'[src[f]]) \in Nat
        <5>1. TypeInv'
          BY UserTyped
        <5>2. StoreTyped'
          BY <5>1 DEF TypeInv
        <5>3. src'[f] = src[f] /\ src[f] \in InodeIds
          BY <1>0, <1>5, SincroAssumption DEF StoreTyped, InodeIds
        <5>4. data'[src[f]] \in Seq(Bytes)
          BY <5>2, <5>3 DEF StoreTyped
        <5> QED BY <5>4, LenProperties
      <4> QED BY <1>5, <4>1, <4>2
    <3>2. CASE op = "MODIFY"
      BY <1>0, <1>5, <2>4, <2>6, <3>1, <3>2 DEF CopiedSoFar
    <3>3. CASE op = "ATTRIB"
      BY <1>0, <1>5, <2>4, <2>5, <3>3 DEF CopiedSoFar
    <3> QED BY <3>2, <3>3
  <2>8. LiveSynced(p, f)'
    BY <2>1, <2>2, <2>3, <2>4, <2>7 DEF LiveSynced
  <2> QED BY <1>5, <2>8 DEF SyncedFor
<1>6. CASE ChangeMode(f)
  <2>1. /\ UserDoes("ATTRIB", f) /\ src[f] # 0 /\ src' = src /\ unrepaired' = unrepaired /\ data' = data
    BY <1>6 DEF ChangeMode
  <2>2. Len(data[src[f]]) \in Nat
    BY <1>0, <2>1, LenProperties, SincroAssumption DEF StoreTyped, InodeIds
  <2> QED BY <1>5, <2>1, <2>2
<1>7. ASSUME NEW i \in 1..MaxLen, NEW b \in Bytes, WriteFile(f, i, b) PROVE SyncedFor(p, f)'
  <2> DEFINE d == data[src[f]]
             new == IF i <= Len(d) THEN [d EXCEPT ![i] = b] ELSE Append(d, b)
  <2>1. /\ UserDoes("MODIFY", f) /\ src[f] # 0 /\ src' = src /\ unrepaired' = unrepaired
        /\ data' = [data EXCEPT ![src[f]] = new]
    BY <1>7 DEF WriteFile
  <2>2. src[f] \in InodeIds /\ src[f] \in DOMAIN data /\ d \in Seq(Bytes) /\ Len(d) \in Nat
    BY <1>0, <2>1, LenProperties, SincroAssumption DEF StoreTyped, InodeIds
  <2>3. data'[src[f]] = new
    BY <2>1, <2>2
  <2>4. Len(d) <= Len(new)
    <3> HIDE DEF d
    <3>1. CASE i <= Len(d)
      <4>1. i \in 1..Len(d)
        BY <2>2, <3>1, SincroAssumption
      <4> QED BY <2>2, <3>1, <4>1, ExceptSeq
    <3>2. CASE ~ (i <= Len(d))
      BY <2>2, <3>2, AppendProperties
    <3> QED BY <3>1, <3>2
  <2> HIDE DEF new
  <2> QED BY <1>5, <2>1, <2>3, <2>4
\* The other files.
<1>8. ASSUME NEW op \in FileKinds, NEW g \in Files, g # f, UserDoes(op, g), src'[f] = src[f],
             unrepaired' \in {unrepaired, unrepaired \cup {g}, unrepaired \ {g}},
             src[f] # 0 => data'[src[f]] = data[src[f]]
      PROVE  SyncedFor(p, f)'
  <2> DEFINE e == [kind |-> op, file |-> g]
  <2>1. e \in Delivered /\ Arrives(p, e) /\ e.file # f
    BY <1>1, <1>2, <1>8
  <2>2. f \notin unrepaired
    BY <1>8
  <2> HIDE DEF e
  <2>3. SyncedFor(p, f)
    BY <2>2
  <2> QED BY <1>0, <1>8, <2>1, <2>3, OthersArrive
<1>9. CASE RemoveSource
  <2>1. UserDoes("IGNORED", "NONE") /\ UNCHANGED <<src, data, unrepaired>>
    BY <1>9 DEF RemoveSource
  <2>2. Ignored \in Delivered /\ Ignored.file # f
    BY SincroAssumption DEF Delivered, Ignored
  <2>3. Arrives(p, Ignored)
    BY <1>1, <2>1, <2>2 DEF Ignored
  <2>4. SyncedFor(p, f)
    BY <2>1
  <2> QED BY <1>0, <2>1, <2>2, <2>3, <2>4, OthersArrive
<1>10. ASSUME NEW g \in Files, g # f, CreateFile(g) \/ DeleteFile(g) \/ ChangeMode(g) \/ MoveOut(g)
       PROVE  SyncedFor(p, f)'
  <2>1. /\ data' = data /\ src'[f] = src[f]
        /\ unrepaired' \in {unrepaired, unrepaired \cup {g}, unrepaired \ {g}}
        /\ \E op \in {"CREATE", "DELETE", "ATTRIB", "MOVED_FROM"} : UserDoes(op, g)
    BY <1>0, <1>10 DEF CreateFile, DeleteFile, ChangeMode, MoveOut, StoreTyped
  <2> QED BY <1>8, <1>10, <2>1 DEF FileKinds
<1>11. ASSUME NEW g \in Files, g # f,
              TruncateFile(g) \/ \E i \in 1..MaxLen, b \in Bytes : WriteFile(g, i, b)
       PROVE  SyncedFor(p, f)'
  <2>1. /\ src' = src /\ unrepaired' \in {unrepaired, unrepaired \cup {g}} /\ UserDoes("MODIFY", g)
        /\ \E d : data' = [data EXCEPT ![src[g]] = d] /\ src[g] # 0
    BY <1>11 DEF TruncateFile, WriteFile
  <2>2. src[f] # 0 => src[f] # src[g]
    BY <1>0, <1>11, <2>1 DEF StoreTyped
  <2>3. src[f] # 0 => data'[src[f]] = data[src[f]]
    BY <2>1, <2>2
  <2> QED BY <1>8, <1>11, <2>1, <2>3 DEF FileKinds
<1>12. ASSUME NEW g \in Files, NEW b \in Bytes, MoveIn(g, b) PROVE SyncedFor(p, f)'
  <2>1. /\ UserDoes("MOVED_TO", g) /\ unrepaired' = unrepaired \cup {g} /\ g # f
        /\ src'[f] = src[f] /\ \E d : data' = [data EXCEPT ![inodes + 1] = d]
    BY <1>0, <1>12 DEF MoveIn, StoreTyped
  <2>2. src[f] # inodes + 1
    BY <1>0 DEF StoreTyped
  <2>3. data'[src[f]] = data[src[f]]
    BY <2>1, <2>2
  <2> QED BY <1>8, <2>1, <2>3 DEF FileKinds
<1>13. ~TruncateFile(f) /\ ~MoveOut(f)
  BY DEF TruncateFile, MoveOut
<1> QED BY <1>3, <1>4, <1>6, <1>7, <1>9, <1>10, <1>11, <1>12, <1>13 DEF User

SyncInv == TypeInv /\ Quiet /\ Synced

LEMMA SyncInit == Init => SyncInv
<1> SUFFICES ASSUME Init PROVE SyncInv
  OBVIOUS
<1>1. TypeInv
  BY TypeInit
<1>2. \A p \in Daemons : Len(Coming(p)) = 0
  <2> SUFFICES ASSUME NEW p \in Daemons PROVE Len(Coming(p)) = 0
    OBVIOUS
  <2>1. queue[p] = <<>> /\ kernel[p] = <<>> /\ <<>> \in Seq(Delivered) /\ Len(<<>>) = 0
    BY EmptySeq DEF Init
  <2> QED BY <2>1, ConcatEmptySeq DEF Coming
<1>3. Quiet
  BY <1>2 DEF Init, Quiet
<1>4. \A p \in Daemons : watched[p] = 0
  BY DEF Init
<1>5. Synced
  BY <1>4 DEF Synced, Sole
<1> QED BY <1>1, <1>3, <1>5 DEF SyncInv

\* A daemon that is beyond the places where it starts stays there.
LEMMA QuietStep ==
  ASSUME TypeInv, Quiet, [Next]_vars
  PROVE  Quiet'
<1> SUFFICES ASSUME \A p \in Daemons : pc'[p] \in Early
             PROVE  /\ \A f \in Files : src'[f] = 0
                    /\ DOMAIN dst' = {} /\ \A p \in Daemons : Len(Coming(p)') = 0
  BY DEF Quiet
<1>0. pc \in [Daemons -> Places] /\ \A p \in Daemons : HandlerTyped(p)
  BY DEF TypeInv, DaemonsTyped
<1>1. CASE User
  <2>1. pc' = pc /\ Watching # {}
    BY <1>1 DEF User, CreateFile, DeleteFile, ChangeMode, WriteFile, TruncateFile, MoveOut, MoveIn,
                RemoveSource, UserDoes
  <2>2. \A p \in Watching : pc'[p] \notin Early
    BY <2>1 DEF Watching, Looping, Handling, Early
  <2> QED BY <2>1, <2>2 DEF Watching
<1>2. ASSUME NEW p \in Daemons, Daemon(p) \/ Signal(p)
      PROVE  /\ \A r \in Daemons : pc[r] \in Early
             /\ UNCHANGED <<src, dst, queue, kernel>>
  <2>1. pc'[p] \in Early
    OBVIOUS
  <2>2. CASE Lock(p) \/ InstallHandlers(p)
    BY <1>0, <2>2 DEF Lock, InstallHandlers, Go, Early, daemonVars, dirVars
  <2>3. CASE Sigint(p)
    BY <1>0, <2>1, <2>3 DEF Sigint, Early, dirVars
  <2>4. CASE WatchDir(p) \/ Check(p) \/ Poll(p) \/ Alarm(p) \/ ReadEvents(p) \/ QueueEmpty(p)
             \/ UnlinkLock(p) \/ Exit(p) \/ Sigterm(p) \/ Killed(p)
    BY <1>0, <2>1, <2>4 DEF WatchDir, Check, Poll, Alarm, ReadEvents, QueueEmpty,
       UnlinkLock, Exit, Sigterm, Killed, Go, Early
  <2>5. CASE Dequeue(p)
    BY <1>0, <2>1, <2>5 DEF Dequeue, Handler, Go, Early
  <2>6. CASE Stat(p) \/ Creat(p) \/ OpenDst(p) \/ OpenSrc(p) \/ Copia(p) \/ CopiaEnds(p)
    BY <1>0, <2>1, <2>6 DEF Stat, Creat, OpenDst, OpenSrc, Copia, CopiaEnds, Handled, Go, Early
  <2> QED BY <1>2, <2>2, <2>3, <2>4, <2>5, <2>6 DEF Daemon, Signal
<1>3. CASE UNCHANGED vars
  BY <1>3 DEF vars, daemonVars, Quiet, dirVars, Coming
<1>4. ASSUME NEW p \in Daemons, Daemon(p) \/ Signal(p)
      PROVE  /\ \A f \in Files : src'[f] = 0
             /\ DOMAIN dst' = {} /\ \A r \in Daemons : Len(Coming(r)') = 0
  <2>1. /\ \A r \in Daemons : pc[r] \in Early
        /\ UNCHANGED <<src, dst, queue, kernel>>
    BY <1>2, <1>4
  <2>2. \A r \in Daemons : Coming(r)' = Coming(r)
    BY <2>1 DEF Coming
  <2> QED BY <2>1, <2>2 DEF Quiet
<1> QED BY <1>1, <1>3, <1>4 DEF Next

\* The step of another daemon ends the time in which p is the only one, or changes nothing.
LEMMA OthersSynced ==
  ASSUME TypeInv, NEW p \in Daemons, NEW r \in Daemons, r # p, Daemon(r) \/ Signal(r), Sole(p)'
  PROVE  Sole(p) /\ UNCHANGED <<queue, kernel, event, fdOri, pos, src, data, dst, unrepaired>> /\ pc'[p] = pc[p]
<1>0. pc \in [Daemons -> Places] /\ \A q \in Daemons : HandlerTyped(q)
  BY DEF TypeInv, DaemonsTyped
<1>1. pc'[r] \in {"none", "refused"} /\ \A q \in Daemons \ {p} : pc'[q] \in {"none", "refused"}
  BY DEF Sole
<1>2. CASE Lock(r)
  <2>1. /\ pc[r] = "none" /\ \A q \in Daemons \ {r} : pc'[q] = pc[q]
        /\ UNCHANGED <<watched, queue, kernel, event, fdOri, pos, src, data, dst, unrepaired>>
    BY <1>0, <1>2 DEF Lock, Go, daemonVars
  <2> QED BY <1>1, <2>1 DEF Sole
<1>3. CASE Sigint(r) \/ InstallHandlers(r)
  BY <1>0, <1>1, <1>3 DEF Sigint, InstallHandlers, Go, Looping, Handling
<1>4. CASE WatchDir(r) \/ Check(r) \/ Poll(r) \/ Alarm(r) \/ ReadEvents(r) \/ QueueEmpty(r)
           \/ UnlinkLock(r) \/ Exit(r) \/ Sigterm(r) \/ Killed(r)
  BY <1>0, <1>1, <1>4 DEF WatchDir, Check, Poll, Alarm, ReadEvents, QueueEmpty,
     UnlinkLock, Exit, Sigterm, Killed, Go
<1>5. CASE Dequeue(r)
  BY <1>0, <1>1, <1>5 DEF Dequeue, Handler, Go
<1>6. CASE Stat(r) \/ Creat(r) \/ OpenDst(r) \/ OpenSrc(r) \/ Copia(r) \/ CopiaEnds(r)
  BY <1>0, <1>1, <1>6 DEF Stat, Creat, OpenDst, OpenSrc, Copia, CopiaEnds, Handled, Go
<1> QED BY <1>2, <1>3, <1>4, <1>5, <1>6 DEF Daemon, Signal

\* The step of p itself.
LEMMA OwnSynced ==
  ASSUME SyncInv, NEW p \in Daemons, Daemon(p) \/ Signal(p), Sole(p)', NEW f \in Files \ unrepaired'
  PROVE  SyncedFor(p, f)'
<1>0. /\ TypeInv /\ pc \in [Daemons -> Places] /\ HandlerTyped(p) /\ f \in Files
      /\ watched \in [Daemons -> {0, 1}]
  BY DEF SyncInv, TypeInv, DaemonsTyped
<1>1. /\ pc'[p] \in Looping /\ watched'[p] > 0
      /\ \A r \in Daemons \ {p} : pc'[r] \in {"none", "refused"}
  BY DEF Sole
<1>2. /\ \A r \in Daemons \ {p} : pc'[r] = pc[r]
      /\ ~WatchDir(p) => pc[p] \in Looping /\ watched[p] > 0
      /\ unrepaired' = unrepaired
  <2>1. CASE Lock(p) \/ InstallHandlers(p) \/ UnlinkLock(p) \/ Exit(p) \/ Sigterm(p) \/ Killed(p)
    <3>1. pc'[p] \notin Looping
      BY <1>0, <2>1 DEF Lock, InstallHandlers, UnlinkLock, Exit, Sigterm, Killed, Go, Looping, Handling
    <3> QED BY <1>1, <3>1
  <2>2. CASE WatchDir(p) \/ Check(p) \/ Poll(p) \/ Alarm(p) \/ ReadEvents(p) \/ QueueEmpty(p)
    BY <1>0, <1>1, <2>2 DEF WatchDir, Check, Poll, Alarm, ReadEvents, QueueEmpty, Go, Looping,
       daemonVars, dirVars
  <2>3. CASE Dequeue(p)
    <3>1. watched'[p] = WatchedAfter(Head(queue[p]).kind, watched[p])
          /\ WatchedAfter(Head(queue[p]).kind, watched[p]) <= watched[p]
      <4>1. watched[p] \in {0, 1}
        BY <1>0
      <4>2. WatchedAfter(Head(queue[p]).kind, watched[p]) <= watched[p]
        BY <4>1 DEF WatchedAfter
      <4>3. watched' = [watched EXCEPT ![p] = WatchedAfter(Head(queue[p]).kind, @)]
        BY <2>3 DEF Dequeue
      <4> QED BY <1>0, <4>2, <4>3
    <3>2. watched[p] > 0
      <4>1. watched[p] \in {0, 1} /\ watched'[p] \in {0, 1, -1}
        BY <1>0, <3>1 DEF WatchedAfter
      <4> QED BY <1>1, <3>1, <4>1
    <3> QED BY <1>0, <2>3, <3>2 DEF Dequeue, Go, Looping, dirVars
  <2>4. CASE Stat(p) \/ Creat(p) \/ OpenDst(p) \/ OpenSrc(p) \/ Copia(p) \/ CopiaEnds(p)
    <3>1. pc[p] \in Handling /\ unrepaired' = unrepaired
      BY <2>4 DEF Stat, Creat, OpenDst, OpenSrc, Copia, CopiaEnds, Handled, Go, dirVars, Handling
    <3>2. pc'[p] # "ended"
      BY <1>1 DEF Looping, Handling
    <3>3. watched'[p] = watched[p]
      BY <1>0, <2>4, <3>2 DEF Stat, Creat, OpenDst, OpenSrc, Copia, CopiaEnds, Handled, Go, daemonVars
    <3>4. \A r \in Daemons \ {p} : pc'[r] = pc[r]
      BY <1>0, <2>4 DEF Stat, Creat, OpenDst, OpenSrc, Copia, CopiaEnds, Handled, Go
    <3> QED BY <1>1, <3>1, <3>3, <3>4 DEF Looping
  <2>5. CASE Sigint(p)
    <3>1. pc[p] \in {"init"} \cup Looping /\ UNCHANGED <<watched, unrepaired>>
          /\ pc'[p] \in {pc[p], "check"} /\ (pc[p] # "waiting" => pc'[p] = pc[p])
          /\ \A r \in Daemons \ {p} : pc'[r] = pc[r]
      BY <1>0, <2>5 DEF Sigint, dirVars
    <3> QED BY <1>1, <3>1 DEF Looping
  <2> QED BY <2>1, <2>2, <2>3, <2>4, <2>5 DEF Daemon, Signal
<1>3. CASE WatchDir(p)
  <2>1. /\ pc[p] = "init" /\ UNCHANGED <<queue, kernel, src, dst>> /\ pc'[p] \in {"check", "cleanup"}
    BY <1>0, <1>3 DEF WatchDir, Go, dirVars
  <2>2. \A r \in Daemons : pc[r] \in Early
    BY <1>1, <1>2, <2>1 DEF Early
  <2>3. src[f] = 0 /\ DOMAIN dst = {} /\ Len(Coming(p)) = 0
    BY <1>0, <2>2 DEF SyncInv, Quiet
  <2>4. Coming(p)' = Coming(p)
    BY <2>1 DEF Coming
  <2>5. ~Busy(p, f)'
    BY <2>1 DEF Busy, Handling
  <2>6. \A j \in 1..Len(Coming(p)') : FALSE
    BY <2>3, <2>4
  <2>7. GoneSynced(p, f)'
    BY <2>1, <2>3, <2>5, <2>6 DEF GoneSynced, After
  <2> QED BY <2>1, <2>3, <2>7 DEF SyncedFor
<1>4. CASE ~WatchDir(p)
  <2>1. Sole(p) /\ f \in Files \ unrepaired
    BY <1>1, <1>2, <1>4 DEF Sole
  <2>2. SyncedFor(p, f)
    BY <2>1 DEF SyncInv, Synced
  <2>3. CASE Check(p) \/ Poll(p) \/ Alarm(p) \/ QueueEmpty(p) \/ ReadEvents(p) \/ Sigint(p)
    <3>1. Coming(p)' = Coming(p)
      <4>1. CASE ReadEvents(p)
        BY <1>0, <4>1, ReadOrder
      <4>2. CASE ~ReadEvents(p)
        BY <2>3, <4>2 DEF Check, Poll, Alarm, QueueEmpty, Sigint, daemonVars, Coming
      <4> QED BY <4>1, <4>2
    <3>2. UNCHANGED <<src, data, dst>> /\ UNCHANGED <<event, fdOri, pos>>
      BY <2>3 DEF Check, Poll, Alarm, QueueEmpty, ReadEvents, Sigint, daemonVars, dirVars
    <3>3. pc'[p] = pc[p] \/ (pc[p] \notin Handling /\ pc'[p] \notin Handling)
      BY <1>0, <2>3 DEF Check, Poll, Alarm, QueueEmpty, ReadEvents, Sigint, Go, Handling
    <3>4. CASE pc'[p] = pc[p]
      BY <1>0, <2>2, <3>1, <3>2, <3>4, Unaffected
    <3>5. CASE pc[p] \notin Handling /\ pc'[p] \notin Handling
      <4>1. ~Busy(p, f) /\ ~Busy(p, f)'
        BY <3>5 DEF Busy
      <4> QED BY <1>0, <2>2, <3>1, <3>2, <4>1, Unaffected
    <3> QED BY <3>3, <3>4, <3>5
  <2>4. CASE Dequeue(p)
    BY <1>0, <2>2, <2>4, DequeueSynced
  <2>5. CASE Creat(p) \/ OpenDst(p) \/ OpenSrc(p) \/ Copia(p) \/ CopiaEnds(p)
             \/ (Stat(p) /\ src[event[p].file] # 0)
    BY <1>0, <2>2, <2>5, HandlersSynced
  <2>6. CASE \/ Stat(p) /\ src[event[p].file] = 0
             \/ Lock(p) \/ InstallHandlers(p) \/ UnlinkLock(p) \/ Exit(p) \/ Sigterm(p) \/ Killed(p)
    <3>1. pc'[p] \notin Looping
      BY <1>0, <2>6 DEF Stat, Lock, InstallHandlers, UnlinkLock, Exit, Sigterm, Killed, Go, Looping, Handling
    <3> QED BY <1>1, <3>1
  <2> QED BY <1>4, <2>3, <2>4, <2>5, <2>6 DEF Daemon, Signal
<1> QED BY <1>3, <1>4

LEMMA SyncStep ==
  ASSUME SyncInv, [Next]_vars
  PROVE  SyncInv'
<1>0. TypeInv /\ Quiet
  BY DEF SyncInv
<1>1. TypeInv' /\ Quiet'
  BY <1>0, TypeStep, QuietStep
<1>2. ASSUME NEW p \in Daemons, Sole(p)', NEW f \in Files \ unrepaired' PROVE SyncedFor(p, f)'
  <2>1. CASE User
    <3>1. UNCHANGED <<pc, watched>>
      BY <2>1 DEF User, CreateFile, DeleteFile, ChangeMode, WriteFile, TruncateFile, MoveOut, MoveIn,
                  RemoveSource, UserDoes
    <3>2. Sole(p) /\ p \in Watching
      BY <1>2, <3>1 DEF Sole, Watching
    <3>3. f \notin unrepaired => SyncedFor(p, f)
      BY <1>2, <3>2 DEF SyncInv, Synced
    <3> QED BY <1>0, <1>2, <2>1, <3>2, <3>3, UsersSynced
  <2>2. ASSUME NEW r \in Daemons, Daemon(r) \/ Signal(r) PROVE SyncedFor(p, f)'
    <3>1. CASE r = p
      BY <1>2, <2>2, <3>1, OwnSynced
    <3>2. CASE r # p
      <4>1. /\ Sole(p) /\ pc'[p] = pc[p]
            /\ UNCHANGED <<queue, kernel, event, fdOri, pos, src, data, dst, unrepaired>>
        BY <1>0, <1>2, <2>2, <3>2, OthersSynced
      <4>2. SyncedFor(p, f) /\ f \in Files
        BY <1>2, <4>1 DEF SyncInv, Synced
      <4>3. Coming(p)' = Coming(p)
        BY <4>1 DEF Coming
      <4> QED BY <4>1, <4>2, <4>3, Unaffected
    <3> QED BY <3>1, <3>2
  <2>3. CASE UNCHANGED vars
    <3>1. UNCHANGED <<pc, watched, queue, kernel, event, fdOri, pos, src, data, dst, unrepaired>>
      BY <2>3 DEF vars, daemonVars, dirVars
    <3>2. Sole(p)
      BY <1>2, <3>1 DEF Sole
    <3>3. SyncedFor(p, f) /\ f \in Files
      BY <1>2, <3>1, <3>2 DEF SyncInv, Synced
    <3>4. Coming(p)' = Coming(p)
      BY <3>1 DEF Coming
    <3> QED BY <3>1, <3>3, <3>4, Unaffected
  <2> QED BY <2>1, <2>2, <2>3 DEF Next
<1>3. Synced'
  BY <1>2 DEF Synced
<1> QED BY <1>1, <1>3 DEF SyncInv

\* What is to come is in the kernel or in the queue.
LEMMA ComingPending ==
  ASSUME TypeInv, NEW p \in Daemons, NEW i \in 1..Len(Coming(p)), NEW f, Coming(p)[i].file = f
  PROVE  Pending(p, f)
<1> DEFINE q == queue[p]
           k == kernel[p]
<1>1. q \in Seq(Delivered) /\ k \in Seq(Delivered) /\ Len(q) \in Nat /\ Len(k) \in Nat
  BY LenProperties DEF TypeInv, DaemonsTyped
<1>2. Coming(p) = q \o k
  BY DEF Coming
<1> HIDE DEF q, k
<1>3. /\ Len(q \o k) = Len(q) + Len(k)
      /\ \A j \in 1..(Len(q) + Len(k)) : (q \o k)[j] = IF j <= Len(q) THEN q[j] ELSE k[j - Len(q)]
  BY <1>1, ConcatProperties
<1>4. (\A j \in 1..Len(q) : q[j] \in ToSet(q)) /\ \A j \in 1..Len(k) : k[j] \in ToSet(k)
  BY <1>1, LenProperties DEF ToSet
<1>5. Coming(p)[i] \in ToSet(k) \cup ToSet(q)
  <2>1. CASE i <= Len(q)
    BY <1>1, <1>2, <1>3, <1>4, <2>1
  <2>2. CASE ~ (i <= Len(q))
    <3>1. i - Len(q) \in 1..Len(k) /\ i \in 1..(Len(q) + Len(k))
      BY <1>1, <1>2, <1>3, <2>2
    <3>2. Coming(p)[i] = k[i - Len(q)]
      BY <1>2, <1>3, <2>2, <3>1
    <3> QED BY <1>4, <3>1, <3>2
  <2> QED BY <2>1, <2>2
<1>6. \E e \in ToSet(kernel[p]) \cup ToSet(queue[p]) \cup {event[p]} : e.file = f
  BY <1>5 DEF q, k
<1> QED BY <1>6 DEF Pending

LEMMA SyncGiven == SyncInv => NoDifferenceForgotten
<1> SUFFICES ASSUME SyncInv, NEW p \in Watching, NEW f \in Files \ unrepaired,
                    \A r \in Daemons \ {p} : pc[r] \in {"none", "refused"}
             PROVE  Same(f) \/ Pending(p, f)
  BY DEF NoDifferenceForgotten
<1>1. TypeInv /\ p \in Daemons /\ Sole(p)
  BY DEF SyncInv, Watching, Sole
<1>2. SyncedFor(p, f)
  BY <1>1 DEF SyncInv, Synced
<1>3. Busy(p, f) => Pending(p, f)
  BY DEF Busy, Pending
<1>4. CASE src[f] # 0
  <2>1. LiveSynced(p, f)
    BY <1>2, <1>4 DEF SyncedFor
  <2>2. CASE \E k \in 1..Len(Coming(p)) : Coming(p)[k] = [kind |-> "CREATE", file |-> f]
    <3>1. PICK k \in 1..Len(Coming(p)) : Coming(p)[k].file = f
      BY <2>2
    <3> QED BY <1>1, <3>1, ComingPending
  <2>3. CASE Begins(p, f)
    BY <1>3, <2>3 DEF Begins, Copies
  <2>4. CASE CopiedSoFar(p, f)
    <3>1. CASE Copies(p, f)
      BY <1>3, <3>1 DEF Copies
    <3>2. CASE WrittenSince(p, f)
      <4>1. PICK k \in 1..Len(Coming(p)) : Coming(p)[k].file = f
        BY <3>2 DEF WrittenSince
      <4> QED BY <1>1, <4>1, ComingPending
    <3>3. CASE ~Copies(p, f) /\ ~WrittenSince(p, f)
      BY <1>4, <2>4, <3>3 DEF CopiedSoFar, Same
    <3> QED BY <3>1, <3>2, <3>3
  <2> QED BY <2>1, <2>2, <2>3, <2>4 DEF LiveSynced
<1>5. CASE src[f] = 0
  <2>1. GoneSynced(p, f)
    BY <1>2, <1>5 DEF SyncedFor
  <2>2. CASE \E k \in 1..Len(Coming(p)) : Coming(p)[k] = [kind |-> "DELETE", file |-> f]
    <3>1. PICK k \in 1..Len(Coming(p)) : Coming(p)[k].file = f
      BY <2>2
    <3> QED BY <1>1, <3>1, ComingPending
  <2>3. CASE f \notin DOMAIN dst
    BY <1>5, <2>3 DEF Same
  <2> QED BY <2>1, <2>2, <2>3 DEF GoneSynced
<1> QED BY <1>4, <1>5

\* Whatever users do between the steps of the handlers, and however the events are read
\* and queued: a file that differs from its copy has an event still to come, or one that
\* is being handled, unless it was cut short or moved since it was last created or deleted.
THEOREM DifferencesKept == Spec => []NoDifferenceForgotten
<1>1. Init => SyncInv
  BY SyncInit
<1>2. SyncInv /\ [Next]_vars => SyncInv'
  BY SyncStep
<1>3. SyncInv => NoDifferenceForgotten
  BY SyncGiven
<1> QED BY <1>1, <1>2, <1>3, PTL DEF Spec

=============================================================================
