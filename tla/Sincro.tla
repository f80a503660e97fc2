------------------------------- MODULE Sincro -------------------------------
(***************************************************************************)
(* The daemon of src/Demonio: it watches a source directory with inotify   *)
(* and repeats in the destination directory what happens there.  Several   *)
(* daemons of one user may be started; the file sincro.lock is to keep all *)
(* but one away.  Users change the source directory while the daemon       *)
(* handles earlier events, and signals arrive at any time.                 *)
(*                                                                         *)
(* The kernel (directories, inotify, signals) is modelled from how the     *)
(* code uses it.  Only files are replicated; modes, subdirectories and the *)
(* event counter are left out.                                             *)
(***************************************************************************)
EXTENDS Integers, SequencesExt

CONSTANTS
    NumDaemons,   \* processes that run the program, numbered as they are started
    Files,        \* names in the source directory
    Bytes,        \* contents of one TAM_BLOQUE
    MaxLen,       \* bound: blocks of a file
    MaxInodes,    \* bound: files ever created in the source directory
    MaxChanges    \* bound: changes by users, and starts of further daemons

ASSUME SincroAssumption ==
    /\ NumDaemons \in Nat /\ MaxLen \in Nat \ {0} /\ MaxInodes \in Nat /\ MaxChanges \in Nat
    /\ "NONE" \notin Files        \* stands for no file

VARIABLES
    pc,           \* where each daemon is
    keepRunning,  \* keep_running
    watched,      \* watched_items
    kernel,       \* events the daemon's inotify descriptor has not delivered
    queue,        \* the event queue q
    event,        \* the event that is being handled
    fdOri,        \* i-node open as fd_ori, 0 for none
    pos,          \* blocks copied so far
    lockFile,     \* sincro.lock exists
    srcDir,       \* the source directory exists
    src,          \* its files: i-node by name, 0 for none
    data,         \* content by i-node, a sequence of blocks
    dst,          \* destination directory: content by name; its domain is what exists
    inodes,       \* i-nodes used
    changes,      \* changes made and further daemons started by users
    unrepaired,   \* ghost: files cut short or moved since they were last created or deleted
    robbed        \* ghost: a daemon that was ending has removed the lock of one that worked

daemonVars == <<keepRunning, watched, kernel, queue, event, fdOri, pos>>
dirVars == <<srcDir, src, data, inodes, changes, unrepaired>>
lockVars == <<lockFile, robbed>>
vars == <<pc, daemonVars, lockVars, dirVars, dst>>

NoEvent == [kind |-> "NONE", file |-> "NONE"]
Daemons == 1..NumDaemons
InodeIds == 1..MaxInodes

\* Places where the daemon holds the lock, and where it handles an event.
Handling == {"stat", "creat", "opendst", "opensrc", "copy"}
Looping == {"check", "poll", "waiting", "take"} \cup Handling
Working == {"locked", "init", "cleanup", "unlink"} \cup Looping
Ending == {"closing", "late", "exit", "ended"}

Init ==
    /\ pc = [p \in Daemons |-> "none"]
    /\ keepRunning = [p \in Daemons |-> TRUE]
    /\ watched = [p \in Daemons |-> 0]
    /\ kernel = [p \in Daemons |-> <<>>]
    /\ queue = [p \in Daemons |-> <<>>]
    /\ event = [p \in Daemons |-> NoEvent]
    /\ fdOri = [p \in Daemons |-> 0]
    /\ pos = [p \in Daemons |-> 0]
    /\ lockFile = FALSE
    /\ srcDir = TRUE
    /\ src = [f \in Files |-> 0]
    /\ data = [i \in InodeIds |-> <<>>]
    /\ dst = [f \in {} |-> <<>>]
    /\ inodes = 0
    /\ changes = 0
    /\ unrepaired = {} /\ robbed = FALSE

Go(p, from, to) == pc[p] = from /\ pc' = [pc EXCEPT ![p] = to]

-----------------------------------------------------------------------------
(* Start *)

\* Wrong: without O_EXCL.
LockFreeAlways == TRUE

LockFree == ~lockFile

\* confFicheroLock: the file is created, or the process exits.
Lock(p) ==
    /\ pc[p] = "none" /\ \A r \in 1..(p - 1) : pc[r] # "none"
    /\ p > 1 => changes < MaxChanges
    /\ changes' = IF p > 1 THEN changes + 1 ELSE changes
    /\ IF LockFree
       THEN lockFile' = TRUE /\ Go(p, "none", "locked")
       ELSE Go(p, "none", "refused") /\ UNCHANGED lockFile
    /\ UNCHANGED <<daemonVars, robbed, srcDir, src, data, inodes, unrepaired, dst>>

\* The alarm and the signal handlers are set up.
InstallHandlers(p) ==
    /\ Go(p, "locked", "init")
    /\ UNCHANGED <<daemonVars, lockVars, dirVars, dst>>

\* open_inotify_fd and watch_dir; without a source directory there is nothing to do.
WatchDir(p) ==
    /\ pc[p] = "init"
    /\ IF srcDir
       THEN watched' = [watched EXCEPT ![p] = 1] /\ Go(p, "init", "check")
       ELSE Go(p, "init", "cleanup") /\ UNCHANGED watched
    /\ UNCHANGED <<keepRunning, kernel, queue, event, fdOri, pos, lockVars, dirVars, dst>>

-----------------------------------------------------------------------------
(* process_inotify_events *)

\* The condition of the loop.  A signal may still come before poll is entered.
Check(p) ==
    /\ pc[p] = "check"
    /\ Go(p, "check", IF keepRunning[p] /\ watched[p] > 0 THEN "poll" ELSE "cleanup")
    /\ UNCHANGED <<daemonVars, lockVars, dirVars, dst>>

\* event_check: the call of poll
Poll(p) ==
    /\ Go(p, "poll", "waiting")
    /\ UNCHANGED <<daemonVars, lockVars, dirVars, dst>>

\* Wrong: the timer is not armed.
AlarmArmedNot == FALSE

\* setitimer with the seconds of sincro.conf, which are not 0
AlarmArmed == TRUE

\* A poll that waits is interrupted by the next SIGALRM; it is not restarted.
Alarm(p) ==
    /\ AlarmArmed
    /\ kernel[p] = <<>> /\ Go(p, "waiting", "check")
    /\ UNCHANGED <<daemonVars, lockVars, dirVars, dst>>

\* Wrong: only the first event of the buffer is looked at.
ParsedFirst(buffer) == <<Head(buffer)>>

Parsed(buffer) == buffer

\* poll returns, and read_events takes and queues as many events as its buffer holds.
ReadEvents(p) ==
    /\ Go(p, "waiting", "take")
    /\ \E n \in 1..Len(kernel[p]) :
         /\ queue' = [queue EXCEPT ![p] = @ \o Parsed(SubSeq(kernel[p], 1, n))]
         /\ kernel' = [kernel EXCEPT ![p] = SubSeq(@, n + 1, Len(@))]
    /\ UNCHANGED <<keepRunning, watched, event, fdOri, pos, lockVars, dirVars, dst>>

QueueEmpty(p) ==
    /\ queue[p] = <<>> /\ Go(p, "take", "check")
    /\ UNCHANGED <<daemonVars, lockVars, dirVars, dst>>

\* Wrong: a file that is deleted counts, too.
WatchedAfterDelete(kind, n) == IF kind \in {"IGNORED", "DELETE"} THEN n - 1 ELSE n

WatchedAfter(kind, n) == IF kind = "IGNORED" THEN n - 1 ELSE n

\* Where handle_event goes first; MOVED and IGNORED events copy nothing.
Handler(kind) ==
    CASE kind \in {"CREATE", "ATTRIB"} -> "stat"
      [] kind = "MODIFY" -> "opendst"
      [] OTHER -> "take"

\* queue_dequeue and handle_event; the DELETE handler is the one call of remove.
Dequeue(p) ==
    /\ queue[p] # <<>>
    /\ LET e == Head(queue[p]) IN
       /\ queue' = [queue EXCEPT ![p] = Tail(@)]
       /\ event' = [event EXCEPT ![p] = IF Handler(e.kind) = "take" THEN NoEvent ELSE e]
       /\ watched' = [watched EXCEPT ![p] = WatchedAfter(e.kind, @)]
       /\ dst' = [f \in DOMAIN dst \ {x \in Files : e = [kind |-> "DELETE", file |-> x]} |->
                    dst[f]]
       /\ Go(p, "take", Handler(e.kind))
    /\ UNCHANGED <<keepRunning, kernel, fdOri, pos, lockVars, dirVars>>

-----------------------------------------------------------------------------
(* copy_event_des *)

\* The handler of the event returns.
Handled(p, from) ==
    /\ Go(p, from, "take")
    /\ event' = [event EXCEPT ![p] = NoEvent]
    /\ fdOri' = [fdOri EXCEPT ![p] = 0]
    /\ pos' = [pos EXCEPT ![p] = 0]

\* stat fails when the file has gone since: exit(-1), without any cleaning up.
Stat(p) ==
    LET f == event[p].file IN
    /\ pc[p] = "stat"
    /\ \/ /\ src[f] = 0
          /\ Go(p, "stat", "ended")
          /\ event' = [event EXCEPT ![p] = NoEvent]
          /\ watched' = [watched EXCEPT ![p] = 0]
          /\ kernel' = [kernel EXCEPT ![p] = <<>>]
          /\ queue' = [queue EXCEPT ![p] = <<>>]
          /\ UNCHANGED <<fdOri, pos>>
       \/ /\ src[f] # 0 /\ event[p].kind = "CREATE"
          /\ Go(p, "stat", "creat")
          /\ UNCHANGED <<event, watched, kernel, queue, fdOri, pos>>
       \/ /\ src[f] # 0 /\ event[p].kind = "ATTRIB"     \* chmod
          /\ Handled(p, "stat")
          /\ UNCHANGED <<watched, kernel, queue>>
    /\ UNCHANGED <<keepRunning, lockVars, dirVars, dst>>

\* creat makes an empty file of whatever was there.
Creat(p) ==
    LET f == event[p].file IN
    /\ Go(p, "creat", "opensrc")
    /\ dst' = [x \in DOMAIN dst \cup {f} |-> IF x = f THEN <<>> ELSE dst[x]]
    /\ UNCHANGED <<daemonVars, lockVars, dirVars>>

\* MODIFY: open without O_CREAT and O_TRUNC; nothing to do if there is no such file.
OpenDst(p) ==
    /\ pc[p] = "opendst"
    /\ IF event[p].file \in DOMAIN dst
       THEN Go(p, "opendst", "opensrc") /\ UNCHANGED <<event, fdOri, pos>>
       ELSE Handled(p, "opendst")
    /\ UNCHANGED <<keepRunning, watched, kernel, queue, lockVars, dirVars, dst>>

OpenSrc(p) ==
    /\ Go(p, "opensrc", "copy")
    /\ fdOri' = [fdOri EXCEPT ![p] = src[event[p].file]]
    /\ UNCHANGED <<keepRunning, watched, kernel, queue, event, pos, lockVars, dirVars, dst>>

AtEnd(p) == fdOri[p] # 0 => pos[p] >= Len(data[fdOri[p]])

\* copia: one block is read from the open i-node and written over the same block of
\* the destination.
Copia(p) ==
    LET f == event[p].file
        block == data[fdOri[p]][pos[p] + 1]
    IN
    /\ pc[p] = "copy" /\ ~AtEnd(p)
    /\ dst' = [dst EXCEPT ![f] = IF pos[p] < Len(@) THEN [@ EXCEPT ![pos[p] + 1] = block]
                                 ELSE Append(@, block)]
    /\ pos' = [pos EXCEPT ![p] = @ + 1]
    /\ UNCHANGED <<pc, keepRunning, watched, kernel, queue, event, fdOri, lockVars, dirVars>>

CopiaEnds(p) ==
    /\ AtEnd(p) /\ Handled(p, "copy")
    /\ UNCHANGED <<keepRunning, watched, kernel, queue, lockVars, dirVars, dst>>

-----------------------------------------------------------------------------
(* The end *)

\* unlink(rutaLock): by main after the loop ("cleanup"), or by handler_daemon_clean, which
\* has interrupted main before ("unlink") or after ("late") main's own.  Nobody looks
\* whose file it is.
UnlinkLock(p) ==
    /\ pc[p] \in {"cleanup", "unlink", "late"}
    /\ Go(p, pc[p], IF pc[p] = "cleanup" THEN "closing" ELSE "exit")
    /\ lockFile' = FALSE
    /\ robbed' = (robbed \/ (pc[p] = "late" /\ \E r \in Daemons : pc[r] \in Working))
    /\ UNCHANGED <<daemonVars, dirVars, dst>>

\* close_inotify_fd, queue_destroy and the end of the process.
Exit(p) ==
    /\ pc[p] \in {"closing", "exit"} /\ Go(p, pc[p], "ended")
    /\ watched' = [watched EXCEPT ![p] = 0]
    /\ kernel' = [kernel EXCEPT ![p] = <<>>]
    /\ queue' = [queue EXCEPT ![p] = <<>>]
    /\ UNCHANGED <<keepRunning, event, fdOri, pos, lockVars, dirVars, dst>>

\* signal_handler; a poll that waits returns.
Sigint(p) ==
    /\ pc[p] \in {"init"} \cup Looping /\ keepRunning[p]
    /\ keepRunning' = [keepRunning EXCEPT ![p] = FALSE]
    /\ pc' = [pc EXCEPT ![p] = IF @ = "waiting" /\ kernel[p] = <<>> THEN "check" ELSE @]
    /\ UNCHANGED <<watched, kernel, queue, event, fdOri, pos, lockVars, dirVars, dst>>

\* handler_daemon_clean interrupts whatever the daemon does, its own end included, and
\* never returns to it.  The signal is blocked while its handler runs.
Sigterm(p) ==
    /\ pc[p] \in {"init", "cleanup", "closing"} \cup Looping
    /\ pc' = [pc EXCEPT ![p] = IF @ = "closing" THEN "late" ELSE "unlink"]
    /\ event' = [event EXCEPT ![p] = NoEvent]
    /\ fdOri' = [fdOri EXCEPT ![p] = 0]
    /\ pos' = [pos EXCEPT ![p] = 0]
    /\ UNCHANGED <<keepRunning, watched, kernel, queue, lockVars, dirVars, dst>>

\* Before there are handlers a signal ends the process at once.
Killed(p) ==
    /\ Go(p, "locked", "ended")
    /\ UNCHANGED <<daemonVars, lockVars, dirVars, dst>>

-----------------------------------------------------------------------------
(* The users of the source directory.  It changes only while it is watched: nothing *)
(* in the program looks at what is there when it starts.                            *)

Watching == {p \in Daemons : watched[p] > 0 /\ pc[p] \in Looping}

\* inotify adds an event to every watcher, unless it is the one added last.
Notify(e) ==
    kernel' = [p \in Daemons |->
        IF p \notin Watching \/ (kernel[p] # <<>> /\ Last(kernel[p]) = e) THEN kernel[p]
        ELSE Append(kernel[p], e)]

UserDoes(op, f) ==
    /\ srcDir /\ Watching # {} /\ changes < MaxChanges
    /\ changes' = changes + 1
    /\ Notify([kind |-> op, file |-> f])
    /\ UNCHANGED <<pc, keepRunning, watched, queue, event, fdOri, pos, lockVars, dst>>

CreateFile(f) ==
    /\ src[f] = 0 /\ inodes < MaxInodes
    /\ UserDoes("CREATE", f)
    /\ src' = [src EXCEPT ![f] = inodes + 1]
    /\ inodes' = inodes + 1
    /\ unrepaired' = unrepaired \ {f}
    /\ UNCHANGED <<srcDir, data>>

DeleteFile(f) ==
    /\ src[f] # 0
    /\ UserDoes("DELETE", f)
    /\ src' = [src EXCEPT ![f] = 0]
    /\ unrepaired' = unrepaired \ {f}
    /\ UNCHANGED <<srcDir, data, inodes>>

\* A block is overwritten, or added at the end.
WriteFile(f, i, b) ==
    /\ src[f] # 0 /\ i \in 1..(Len(data[src[f]]) + 1) /\ i <= MaxLen
    /\ UserDoes("MODIFY", f)
    /\ data' = [data EXCEPT ![src[f]] = IF i <= Len(@) THEN [@ EXCEPT ![i] = b]
                                        ELSE Append(@, b)]
    /\ UNCHANGED <<srcDir, src, inodes, unrepaired>>

TruncateFile(f) ==
    /\ src[f] # 0 /\ data[src[f]] # <<>>
    /\ UserDoes("MODIFY", f)
    /\ data' = [data EXCEPT ![src[f]] = Front(@)]
    /\ unrepaired' = unrepaired \cup {f}
    /\ UNCHANGED <<srcDir, src, inodes>>

\* The file is renamed to a name elsewhere, or one from elsewhere takes its name.
MoveOut(f) ==
    /\ src[f] # 0
    /\ UserDoes("MOVED_FROM", f)
    /\ src' = [src EXCEPT ![f] = 0]
    /\ unrepaired' = unrepaired \cup {f}
    /\ UNCHANGED <<srcDir, data, inodes>>

MoveIn(f, b) ==
    /\ inodes < MaxInodes
    /\ UserDoes("MOVED_TO", f)
    /\ src' = [src EXCEPT ![f] = inodes + 1]
    /\ data' = [data EXCEPT ![inodes + 1] = <<b>>]
    /\ inodes' = inodes + 1
    /\ unrepaired' = unrepaired \cup {f}
    /\ UNCHANGED srcDir

ChangeMode(f) ==
    /\ src[f] # 0
    /\ UserDoes("ATTRIB", f)
    /\ UNCHANGED <<srcDir, src, data, inodes, unrepaired>>

RemoveSource ==
    /\ \A f \in Files : src[f] = 0
    /\ UserDoes("IGNORED", "NONE")
    /\ srcDir' = FALSE
    /\ UNCHANGED <<src, data, inodes, unrepaired>>

-----------------------------------------------------------------------------
Daemon(p) ==
    \/ Lock(p) \/ InstallHandlers(p) \/ WatchDir(p)
    \/ Check(p) \/ Poll(p) \/ Alarm(p) \/ ReadEvents(p) \/ QueueEmpty(p) \/ Dequeue(p)
    \/ Stat(p) \/ Creat(p) \/ OpenDst(p) \/ OpenSrc(p) \/ Copia(p) \/ CopiaEnds(p)
    \/ UnlinkLock(p) \/ Exit(p)

Signal(p) == Sigint(p) \/ Sigterm(p) \/ Killed(p)

User ==
    \/ \E f \in Files : CreateFile(f) \/ DeleteFile(f) \/ ChangeMode(f)
                       \/ TruncateFile(f) \/ MoveOut(f)
    \/ \E f \in Files, b \in Bytes : MoveIn(f, b)
    \/ \E f \in Files, i \in 1..MaxLen, b \in Bytes : WriteFile(f, i, b)
    \/ RemoveSource

Next == User \/ \E p \in Daemons : Daemon(p) \/ Signal(p)

Spec == Init /\ [][Next]_vars

\* A daemon that has been started runs on; the timer keeps ringing.
FairSpec ==
    /\ Spec
    /\ \A p \in Daemons : WF_vars(Daemon(p) /\ pc[p] # "none")

-----------------------------------------------------------------------------
(* Properties *)

Kinds == {"NONE", "CREATE", "DELETE", "MODIFY", "ATTRIB", "MOVED_FROM", "MOVED_TO", "IGNORED"}
EventType == [kind : Kinds, file : Files \cup {"NONE"}]

TypeOK ==
    /\ pc \in [Daemons -> {"none", "refused"} \cup Working \cup Ending]
    /\ keepRunning \in [Daemons -> BOOLEAN]
    /\ watched \in [Daemons -> {0, 1}]
    /\ kernel \in [Daemons -> Seq(EventType)] /\ queue \in [Daemons -> Seq(EventType)]
    /\ event \in [Daemons -> EventType]
    /\ fdOri \in [Daemons -> 0..MaxInodes] /\ pos \in [Daemons -> 0..MaxLen]
    /\ lockFile \in BOOLEAN /\ robbed \in BOOLEAN /\ srcDir \in BOOLEAN
    /\ src \in [Files -> 0..MaxInodes]
    /\ DOMAIN dst \subseteq Files /\ unrepaired \subseteq Files

\* sincro.lock keeps a second daemon of the user from working, through every start,
\* normal end, SIGINT and SIGTERM, and a daemon that works finds its lock file in place --
\* until a SIGTERM reaches a daemon that has removed its lock already and still closes
\* down: its handler then removes the lock of whoever works by now, and nothing is said
\* of what happens after that.
OneDaemon ==
    ~robbed =>
      /\ \A p, r \in Daemons : {pc[p], pc[r]} \subseteq Working => p = r
      /\ (\E p \in Daemons : pc[p] \in Working) => lockFile

Pending(p, f) ==
    \E e \in ToSet(kernel[p]) \cup ToSet(queue[p]) \cup {event[p]} : e.file = f

Same(f) ==
    IF src[f] = 0 THEN f \notin DOMAIN dst
    ELSE f \in DOMAIN dst /\ dst[f] = data[src[f]]

\* While the first daemon watches, the destination differs from the source only in
\* files about which there is an event still to come or being handled: whatever users
\* do between the steps of a handler is made good by a later event.  Not so for files
\* that are cut short, since MODIFY does not truncate, or moved in or out, since the
\* handlers of MOVED events only print: those are repaired when the file is next created
\* or deleted, whichever the daemon was doing before.
NoDifferenceForgotten ==
    \A p \in Watching, f \in Files \ unrepaired :
      (\A r \in Daemons \ {p} : pc[r] \in {"none", "refused"}) => Same(f) \/ Pending(p, f)

\* The program ends when it is asked to, by SIGINT or SIGTERM, and when the directory
\* it watches has been deleted, even if the signal comes just before poll.
EndsWhenAsked ==
    \A p \in Daemons :
      ~keepRunning[p] \/ pc[p] \in {"unlink", "late"} \/ (pc[p] \in Looping /\ ~srcDir) ~> pc[p] = "ended"

\* "It will automatically terminate if all watched items are deleted or unmounted. Use
\* ctrl-C or kill to terminate otherwise": a working daemon ends only by cleaning up.
EndsOnlyWhenAsked ==
    [][\A p \in Daemons : pc[p] \in Looping => pc'[p] # "ended"]_vars

=============================================================================
