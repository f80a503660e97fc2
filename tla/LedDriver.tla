------------------------------ MODULE LedDriver ------------------------------
(***************************************************************************)
(* The character device of src/DriverLED/LedsA/ledsa.c.  Processes are in   *)
(* its functions at the same time: nothing in the driver is locked, and the *)
(* kernel serialises neither open with open nor open with release.  Each    *)
(* load and each store of Device_Open, counter and msg_Ptr is a step; the   *)
(* bytes of the message are read or written in one.  A process opens the    *)
(* device once at a time and does not share its file.                       *)
(*                                                                         *)
(* The kernel unloads the module when its reference count is 0: it stops    *)
(* giving references, then runs cleanup_module.  The driver names no owner, *)
(* so that the count is what device_open and device_release make of it.     *)
(*                                                                         *)
(* All messages are taken to be of the same length.  raced, exposed, own    *)
(* and got only observe, and guard no step.                                *)
(***************************************************************************)
EXTENDS Integers, Sequences

CONSTANTS
    Procs,            \* processes that use the device
    Leds,             \* leds of the keyboard; a command names some of them
    MsgLen,           \* bytes of a message, the terminating 0 excluded
    BufLen,           \* BUF_LEN
    MaxRead,          \* bound: bytes that a read asks for, and strlen beyond the array
    MaxPtr,           \* bound: no read begins once msg_Ptr is beyond this
    MaxCount          \* bound: no process opens the device once counter has reached this

ASSUME LedAssumption ==
    /\ MsgLen \in Nat \ {0} /\ BufLen \in Nat /\ MsgLen < BufLen
    /\ MaxRead \in Nat /\ MsgLen <= MaxRead /\ MaxPtr \in Nat /\ MaxCount \in Nat

VARIABLES
    module,           \* live, going: no references are given any more, or gone
    refs,             \* reference count of the module
    Device_Open,
    counter,
    msg,              \* the message in the buffer, by the number in it
    msg_Ptr,          \* bytes of msg before the pointer
    leds,             \* leds that are on
    at,               \* where each process is, in or out of the driver
    loaded,           \* what a process has read of a variable that it is going to change
    taking,           \* bytes_to_read
    raced,            \* two processes have been between the test of Device_Open and its ++
    exposed,          \* processes that were in the driver without a reference when the
                      \* unloading began, or that have entered it since
    own,              \* number of the message that a process has put into the buffer
    got               \* <<message, position>> of all that a process has read since it opened,
                      \* as long as nobody raced

deviceVars == <<counter, msg, msg_Ptr>>
ledsShared == <<module, refs, Device_Open, deviceVars, leds>>
ledsGhosts == <<raced, exposed, own, got>>
ledsVars == <<ledsShared, at, loaded, taking, ledsGhosts>>

\* "leave": all that is left of the call is its return.
Opening == {"test", "load", "store", "count", "countUp", "print", "point", "get"}
InRead == {"compare", "limit", "copy", "advance", "advanced"}
Holding == {"open"} \cup InRead
Releasing == {"decLoad", "decStore", "put"}
Places == {"out", "leave"} \cup Opening \cup Holding \cup Releasing

\* The static variables, and what init_module does.
LedInit ==
    /\ module = "live" /\ refs = 0
    /\ Device_Open = 0 /\ counter = 0 /\ msg = 0 /\ msg_Ptr = 0
    /\ leds = Leds
    /\ at = [p \in Procs |-> "out"]
    /\ loaded = [p \in Procs |-> 0] /\ taking = [p \in Procs |-> 0]
    /\ raced = FALSE /\ exposed = {}
    /\ own = [p \in Procs |-> 0] /\ got = [p \in Procs |-> <<>>]

\* A process goes on, as long as the module is there.
Moves(p, from, to) == module # "gone" /\ at[p] = from /\ at' = [at EXCEPT ![p] = to]

\* A variable is read, to be written back.
Loads(p, value) == loaded' = [loaded EXCEPT ![p] = value]

-----------------------------------------------------------------------------
(* Device_Open *)

Load(p, from, to) ==
    /\ Moves(p, from, to)
    /\ Loads(p, Device_Open)
    /\ UNCHANGED <<ledsShared, taking, ledsGhosts>>

Store(p, from, to, value) ==
    /\ Moves(p, from, to)
    /\ Device_Open' = value
    /\ Loads(p, 0)
    /\ UNCHANGED <<module, refs, deviceVars, leds, taking, ledsGhosts>>

-----------------------------------------------------------------------------
(* device_open *)

Open(p) ==
    /\ counter < MaxCount
    /\ Moves(p, "out", "test")
    /\ exposed' = IF module = "going" THEN exposed \cup {p} ELSE exposed
    /\ got' = [got EXCEPT ![p] = <<>>]
    /\ UNCHANGED <<ledsShared, loaded, taking, raced, own>>

\* Wrong: the device is given to one process too many.
IsFreeLax == Device_Open <= 1

IsFree == Device_Open = 0

OpenBusy(p) ==
    /\ ~IsFree
    /\ Moves(p, "test", "leave")
    /\ UNCHANGED <<ledsShared, loaded, taking, ledsGhosts>>

OpenPasses(p) ==
    /\ IsFree
    /\ Moves(p, "test", "load")
    /\ raced' = (raced \/ \E q \in Procs : at[q] \in {"load", "store"})
    /\ got' = IF raced' THEN [q \in Procs |-> <<>>] ELSE got
    /\ UNCHANGED <<ledsShared, loaded, taking, exposed, own>>

\* counter++, whose old value sprintf gets
LoadCounter(p) ==
    /\ Moves(p, "count", "countUp")
    /\ Loads(p, counter)
    /\ UNCHANGED <<ledsShared, taking, ledsGhosts>>

StoreCounter(p) ==
    /\ Moves(p, "countUp", "print")
    /\ counter' = loaded[p] + 1
    /\ UNCHANGED <<module, refs, Device_Open, msg, msg_Ptr, leds, loaded, taking, ledsGhosts>>

PrintMessage(p) ==
    /\ Moves(p, "print", "point")
    /\ msg' = loaded[p]
    /\ own' = [own EXCEPT ![p] = loaded[p]]
    /\ Loads(p, 0)
    /\ UNCHANGED <<module, refs, Device_Open, counter, msg_Ptr, leds, taking, raced, exposed, got>>

\* Wrong: the pointer stays where the last reader has left it.
MessageStartNot == msg_Ptr

\* Initially, this points to the beginning of the message
MessageStart == 0

SetPointer(p) ==
    /\ Moves(p, "point", "get")
    /\ msg_Ptr' = MessageStart
    /\ UNCHANGED <<module, refs, Device_Open, counter, msg, leds, loaded, taking, ledsGhosts>>

\* Wrong: no reference is taken.
RefsAfterGetNot == refs

\* try_module_get, whose result is not looked at
RefsAfterGet == IF module = "live" THEN refs + 1 ELSE refs

GetModule(p) ==
    /\ Moves(p, "get", "open")
    /\ refs' = RefsAfterGet
    /\ UNCHANGED <<module, Device_Open, deviceVars, leds, loaded, taking, ledsGhosts>>

-----------------------------------------------------------------------------
(* device_release *)

Release(p) ==
    /\ Moves(p, "open", "decLoad")
    /\ UNCHANGED <<ledsShared, loaded, taking, ledsGhosts>>

PutModule(p) ==
    /\ Moves(p, "put", "leave")
    /\ refs' = refs - 1
    /\ UNCHANGED <<module, Device_Open, deviceVars, leds, loaded, taking, ledsGhosts>>

\* The process returns from device_open or device_release; until then it runs the module's
\* code, without a reference.
Return(p) ==
    /\ Moves(p, "leave", "out")
    /\ exposed' = exposed \ {p}
    /\ UNCHANGED <<ledsShared, loaded, taking, raced, own, got>>

-----------------------------------------------------------------------------
(* device_read; a process stands at "open" between its calls *)

\* Wrong: all that is left of the array.
SizeLeft == {BufLen - msg_Ptr}

\* strlen(msg_Ptr): behind the 0 of the message there are more of them to the end of the
\* array, and behind that there is anything.
Strlens ==
    IF msg_Ptr <= MsgLen THEN {MsgLen - msg_Ptr}
    ELSE IF msg_Ptr < BufLen THEN {0}
    ELSE 0..MaxRead

\* A call that finds *msg_Ptr == 0 returns 0 and changes nothing.
ReadBegins(p, length) ==
    /\ msg_Ptr <= MaxPtr
    /\ \E n \in Strlens : n > 0
    /\ Moves(p, "open", "compare")
    /\ taking' = [taking EXCEPT ![p] = length]
    /\ UNCHANGED <<ledsShared, loaded, ledsGhosts>>

ReadCompares(p) ==
    /\ \E n \in Strlens : Moves(p, "compare", IF taking[p] > n THEN "limit" ELSE "copy")
    /\ UNCHANGED <<ledsShared, loaded, taking, ledsGhosts>>

\* strlen is taken once more.
ReadLimits(p) ==
    /\ Moves(p, "limit", "copy")
    /\ \E n \in Strlens : taking' = [taking EXCEPT ![p] = n]
    /\ UNCHANGED <<ledsShared, loaded, ledsGhosts>>

\* copy_to_user may sleep: other processes run before the pointer is moved.
ReadCopies(p) ==
    /\ Moves(p, "copy", "advance")
    /\ got' = IF raced THEN got
              ELSE [got EXCEPT ![p] = @ \o [i \in 1..taking[p] |-> <<msg, msg_Ptr + i>>]]
    /\ UNCHANGED <<ledsShared, loaded, taking, raced, exposed, own>>

\* -EFAULT
ReadFails(p) ==
    /\ Moves(p, "copy", "open")
    /\ taking' = [taking EXCEPT ![p] = 0]
    /\ UNCHANGED <<ledsShared, loaded, ledsGhosts>>

LoadPointer(p) ==
    /\ Moves(p, "advance", "advanced")
    /\ Loads(p, msg_Ptr)
    /\ UNCHANGED <<ledsShared, taking, ledsGhosts>>

StorePointer(p) ==
    /\ Moves(p, "advanced", "open")
    /\ msg_Ptr' = loaded[p] + taking[p]
    /\ Loads(p, 0)
    /\ taking' = [taking EXCEPT ![p] = 0]
    /\ UNCHANGED <<module, refs, Device_Open, counter, msg, leds, ledsGhosts>>

-----------------------------------------------------------------------------
(* device_write *)

\* A command of digits and newlines, not longer than MAX_LEN_COMMAND; any other character
\* gives EINVAL and changes nothing.
Write(p, status) ==
    /\ Moves(p, "open", "open")
    /\ leds' = status
    /\ UNCHANGED <<module, refs, Device_Open, deviceVars, loaded, taking, ledsGhosts>>

-----------------------------------------------------------------------------
(* The module *)

\* The kernel (delete_module) finds no reference and gives no more.
Unload ==
    /\ module = "live" /\ refs = 0
    /\ module' = "going"
    /\ exposed' = {p \in Procs : at[p] \in Opening \cup {"leave"}}
    /\ UNCHANGED <<refs, Device_Open, deviceVars, leds, at, loaded, taking, raced, own, got>>

cleanup_module ==
    /\ module = "going"
    /\ module' = "gone"
    /\ leds' = {}
    /\ UNCHANGED <<refs, Device_Open, deviceVars, at, loaded, taking, ledsGhosts>>

\* The module is loaded again; its variables are new.
init_module ==
    /\ module = "gone" /\ \A p \in Procs : at[p] = "out"
    /\ module' = "live" /\ refs' = 0
    /\ Device_Open' = 0 /\ counter' = 0 /\ msg' = 0 /\ msg_Ptr' = 0
    /\ leds' = Leds
    /\ raced' = FALSE /\ exposed' = {}
    /\ UNCHANGED <<at, loaded, taking, own, got>>

LedNext ==
    \/ Unload \/ cleanup_module \/ init_module
    \/ \E p \in Procs :
         \/ Open(p) \/ OpenBusy(p) \/ OpenPasses(p)
         \/ Load(p, "load", "store") \/ Store(p, "store", "count", loaded[p] + 1)
         \/ LoadCounter(p) \/ StoreCounter(p) \/ PrintMessage(p) \/ SetPointer(p) \/ GetModule(p)
         \/ Release(p)
         \/ Load(p, "decLoad", "decStore") \/ Store(p, "decStore", "put", loaded[p] - 1)
         \/ PutModule(p) \/ Return(p)
         \/ ReadCompares(p) \/ ReadLimits(p) \/ ReadCopies(p) \/ ReadFails(p)
         \/ LoadPointer(p) \/ StorePointer(p)
    \/ \E p \in Procs, length \in 1..MaxRead : ReadBegins(p, length)
    \/ \E p \in Procs, status \in SUBSET Leds : Write(p, status)

LedSpec == LedInit /\ [][LedNext]_ledsVars

-----------------------------------------------------------------------------
(* Properties *)

\* Every variable has the values of its C type, raced or not: only the two counts, of
\* references and of openers, can be negative, and what a read takes lies within the bounds
\* on what is asked for and on strlen.
LedTypeOK ==
    /\ module \in {"live", "going", "gone"}
    /\ refs \in Int /\ Device_Open \in Int
    /\ counter \in Nat /\ msg \in Nat /\ msg_Ptr \in Nat
    /\ leds \subseteq Leds
    /\ at \in [Procs -> Places]
    /\ loaded \in [Procs -> Int] /\ taking \in [Procs -> 0..MaxRead]
    /\ raced \in BOOLEAN /\ exposed \subseteq Procs
    /\ own \in [Procs -> Nat]
    /\ got \in [Procs -> Seq(Nat \X Nat)]

Counted == {p \in Procs : at[p] \in (Opening \ {"test", "load", "store"}) \cup Holding
                                    \cup {"decLoad", "decStore"}}
Admitted == Counted \cup {p \in Procs : at[p] \in {"load", "store"}}

\* "Used to prevent multiple access to device": as long as no two processes have been
\* between the test and the increment at once, at most one is let in at a time, the others
\* get EBUSY while it is, and the device is free once it has left.  Nothing is said of what
\* follows when two have been: then both are let in, against that comment.
OneOpener ==
    ~raced =>
      /\ \A p, q \in Admitted : p = q
      /\ Device_Open = IF Counted = {} THEN 0 ELSE 1

\* What of taking[p] has been copied without the pointer having been moved.
Uncounted(p) == IF at[p] \in {"advance", "advanced"} THEN taking[p] ELSE 0

\* The one that has the device open reads its own message from the beginning, byte after
\* byte, none lost or repeated and nothing behind its end, whatever others that are refused
\* do meanwhile and whichever of its own reads fail.  Not so once two have raced: they move
\* the pointer under each other's reads, which then go past the message and the buffer.
MessageInOrder ==
    ~raced =>
      \A p \in Procs :
        at[p] \in Holding =>
          /\ got[p] = [i \in 1..Len(got[p]) |-> <<own[p], i>>] /\ Len(got[p]) <= MsgLen
          /\ msg_Ptr = Len(got[p]) - Uncounted(p)

\* The module is not unloaded while a process is in its code or has its device open, raced
\* or not -- unless, when that began, the process was in device_open before its
\* try_module_get, was being refused, or was in device_release past its module_put: there
\* it runs the module's code without a reference.
UsersPinModule ==
    \A p \in Procs \ exposed : at[p] # "out" => module = "live"

=============================================================================
