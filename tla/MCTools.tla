------------------------------- MODULE MCTools -------------------------------
(***************************************************************************)
(* The three small programs for TLC, in one specification: a behaviour is   *)
(* one of the stopwatch, of the LED driver or of the archiver, while the    *)
(* other two stand still in an initial state.                               *)
(***************************************************************************)
EXTENDS Stopwatch, LedDriver, MyTar, TLC

CONSTANTS short, long       \* file names

\* With IntSize = 1 and EntrySize = 4 the header of an archive of both ends exactly where
\* the data begins, that of the short one before it, that of the long one after it.
NameLengths == short :> 1 @@ long :> 3

VARIABLE program

vars == <<program, watchVars, ledsVars, tarVars>>

Init ==
    /\ program \in {"Stopwatch", "LedDriver", "MyTar"}
    /\ WatchInit /\ LedInit /\ TarInit
    /\ program # "Stopwatch" => conf = NoFile /\ clock = CHOOSE c \in Clocks : TRUE
    /\ program # "MyTar" => fileNames = <<>> /\ DOMAIN disk = {}

Next ==
    /\ UNCHANGED program
    /\ \/ program = "Stopwatch" /\ WatchNext /\ UNCHANGED <<ledsVars, tarVars>>
       \/ program = "LedDriver" /\ LedNext /\ UNCHANGED <<watchVars, tarVars>>
       \/ program = "MyTar" /\ TarNext /\ UNCHANGED <<watchVars, ledsVars>>

Spec == Init /\ [][Next]_vars

=============================================================================
