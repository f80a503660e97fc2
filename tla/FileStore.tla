------------------------------ MODULE FileStore ------------------------------
(***************************************************************************)
(* What the file system of src/myFUSE is to the programs that use it: a     *)
(* directory of names, each with a content, and operations that change the  *)
(* content of one name at most.  An operation that fails, a restart and a   *)
(* crash between two operations change nothing.                             *)
(***************************************************************************)
EXTENDS Integers

CONSTANTS
    Names,            \* file names
    MaxSize,          \* bound: size of a file
    Buffers           \* what is written: bytes by position, from 0

VARIABLE files        \* content by name: bytes by position, from 0

NoFiles == [nm \in {} |-> {}]

\* The bytes of a content up to a size, with zeros where there is none.
Cut(content, size) ==
    [i \in 0..(size - 1) |-> IF i \in DOMAIN content THEN content[i] ELSE 0]

Init == files = NoFiles

Create(nm) ==
    /\ nm \notin DOMAIN files
    /\ files' = [x \in DOMAIN files \cup {nm} |-> IF x = nm THEN Cut(<<>>, 0) ELSE files[x]]

Truncate(nm, size) ==
    /\ nm \in DOMAIN files
    /\ files' = [files EXCEPT ![nm] = Cut(@, size)]

\* A write ends the file where the buffer ends, even if it was longer.
Write(nm, off, buf) ==
    /\ nm \in DOMAIN files
    /\ files' = [files EXCEPT ![nm] =
                    [i \in 0..(off - 1) \cup {off + j : j \in DOMAIN buf} |->
                        IF i < off THEN Cut(@, off)[i] ELSE buf[i - off]]]

Unlink(nm) ==
    /\ nm \in DOMAIN files
    /\ files' = [x \in DOMAIN files \ {nm} |-> files[x]]

Next ==
    \E nm \in Names :
        \/ Create(nm) \/ Unlink(nm)
        \/ \E size \in 0..MaxSize : Truncate(nm, size)
        \/ \E off \in 0..MaxSize, buf \in Buffers : Write(nm, off, buf)

Spec == Init /\ [][Next]_files

=============================================================================
