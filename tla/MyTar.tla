-------------------------------- MODULE MyTar --------------------------------
(***************************************************************************)
(* The archiver src/myTAR: createTar packs the files named on the command   *)
(* line, extractTar unpacks an archive that createTar has written.  On disk *)
(* the header is the number of files and, for each, its name with the final *)
(* 0 and its size; the data begins where an array of stHeaderEntry in       *)
(* memory would end.                                                        *)
(*                                                                         *)
(* Lengths in bytes are constants.  A file is copied in one step.  The      *)
(* archive can be opened, is not one of the files that are packed, and putc *)
(* never fails (its result is not looked at).                              *)
(*                                                                         *)
(* original only observes.                                                 *)
(***************************************************************************)
EXTENDS Integers, SequencesExt

CONSTANTS
    Files,            \* file names
    NameLen,          \* strlen of a name
    IntSize,          \* sizeof(int)
    EntrySize,        \* sizeof(stHeaderEntry)
    Bytes,            \* values of a byte, as a char
    EOF,              \* the one of them that compares equal to EOF: 255, if char is signed
    MaxLen,           \* bound: length of a file
    MaxFiles          \* bound: files of an archive

ASSUME TarAssumption ==
    /\ NameLen \in [Files -> Nat] /\ IntSize \in Nat \ {0} /\ EntrySize \in Nat
    /\ EOF \in Bytes /\ MaxLen \in Nat /\ MaxFiles \in Nat

VARIABLES
    phase,            \* pack, packed or failed; unpack, unpacked or stuck
    fileNames,        \* the files to pack
    header,           \* array in memory: name and size of the files done so far
    pos,              \* position in the archive mtar
    archive,          \* FALSE if there is none, what its header says, and its bytes
    disk,             \* content of the files; its domain is what exists
    original          \* content of each file when it was packed

tarVars == <<phase, fileNames, header, pos, archive, disk, original>>

FileContents == UNION {[1..n -> Bytes] : n \in 0..MaxLen}

\* What a position holds that belongs to the header (a byte that is taken not to be EOF), or
\* where nothing was written.
HeaderByte == "header"
Hole == "hole"

\* Wrong: only the entries are reserved.
HeaderRoomShort(n) == EntrySize * n

\* Where the data begins.
HeaderRoom(n) == IntSize + EntrySize * n

\* Bytes that the entries of files take on disk: the name, the final 0 and the size.
EntriesLen(names) ==
    Cardinality(UNION {{i} \X (1..(NameLen[names[i]] + 1 + IntSize)) : i \in DOMAIN names})

\* Bytes that the header takes on disk.
HeaderLen(h) == IntSize + EntriesLen([i \in DOMAIN h |-> h[i].name])

\* bytes written at a position of a file, with a hole if that is beyond its end
Written(file, at, bytes) ==
    IF bytes = <<>> THEN file
    ELSE [i \in 1..(IF Len(file) > at + Len(bytes) THEN Len(file) ELSE at + Len(bytes)) |->
            IF at < i /\ i <= at + Len(bytes) THEN bytes[i - at]
            ELSE IF i <= Len(file) THEN file[i] ELSE Hole]

\* Wrong: the byte is compared after it has been written.
CopiedWithEOF(origin, at, nBytes) ==
    LET n == {k \in 0..nBytes : \A i \in 1..k :
                  at + i <= Len(origin) /\ (i < k => origin[at + i] # EOF)}
    IN SubSeq(origin, at + 1, at + (CHOOSE k \in n : \A j \in n : j <= k))

\* copynFile: what it copies from a position of origin
Copied(origin, at, nBytes) ==
    LET n == {k \in 0..nBytes : \A i \in 1..k :
                  at + i <= Len(origin) /\ origin[at + i] # EOF}
    IN SubSeq(origin, at + 1, at + (CHOOSE k \in n : \A j \in n : j <= k))

TarInit ==
    /\ disk \in UNION {[D -> FileContents] : D \in SUBSET Files}
    /\ fileNames \in UNION {[1..n -> Files] : n \in 0..MaxFiles}
    /\ phase = "pack"
    /\ header = <<>>
    /\ pos = HeaderRoom(Len(fileNames))
    /\ archive = [exists |-> TRUE, header |-> <<>>, bytes |-> <<>>]
    /\ original = <<>>

-----------------------------------------------------------------------------
(* createTar *)

\* The file that is packed next
FileName == fileNames[Len(header) + 1]
Packing == phase = "pack" /\ Len(header) < Len(fileNames)

\* Wrong: what has been written so far stays.
RemovedNot == archive

\* remove(tarName)
Removed == [archive EXCEPT !.exists = FALSE]

InputMissing ==
    /\ Packing /\ FileName \notin DOMAIN disk
    /\ phase' = "failed"
    /\ archive' = Removed
    /\ UNCHANGED <<fileNames, header, pos, disk, original>>

Pack ==
    /\ Packing /\ FileName \in DOMAIN disk
    /\ LET content == disk[FileName]
           copied == Copied(content, 0, Len(content))
       IN /\ header' = Append(header, [name |-> FileName, size |-> Len(copied)])
          /\ archive' = [archive EXCEPT !.bytes = Written(@, pos, copied)]
          /\ pos' = pos + Len(copied)
          /\ original' = Append(original, content)
    /\ UNCHANGED <<phase, fileNames, disk>>

\* rewind, number of files and entries
WriteHeader ==
    /\ phase = "pack" /\ Len(header) = Len(fileNames)
    /\ archive' = [archive EXCEPT !.header = header,
                      !.bytes = Written(@, 0, [i \in 1..HeaderLen(header) |-> HeaderByte])]
    /\ phase' = "packed"
    /\ header' = <<>>
    /\ UNCHANGED <<fileNames, pos, disk, original>>

-----------------------------------------------------------------------------
(* extractTar *)

\* readHeader, then on to the data
ReadHeader ==
    /\ phase = "packed"
    /\ phase' = "unpack"
    /\ header' = archive.header
    /\ pos' = HeaderRoom(Len(archive.header))
    /\ UNCHANGED <<fileNames, archive, disk, original>>

Unpack ==
    /\ phase = "unpack" /\ header # <<>>
    /\ LET entry == Head(header)
           copied == Copied(archive.bytes, pos, entry.size)
       IN /\ disk' = [f \in DOMAIN disk \cup {entry.name} |->
                         IF f = entry.name THEN copied ELSE disk[f]]
          /\ pos' = pos + Len(copied)
    /\ header' = Tail(header)
    /\ UNCHANGED <<phase, fileNames, archive, original>>

\* The next file cannot be created; those before it stay.
OutputFails ==
    /\ phase = "unpack" /\ header # <<>>
    /\ phase' = "stuck"
    /\ UNCHANGED <<fileNames, header, pos, archive, disk, original>>

Unpacked ==
    /\ phase = "unpack" /\ header = <<>>
    /\ phase' = "unpacked"
    /\ UNCHANGED <<fileNames, header, pos, archive, disk, original>>

\* Between packing and unpacking users delete files or write others under their names.
UserChanges(f) ==
    /\ phase = "packed"
    /\ \/ disk' = [g \in DOMAIN disk \ {f} |-> disk[g]]
       \/ disk' = [g \in DOMAIN disk \cup {f} |-> IF g = f THEN <<>> ELSE disk[g]]
    /\ UNCHANGED <<phase, fileNames, header, pos, archive, original>>

TarNext ==
    \/ InputMissing \/ Pack \/ WriteHeader
    \/ ReadHeader \/ Unpack \/ OutputFails \/ Unpacked
    \/ \E f \in Files : UserChanges(f)

TarSpec == TarInit /\ [][TarNext]_tarVars

-----------------------------------------------------------------------------
(* Properties *)

\* Every variable has the shape of its C type, within the bounds.
TarTypeOK ==
    /\ phase \in {"pack", "packed", "unpack", "unpacked", "failed", "stuck"}
    /\ fileNames \in Seq(Files) /\ Len(fileNames) <= MaxFiles
    /\ header \in Seq([name : Files, size : 0..MaxLen])
    /\ pos \in 0..(HeaderRoom(MaxFiles) + MaxFiles * MaxLen)
    /\ archive \in [exists : BOOLEAN, header : Seq([name : Files, size : 0..MaxLen]),
                    bytes : Seq((Bytes \ {EOF}) \cup {HeaderByte, Hole})]
    /\ DOMAIN disk \subseteq Files
    /\ \A f \in DOMAIN disk :
         disk[f] \in Seq(Bytes \cup {HeaderByte, Hole}) /\ Len(disk[f]) <= MaxLen

\* On the disk the entries take no more than in memory.
Fits == EntriesLen(fileNames) <= EntrySize * Len(fileNames)

\* No byte of a packed file counts as EOF.
Plain(i) == \A k \in DOMAIN original[i] : original[i][k] # EOF

\* A file of the command line has its content of the time of packing.
ComesBack(i) == fileNames[i] \in DOMAIN disk /\ disk[fileNames[i]] = original[i]

\* If the names leave the header its room, to the last byte of it, packing and unpacking
\* give back every file without a byte 255 as it was when it was packed, whatever has become
\* of it since and whatever the files next to it hold.  A file with such a byte is cut off
\* there, though the comment of copynFile promises "todo el contenido", and names that are
\* longer overwrite data, as the comment of createTar warns: of those nothing is said.
RoundTrip ==
    phase = "unpacked" /\ Fits => \A i \in DOMAIN fileNames : Plain(i) => ComesBack(i)

\* Packing that has failed leaves no archive, and packing that has not leaves one that
\* lists the files of the command line.
NoHalfArchive ==
    /\ phase = "failed" => ~archive.exists
    /\ phase \in {"packed", "unpack", "unpacked", "stuck"} =>
         archive.exists /\ [i \in DOMAIN archive.header |-> archive.header[i].name] = fileNames

=============================================================================
