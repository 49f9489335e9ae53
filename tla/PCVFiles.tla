------------------------------ MODULE PCVFiles ------------------------------
(****************************************************************************)
(* The files of the add-on: where PlyPointCloudReader looks for the vertices, *)
(* and how BinPlyPointCloudWriter replaces a file, step by step, with crashes *)
(* of Blender in between.                                                     *)
(* (scripts/calibration/space_view3d_point_cloud_visualizer.py)               *)
(****************************************************************************)
EXTENDS Naturals, SequencesExt

CONSTANTS
    MaxElements,  \* bound: elements in a header
    MaxCount,     \* bound: records of an element
    MaxSize       \* bound: bytes of a record

ASSUME FilesAssumption == {MaxElements, MaxCount, MaxSize} \subseteq Nat

VARIABLES
    header,       \* the elements of a file: [type, count, size]
    disk,         \* the files of an export: target, temp
    writing,      \* the step of the writer
    kept          \* there was a whole file when the writer began

filesVars == <<header, disk, writing, kept>>

FilesInit ==
    /\ header = << >>
    /\ disk = [target |-> "none", temp |-> "none"]
    /\ writing = "no" /\ kept = FALSE

-----------------------------------------------------------------------------
(* Reading.                                                                   *)

AddElement ==
    /\ Len(header) < MaxElements
    /\ \E type \in {"vertex", "other"}, count \in 0 .. MaxCount, size \in 1 .. MaxSize :
          header' = Append(header, [type |-> type, count |-> count, size |-> size])
    /\ UNCHANGED <<disk, writing, kept>>

Records(i) == [r \in 1 .. header[i].count |-> <<i, r>>]

(* The body in lines, and in bytes.                                           *)
lines == FlattenSeq([i \in DOMAIN header |-> Records(i)])
bytes == FlattenSeq([i \in DOMAIN header |->
            FlattenSeq([r \in 1 .. header[i].count |-> [b \in 1 .. header[i].size |-> <<i, r>>]])])

From(s, skip, n) == SubSeq(s, skip + 1, Min({skip + n, Len(s)}))

(* self.points: a list before anything was read, an array of records, or, as  *)
(* np.genfromtxt makes it of a single line, one record without a dimension.   *)
no_points == [kind |-> "list", rows |-> << >>]
array(rows) == [kind |-> "array", rows |-> rows]
squeezed(rows) == [kind |-> IF Len(rows) = 1 THEN "scalar" ELSE "array", rows |-> rows]

(* The rest of __init__: len of a record without a dimension is a TypeError,  *)
(* and a list has no dtype.                                                   *)
loads(points) == points.kind = "array"

(* Every block of vertices replaces the one before; the place to read from    *)
(* moves on by its count, and not for other elements.                         *)
read_block(st, e) ==
    IF e.type # "vertex" THEN st
    ELSE [points |-> array(From(bytes, st.read_from, e.count * e.size)),
          read_from |-> st.read_from + e.count]

_data_binary ==
    LET after[i \in 0 .. Len(header)] ==
          IF i = 0 THEN [points |-> no_points, read_from |-> 0]
          ELSE read_block(after[i - 1], header[i])
    IN  after[Len(header)].points

(* Mutation: the lines after the vertices are not skipped.                    *)
MutReadOn(st, e) ==
    IF e.type # "vertex" THEN st
    ELSE [points |-> squeezed(From(lines, st.skip_header, Len(lines))),
          skip_header |-> st.skip_header + e.count, skip_footer |-> st.skip_footer]

(* The lines that are left between skip_header and skip_footer.               *)
genfromtxt(st, e) ==
    IF e.type # "vertex" THEN st
    ELSE LET skip_footer == st.skip_footer - e.count
         IN  [points |-> squeezed(From(lines, st.skip_header,
                                       (Len(lines) - skip_footer) - st.skip_header)),
              skip_header |-> st.skip_header + e.count,
              skip_footer |-> skip_footer]

_data_ascii ==
    LET after[i \in 0 .. Len(header)] ==
          IF i = 0 THEN [points |-> no_points, skip_header |-> 0, skip_footer |-> Len(lines)]
          ELSE genfromtxt(after[i - 1], header[i])
    IN  after[Len(header)].points

-----------------------------------------------------------------------------
(* Writing: a temporary file, then the original is removed, then the          *)
(* temporary file gets its name.                                              *)

Whole == {"old", "new"}

(* PCV_OT_export gathers the points and opens the temporary file.             *)
Export ==
    /\ writing = "no"
    /\ disk' = [target |-> IF disk.target = "new" THEN "old" ELSE disk.target, temp |-> "part"]
    /\ kept' = (disk.target \in Whole)
    /\ writing' = "data"
    /\ UNCHANGED header

WriteData ==
    /\ writing = "data"
    /\ disk' = [disk EXCEPT !.temp = "new"]
    /\ writing' = "remove"
    /\ UNCHANGED <<header, kept>>

(* Mutation: the original is removed before the new file is written.          *)
MutRemoveFirst ==
    /\ writing \in {"data", "remove"}
    /\ disk' = [disk EXCEPT !.target = "none"]
    /\ writing' = IF writing = "data" THEN "data" ELSE "move"
    /\ UNCHANGED <<header, kept>>

RemoveOriginal ==
    /\ writing = "remove"
    /\ disk' = [disk EXCEPT !.target = "none"]
    /\ writing' = "move"
    /\ UNCHANGED <<header, kept>>

Move ==
    /\ writing = "move"
    /\ disk' = [target |-> disk.temp, temp |-> "none"]
    /\ writing' = "no" /\ kept' = FALSE
    /\ UNCHANGED header

Crash == writing # "no" /\ writing' = "no" /\ UNCHANGED <<header, disk, kept>>

FilesNext == AddElement \/ Export \/ WriteData \/ RemoveOriginal \/ Move \/ Crash

FilesSpec == FilesInit /\ [][FilesNext]_filesVars

-----------------------------------------------------------------------------
(* When the vertices come first, and in one block, the points are the         *)
(* vertices, in both formats; the other elements may be of any size.  A text  *)
(* with one vertex is the exception: it can not be loaded.                    *)
VerticesRead ==
    (header # << >> /\ header[1].type = "vertex"
        /\ \A i \in 2 .. Len(header) : header[i].type # "vertex") =>
        /\ loads(_data_ascii) <=> header[1].count # 1
        /\ loads(_data_ascii) => _data_ascii.rows = Records(1)
        /\ loads(_data_binary)
        /\ _data_binary.rows = FlattenSeq([r \in DOMAIN Records(1) |->
                                             [b \in 1 .. header[1].size |-> <<1, r>>]])

(* Wherever an export is cut off, a file that was there is still there as it  *)
(* was, or the new one is whole, under one of the two names.                  *)
NothingLost == kept => disk.target \in Whole \/ disk.temp \in Whole
=============================================================================
