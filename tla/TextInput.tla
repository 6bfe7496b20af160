------------------------------ MODULE TextInput ------------------------------
(* TextFile: how a path is cut into partitions and which lines a partition   *)
(* reads. A file's content is a sequence of bytes, of which only the newline *)
(* matters; a line is known by the offset of its first byte. Offsets count   *)
(* from 0, so the byte at offset o is content[o + 1].                        *)
EXTENDS Integers, Sequences, FiniteSets, SequencesExt

NL == 0

Span(path, offset, length) == [path |-> path, offset |-> offset, length |-> length]

(* splitTextFile: chunk i of a file of the given size; the last chunk takes  *)
(* the rest, and a file smaller than the number of chunks is not cut.        *)
ChunkCount(size, asked) ==
    LET n == IF asked <= 0 THEN 1 ELSE asked IN IF size \div n = 0 THEN 1 ELSE n

ChunkOffset(size, n, i) == i * (size \div n)

ChunkLength(size, n, i) ==
    IF i = n - 1 THEN size - ChunkOffset(size, n, i) ELSE size \div n

(* A partition is the sequence of its spans.                                 *)
SplitTextFile(path, size, asked) ==
    LET n == ChunkCount(size, asked)
    IN  IF size <= 0 THEN << <<Span(path, 0, 0)>> >>
        ELSE [i \in 1..n |-> <<Span(path, ChunkOffset(size, n, i - 1), ChunkLength(size, n, i - 1))>>]

SpanBytes(spans) == FoldLeft(LAMBDA n, s : n + s.length, 0, spans)

(* The slot textInputPartitions puts the next file into: the first with the  *)
(* fewest bytes.                                                             *)
LeastUsed(groups) ==
    LET best == {i \in DOMAIN groups : \A j \in DOMAIN groups :
                    SpanBytes(groups[i]) <= SpanBytes(groups[j])}
    IN  CHOOSE i \in best : \A j \in best : i <= j

(* textInputPartitions over what collectTextFiles returned, an error or the  *)
(* files sorted by path: [err, files], files a sequence of [path, size]. One *)
(* file is cut by bytes, several are grouped; an error is dropped and leaves *)
(* one empty partition, as no file does.                                     *)
TextInputPartitions(listing, asked) ==
    LET files == listing.files
        n == IF asked <= 0 THEN 1 ELSE IF asked > Len(files) THEN Len(files) ELSE asked
        groups == FoldLeft(LAMBDA gs, f :
                      [gs EXCEPT ![LeastUsed(gs)] = Append(@, Span(f.path, 0, f.size))],
                      [i \in 1..n |-> <<>>], files)
    IN  IF listing.err \/ files = <<>> THEN << <<>> >>
        ELSE IF Len(files) = 1 THEN SplitTextFile(files[1].path, files[1].size, asked)
        ELSE SelectSeq(groups, LAMBDA g : g # <<>>)

-----------------------------------------------------------------------------
(* The offsets at which lines of a file begin.                               *)
LineStarts(content) ==
    {s \in 0..(Len(content) - 1) : s = 0 \/ content[s] = NL}

(* A plausible slip: a span that does not begin the file always skips.       *)
SkipAlways(content, offset) == offset > 0

(* newTextFileIteratorFS skips to the next line when the byte before the     *)
(* span is not a newline.                                                    *)
SkipFirst(content, offset) == offset > 0 /\ content[offset] # NL

(* The positions after a newline at or after the offset.                     *)
AfterNewline(content, offset) ==
    {s \in (offset + 1)..Len(content) : content[s] = NL}

(* The reader begins at the span's offset or, when it skips, after the first *)
(* newline it finds; without one it reads nothing.                           *)
BeginsAt(content, offset, p) ==
    IF SkipFirst(content, offset)
    THEN p \in AfterNewline(content, offset) /\ \A s \in AfterNewline(content, offset) : p <= s
    ELSE p = offset

(* The lines the iterator returns: one begins where the reader does, the     *)
(* others after each newline it passes; it stops at the first position at or *)
(* past the end of the span, or at the end of the file.                      *)
LinesRead(content, offset, length) ==
    {s \in 0..(Len(content) - 1) :
        /\ length > 0
        /\ s < offset + length
        /\ \E p \in offset..Len(content) :
            /\ BeginsAt(content, offset, p)
            /\ s = p \/ (s > p /\ content[s] = NL)}

(* The bytes of the line that begins at s, its newline included; the reader  *)
(* fails on a line of more than MaxRecordBytes.                              *)
LineBytes(content, s) ==
    Cardinality({o \in s..(Len(content) - 1) : \A q \in (s + 1)..o : content[q] # NL})
==============================================================================
