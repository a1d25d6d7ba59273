----------------------------- MODULE Decompressor -----------------------------
(***************************************************************************)
(* internal/storage/decompressor.go, as operators: unpacking is local to   *)
(* the goroutine that does it.  A byte is only counted, since io.Copy and  *)
(* limitedWriter hand every byte on as it is.                              *)
(***************************************************************************)
EXTENDS Integers, Sequences

CONSTANT MaxUnpacked    \* d.maxSize

\* NewDecompressor puts the default in the place of 0.
ASSUME LimitAssumption == MaxUnpacked \in Nat \ {0}

Total(pieces) ==
    LET sum[i \in 0 .. Len(pieces)] == IF i = 0 THEN 0 ELSE sum[i - 1] + pieces[i]
    IN  sum[Len(pieces)]

\* What a daemon decrypted: its size; whether it begins with the two bytes that gzip
\* data begins with, and then whether the header is good, what each Read of the gzip
\* reader yields (io.Copy passes on no empty piece), whether that begins so in its
\* turn, and how the reading ends.
Data(Size, Pieces) ==
    {d \in [size : Size, gzip : BOOLEAN, header : BOOLEAN, pieces : Pieces, inner : BOOLEAN,
             end : {"eof", "corrupt"}] :
        /\ d.gzip => d.size >= 2
        /\ d.inner => d.gzip /\ Total(d.pieces) >= 2}

\* limitedWriter before its first Write.
Limited == [out |-> 0, left |-> MaxUnpacked, err |-> "none"]

\* Wrong variant: a short write is no error.
WriteSilently(w, n) ==
    LET room == IF n < w.left THEN n ELSE w.left
    IN  [out |-> w.out + room, left |-> w.left - room, err |-> "none"]

\* A Write of n bytes to the limitedWriter w.
Write(w, n) ==
    IF w.left <= 0 THEN [out |-> w.out, left |-> w.left, err |-> "limit"]
    ELSE LET room == IF n < w.left THEN n ELSE w.left
         IN  [out |-> w.out + room, left |-> w.left - room,
              err |-> IF w.left - room <= 0 THEN "limit" ELSE "none"]

\* io.Copy: stops at the first error of a Write.
Copy(pieces) ==
    LET after[i \in 0 .. Len(pieces)] ==
            IF i = 0 THEN Limited
            ELSE IF after[i - 1].err # "none" THEN after[i - 1]
            ELSE Write(after[i - 1], pieces[i])
    IN  after[Len(pieces)]

\* A content: whether it is still packed, its size, and whether it begins as gzip data.
Packed(n)          == [form |-> "packed", size |-> n, gzip |-> TRUE]
Unpacked(n, begin) == [form |-> "plain", size |-> n, gzip |-> begin]

\* Decompress, and what GetFile makes of its error: the data as it came.
Decompress(d) ==
    IF ~d.gzip THEN Unpacked(d.size, FALSE)
    ELSE IF ~d.header \/ Copy(d.pieces).err # "none" \/ d.end = "corrupt" THEN Packed(d.size)
    ELSE Unpacked(Copy(d.pieces).out, d.inner)

\* Unpacking by definition: all or nothing, however the reader cuts its output
\* into pieces and whether corruption or the limit comes first.
AllOrNothing(d) ==
    IF d.gzip => d.header /\ d.end = "eof" /\ Total(d.pieces) < MaxUnpacked
    THEN IF d.gzip THEN Unpacked(Total(d.pieces), d.inner) ELSE Unpacked(d.size, FALSE)
    ELSE Packed(d.size)
===============================================================================
