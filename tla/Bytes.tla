-------------------------------- MODULE Bytes --------------------------------
(* The two kinds of memory that grows with what is put in: a string of        *)
(* eris.string.c and the buffers of eris.buffer.c, filled side by side.       *)
EXTENDS StringLife, EBuffer

BytesInit == StringInit /\ BufferInit
BytesNext == \/ StringNext /\ UNCHANGED buf
             \/ BufferNext /\ UNCHANGED es
BytesSpec == BytesInit /\ [][BytesNext]_<<es, buf>>

\* Strings and buffers end with a NUL behind what they hold, which lies inside
\* their allocation, however they came to their size.
TerminatorFits == WellFormed /\ CleanTail /\ NulFits
=============================================================================
