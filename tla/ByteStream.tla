----------------------------- MODULE ByteStream -----------------------------
(***************************************************************************)
(* Streams of bytes as the classes under src/protocol use them: a value of  *)
(* w bytes is w bytes that know their value, their place in it and w.  What *)
(* is read with another width, or from the middle of a value, is Torn.      *)
(* nodebe-binarystream itself is not part of the repository.                *)
(***************************************************************************)
EXTENDS Integers, Sequences

\* Neither a value that was written nor the end of the stream.
Torn == -1

Bytes(w, v) == [k \in 1 .. w |-> <<w, k, v>>]

Value(bytes) ==
  IF bytes # <<>> /\ bytes = Bytes(bytes[1][1], bytes[1][3]) THEN bytes[1][3] ELSE Torn

\* The value of the w bytes after the offset.
ValueAt(stream, offset, w) ==
  IF offset + w <= Len(stream) THEN Value(SubSeq(stream, offset + 1, offset + w)) ELSE Torn

=============================================================================
