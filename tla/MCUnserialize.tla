--------------------------- MODULE MCUnserialize ----------------------------
(* Two values with strings that are empty, fill a buffer or do not fit,    *)
(* and a length found astray that is larger than any buffer.              *)
EXTENDS Unserialize

=============================================================================
