--------------------------- MODULE MCWpBlockCipher ---------------------------
(* One context and a copy of it.  Blocks of three bytes tell an empty, a    *)
(* partly filled and a full buffer apart on either side of every boundary,  *)
(* and seven bytes are two blocks and one byte of a third.                  *)
EXTENDS WpBlockCipher

MCAlg == {"AES-CBC", "AES-ECB", "DES3-CBC"}
==============================================================================
