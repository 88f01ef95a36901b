-------------------------------- MODULE Words ---------------------------------
(* What split, join and trim do to a text of linkedjsdom.js, which is a     *)
(* sequence of symbols: a punctuation mark, or a word of characters that a  *)
(* name may have.                                                           *)
EXTENDS Naturals, Sequences, SequencesExt, FiniteSetsExt

(* The marks that split a text, and whatever stands between them: a word is *)
(* one symbol.                                                              *)
Space     == " "
Colon     == ":"
Semicolon == ";"
Symbols   == {Space, Colon, Semicolon} \cup STRING

(* The pieces of a text between the separators.                             *)
Split(text, sep) ==
  FoldLeft(LAMBDA pieces, c :
             IF c = sep THEN Append(pieces, <<>>)
             ELSE [pieces EXCEPT ![Len(pieces)] = Append(@, c)],
           << <<>> >>, text)

(* The pieces with separators between; no piece is empty.                   *)
JoinedBy(pieces, sep) ==
  FoldLeft(LAMBDA text, piece :
             IF text = <<>> THEN piece ELSE Append(text, sep) \o piece,
           <<>>, pieces)
Joined(tokens) == JoinedBy(tokens, Space)

(* A text without the spaces at its ends.                                   *)
Trim(s) == LET kept == {i \in DOMAIN s : s[i] # Space}
           IN  IF kept = {} THEN <<>> ELSE SubSeq(s, Min(kept), Max(kept))
=============================================================================
