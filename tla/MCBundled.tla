------------------------------- MODULE MCBundled -------------------------------
(* Two parts of the bundled JavaScript that share nothing, in one run: markup  *)
(* is parsed while the buffers wait, or buffers are worked on with the parser  *)
(* at the start of an empty document.  Buffers have no more than five bytes,   *)
(* numbers octets of two bits.                                                 *)
EXTENDS MCMarkup, Buffers

BufferStarts == {<<>>, <<97, 97, 98, 97>>, <<193, 129, 195, 169>>, <<237, 160, 128, 0, 97>>}
BufferTexts == {<<97, 233>>, <<55357, 56832>>, <<55357, 97, 55357>>, <<55357, 55357>>, <<56832, 8364>>,
                <<54, 49, 70>>, <<54, 120>>, <<89, 87, 73, 61>>, <<45, 95, 65>>}
BufferOffsets == {Undefined, -1, 0, 2, 6}
IntegerValues == (-130)..257
DoubleMagnitudes ==
  {NaN, Infinite} \union (0..40) \union
  {(k * (2 ^ e)) + d : k \in {1, 3, 33, 63}, e \in 9..12, d \in {-128, 0, 192, 256, 320}}

BuffersWait == /\ memory = <<<<>>>> /\ views = <<>> /\ blobs = <<>> /\ cells = <<>>
               /\ call = [op |-> "none"] /\ steps = MaxSteps
MCInit == (Init /\ BuffersWait) \/ (p = Start(<<>>, TRUE) /\ BufferInit)
MCNext == (views = <<>> /\ Next /\ UNCHANGED bufferVars) \/ (BufferNext /\ UNCHANGED vars)
MCSpec == MCInit /\ [][MCNext]_<<vars, bufferVars>>

(* What is read of a document follows its tags, and is read back from what it  *)
(* is written as.                                                              *)
MarkupKept == TreeFollowsStack /\ ReparsedSame
=============================================================================
