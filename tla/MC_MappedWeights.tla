-------------------------- MODULE MC_MappedWeights --------------------------
(* A file of seven bytes in pages of two: the last page is half a page.      *)
EXTENDS MappedWeights

MCMapped == {r \in [offset : 0 .. 6, length : 1 .. 7] : r.offset + r.length <= 7}

(* Also: empty, past the end, beyond the end, and wrapping into the file.    *)
MCRequests ==
  MCMapped \cup {[offset |-> 2, length |-> 0],  [offset |-> 5, length |-> 3],
                 [offset |-> 7, length |-> 1],  [offset |-> 3, length |-> 14],
                 [offset |-> 15, length |-> 1]}

(* Three rows of two bytes from offset 1, so that each straddles two pages.  *)
MCTensor == [offset |-> 1, nbytes |-> 6, stride |-> 2, rows |-> 3]

MCTokens == -1 .. 4

-----------------------------------------------------------------------------
(* Tensors that fit, that end past the file, that wrap, and that are padded  *)
(* beyond the largest size_t.                                                *)
MCTensors(offsets) ==
  [offset : offsets, nbytes : {1, 3, 14, 15}, sound : {TRUE}]
  \cup {[offset |-> 0, nbytes |-> 1, sound |-> FALSE], [offset |-> 0, nbytes |-> 0, sound |-> TRUE]}

MCHeaders ==
  [alignment : 0 .. 4, data_offset : {1, 2, 4, 14},
   tensors : {<<>>} \cup {<<t>> : t \in MCTensors({0, 2, 14})}
                    \cup {<<t, u>> : t \in MCTensors({0}), u \in MCTensors({1, 2, 4, 14})}]
=============================================================================
