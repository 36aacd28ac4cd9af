----------------------------- MODULE MCSinkBatch -----------------------------
(* An instance of SinkBatch for TLC.  Characters are 1..9, 0 is a blank     *)
(* and line numbers start at 10.                                            *)
EXTENDS SinkBatch

Frame(s, p, l) == [symbol |-> s, path |-> p, line_no |-> l]

(* fa has neither file nor line; fb and fc are two symbols that demangle to *)
(* one name, at the same place of the same file.                            *)
fa == Frame(<<1>>, <<0>>, 0)
fb == Frame(<<2>>, <<3>>, 10)
fc == Frame(<<4>>, <<0, 3>>, 10)

MCFrames   == {fa, fb, fc}
MCDemangle == [s \in {<<1>>, <<2>>, <<4>>} |-> IF s = <<4>> THEN <<2>> ELSE s]
MCTrim     == [p \in {<<0>>, <<3>>, <<0, 3>>} |->
                 IF p = <<0>> THEN <<>> ELSE <<3>>]
MCExeBytes == <<7, 8>>

(* Batches, innermost address first in every stack: an address with an      *)
(* inlined call under an unresolved one, a recursion, a stack in which      *)
(* nothing was resolved.                                                    *)
call      == << <<fb>>, <<fa>> >>
inlined   == << <<fc, fa>>, <<>>, <<fa>> >>
recursion == << <<fa>>, <<fa>>, <<>> >>

MCBatches == {<<call, inlined>>, <<recursion, call, << <<fa>> >> >>,
              <<inlined, inlined>>, << <<>>, << <<>> >> >>}

(* A weighted sum: with 13 for the sign bit some batches of this instance   *)
(* collide and others do not, and the smallest integer comes up.            *)
MCHash(bytes) ==
  LET at(i) == IF i <= Len(bytes) THEN bytes[i] ELSE 0
  IN  (at(1) * 5 + at(2) * 11 + at(3) * 17 + Len(bytes) * 7 + 1) % (2 * SignBit)
=============================================================================
