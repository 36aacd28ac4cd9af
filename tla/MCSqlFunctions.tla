--------------------------- MODULE MCSqlFunctions ---------------------------
(* A small instance of SqlFunctions for TLC: versions 2 and 3 of binary 1,  *)
(* binary 13 without a version, which has the id of version 3 of binary 1,  *)
(* and a nameless binary with the same frames 11 and 12.  After the second  *)
(* batch for that id its shares are those of version 2.                     *)
EXTENDS SqlFunctions, MCTables, SequencesExt

(* The digits of a text as a number.                                        *)
Decimal(digits) == FoldLeft(LAMBDA n, d : 10 * n + d, 0, digits)
Nameless == <<9, 9>>

Started(binary, version) == [binary |-> binary, version |-> version]
Cli == r1 :> Started(<<1>>, <<2>>) @@ r2 :> Started(<<1>>, <<3>>)
         @@ r3 :> Started(<<1, 3>>, Missing) @@ r4 :> Started(Missing, Missing)

Tree(e, n, m) ==
  Batch(Datas({11, 12}), e :> ExecutableRow(n + 2 * m),
        10 * e + 1 :> NodeRow(None, 11, e, n) @@ 10 * e + 2 :> NodeRow(10 * e + 1, 12, e, m)
          @@ 10 * e + 3 :> NodeRow(10 * e + 2, 11, e, m))
Alone(e, n) ==
  Batch(Datas({11}), e :> ExecutableRow(n), 10 * e + 1 :> NodeRow(None, 11, e, n))
Deep(e) ==
  Batch(Datas({11, 12}), e :> ExecutableRow(6),
        10 * e + 1 :> NodeRow(None, 11, e, 2) @@ 10 * e + 2 :> NodeRow(10 * e + 1, 12, e, 1)
          @@ 10 * e + 3 :> NodeRow(10 * e + 2, 11, e, 1)
          @@ 10 * e + 4 :> NodeRow(10 * e + 1, 11, e, 1) @@ 10 * e + 5 :> NodeRow(10 * e + 4, 12, e, 1))

Id(r) == ExecutableId(Cli[r])
Versions == r1 :> Tree(Id(r1), 3, 1) @@ r2 :> Tree(Id(r2), 4, 2) @@ r3 :> Alone(Id(r3), 2)
              @@ r4 :> Deep(Id(r4))
ASSUME VersionsAreReportable == Reportable
=============================================================================
