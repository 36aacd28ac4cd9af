------------------------------ MODULE Identity ------------------------------
(***************************************************************************)
(* Which executable a cli reports its samples for: the id is a hash of the *)
(* name and the version it was started with.  Text is a sequence of        *)
(* characters, and the hash an arbitrary function.                         *)
(***************************************************************************)
EXTENDS Naturals, Sequences

CONSTANTS
  Hash(_),      \* misc_id's hash of a text
  DefaultName,  \* "provide_a_meaningful_name"
  Missing       \* an argument that is not given

(* main() names a nameless binary.                                         *)
Basename(args) == IF args.binary = Missing THEN DefaultName ELSE args.binary

(* format!("{}{}", binary, version), or the name alone.                    *)
IdText(args) ==
  Basename(args) \o (IF args.version = Missing THEN <<>> ELSE args.version)

ExecutableId(args) == Hash(IdText(args))

(* The text columns of the row that a batch would insert.                  *)
Named(args) == [basename |-> Basename(args), build_id |-> args.version]
=============================================================================
