---------------------------- MODULE MCPredicate ----------------------------
(***************************************************************************)
(* Halves from -8 to 7.5, one or two inputs, and one or two instructions   *)
(* of every signature.                                                     *)
(***************************************************************************)
EXTENDS Predicate

Instr(op, operand) == [op |-> op, operand |-> operand]

MCInstructions ==
  {Instr("PushInput", 0), Instr("PushInput", 1), Instr("PushConst", 13), Instr("PushTime", 0),
   Instr("PushBytes32", -3), Instr("Div", 0), Instr("Modulo", 0), Instr("Negate", 0),
   Instr("LessThan", 0), Instr("Within", 0), Instr("Xor", 0), Instr("Not", 0),
   Instr("Hash256", 0), Instr("NumToBytes", 0), Instr("BytesEqual", 0),
   Instr("Select", 0), Instr("Clamp", 0),
   Instr("Median", 2), Instr("Median", 3), Instr("Mean", 3), Instr("Median", 0), Instr("Unknown", 0)}

MCPrices == {-3, 12}
MCInstants == {1}
MCSha256(b) == b + 1
MCKeccak256(b) == b - 1
=============================================================================
