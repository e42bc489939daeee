----------------------------- MODULE Predicate -----------------------------
(***************************************************************************)
(* The predicate machine (crates/market-vm): the verifier that reads a     *)
(* market's bytecode once and predicts the type of every value, and the    *)
(* interpreter that trusts it.                                             *)
(*                                                                         *)
(* The bytecode is any program: its instructions come one at a time while  *)
(* the verifier reads them, in its single pass.  An instruction is a       *)
(* record of an opcode and an operand; whatever decode.rs cannot read is   *)
(* one without a known opcode.  Values carry their type as a tag, numbers  *)
(* are those of Q64, and 32 bytes are the signed integer they spell, so    *)
(* that NUM_TO_BYTES keeps the number.                                     *)
(***************************************************************************)
EXTENDS Q64, SequencesExt

CONSTANTS
  MAX_OPS, MAX_STACK, MAX_CODE_LEN, MIN_INPUTS, MAX_INPUTS,  \* lib.rs
  Instructions,              \* instructions enumerated (bound)
  Prices, Instants,          \* feed prices and settlement instants enumerated (bound)
  Sha256(_), Keccak256(_)    \* the host's hashes

ASSUME MachineBounds ==
  /\ MAX_OPS \in Nat /\ MAX_STACK \in Nat /\ MAX_CODE_LEN \in Nat
  /\ MIN_INPUTS \in Nat /\ MAX_INPUTS \in Nat
  /\ Prices \subseteq Raw
  /\ Err \notin [type : {"num"}, is : Raw]             \* an error is no value
  /\ \A t \in Instants : from_int(t) \in Raw
  /\ \A i \in Instructions : i.op = "PushConst" => i.operand \in Raw
  /\ \A i \in Instructions : i.op \in {"PushInput", "Median", "Mean"} => i.operand \in Nat

VARIABLES
  phase,          \* what has become of the program
  code,           \* the instructions read so far
  size,           \* and their length in bytes
  types,          \* the verifier's stack
  peak,           \* its greatest depth, max_stack_depth once verified
  inputs_read,    \* the inputs pushed so far
  input_count,    \* the feeds the market declares
  context,        \* what an execution may observe
  pc, stack,      \* the interpreter's next instruction and its stack
  score,          \* what an execution returned
  trace           \* history: the verifier's stack before every instruction

program  == <<code, size, types, peak, inputs_read, input_count, trace>>
machine  == <<context, pc, stack, score>>
vars     == <<phase, program, machine>>

Arithmetic  == {"Add", "Sub", "Mul", "Div", "Modulo", "Min", "Max"}
Comparisons == {"Equal", "NotEqual", "LessThan", "GreaterThan", "LessThanOrEqual",
                "GreaterThanOrEqual"}
Hashes      == {"Sha256", "Keccak256", "Hash256"}
Aggregates  == {"Median", "Mean"}
Producers   == {"PushInput", "PushConst", "PushBytes32", "PushTime"}
Op == Producers \cup Arithmetic \cup Comparisons \cup Hashes \cup Aggregates
        \cup {"Abs", "Negate", "Within", "And", "Or", "Xor", "Not", "NumToBytes",
              "BytesEqual", "Select", "Clamp"}

operand_len(op) == CASE op \in {"PushInput", "Median", "Mean"} -> 1
                     [] op = "PushConst" -> 16
                     [] op = "PushBytes32" -> 32
                     [] OTHER -> 0

Type == {"num", "bool", "bytes"}
Top(s, n)     == SubSeq(s, Len(s) - n + 1, Len(s))
Without(s, n) == SubSeq(s, 1, Len(s) - n)
Repeated(x, n) == [k \in 1 .. n |-> x]

-----------------------------------------------------------------------------
(* The verifier (verify.rs): the types an instruction pops, in the order   *)
(* they were pushed, and the type it pushes.                               *)

expected(i) ==
  CASE i.op \in Producers                    -> <<>>
    [] i.op \in Arithmetic \cup Comparisons  -> Repeated("num", 2)
    [] i.op \in {"Abs", "Negate"}            -> Repeated("num", 1)
    [] i.op \in {"Within", "Clamp"}          -> Repeated("num", 3)
    [] i.op \in {"And", "Or", "Xor"}         -> Repeated("bool", 2)
    [] i.op = "Not"                          -> Repeated("bool", 1)
    [] i.op \in Hashes                       -> Repeated("bytes", 1)
    [] i.op = "NumToBytes"                   -> Repeated("num", 1)
    [] i.op = "BytesEqual"                   -> Repeated("bytes", 2)
    [] i.op \in Aggregates                   -> Repeated("num", i.operand)

popped(i) == IF i.op = "Select" THEN 3 ELSE Len(expected(i))

pushed(ts, i) ==
  CASE i.op = "Select"                                    -> ts[Len(ts)]
    [] i.op \in {"PushBytes32", "NumToBytes"} \cup Hashes -> "bytes"
    [] i.op \in Comparisons \cup {"Within", "And", "Or", "Xor", "Not", "BytesEqual"} -> "bool"
    [] OTHER                                              -> "num"

select_any(ts) == ts[Len(ts) - 2] = "bool"                 \* slip: of any two types
select_checks(ts) ==
  LET n == Len(ts) IN ts[n - 2] = "bool" /\ ts[n - 1] = ts[n]

(* TypeStack's pops and its push.                                          *)
TypeChecks(ts, i) ==
  /\ i.op \in Aggregates => i.operand # 0
  /\ popped(i) <= Len(ts)
  /\ IF i.op = "Select" THEN select_checks(ts) ELSE Top(ts, popped(i)) = expected(i)
  /\ Len(ts) - popped(i) < MAX_STACK

deepest_last(depth) == depth                        \* slip: the depth after the last push
deepest(depth) == max(peak, depth)

type_step(ts, i) == Append(Without(ts, popped(i)), pushed(ts, i))

Accepts(i) ==
  /\ i.op \in Op
  /\ size + 1 + operand_len(i.op) <= MAX_CODE_LEN
  /\ Len(code) < MAX_OPS
  /\ i.op = "PushInput" => i.operand < input_count
  /\ TypeChecks(types, i)

Init ==
  /\ phase = "reading"
  /\ code = <<>> /\ size = 0 /\ types = <<>> /\ peak = 0 /\ inputs_read = {}
  /\ input_count \in MIN_INPUTS .. MAX_INPUTS
  /\ context = [inputs |-> <<>>, settle_at |-> 0]
  /\ pc = 1 /\ stack = <<>> /\ score = 0
  /\ trace = << <<>> >>

Read(i) ==
  /\ phase = "reading"
  /\ Accepts(i)
  /\ code' = Append(code, i)
  /\ size' = size + 1 + operand_len(i.op)
  /\ types' = type_step(types, i)
  /\ peak' = deepest(Len(types'))
  /\ inputs_read' = inputs_read \cup (IF i.op = "PushInput" THEN {i.operand} ELSE {})
  /\ trace' = Append(trace, types')
  /\ UNCHANGED <<phase, input_count, machine>>

Refuse(i) ==
  /\ phase = "reading"
  /\ ~Accepts(i)
  /\ phase' = "rejected"
  /\ UNCHANGED <<program, machine>>

(* The end of the code: every input was read and one number is left.       *)
EndOfCode ==
  /\ phase = "reading"
  /\ phase' = IF inputs_read = 0 .. input_count - 1 /\ types = <<"num">>
                THEN "verified" ELSE "rejected"
  /\ UNCHANGED <<program, machine>>

-----------------------------------------------------------------------------
(* The interpreter (exec.rs).                                              *)

Num(raw)   == [type |-> "num", is |-> raw]
Bool(b)    == [type |-> "bool", is |-> b]
Bytes(b)   == [type |-> "bytes", is |-> b]
Number(r)  == IF r = Err THEN Err ELSE Num(r)

(* What the pops of an instruction demand, "any" if they take any value.   *)
demanded(i) ==
  CASE i.op \in Producers                            -> <<>>
    [] i.op \in {"Abs", "Negate", "NumToBytes"}      -> <<"num">>
    [] i.op \in Arithmetic \cup Comparisons          -> <<"num", "num">>
    [] i.op \in {"Within", "Clamp"}                  -> <<"num", "num", "num">>
    [] i.op = "Not"                                  -> <<"bool">>
    [] i.op \in {"And", "Or", "Xor"}                 -> <<"bool", "bool">>
    [] i.op \in Hashes                               -> <<"bytes">>
    [] i.op = "BytesEqual"                           -> <<"bytes", "bytes">>
    [] i.op = "Select"                               -> <<"bool", "any", "any">>
    [] i.op \in Aggregates                           -> Repeated("num", i.operand)

taken(i) == Len(demanded(i))

(* No pop fails and the push has room: what the verifier should have seen  *)
(* to.  An aggregate of nothing is refused here too.                       *)
CanStep(s, i) ==
  /\ i.op \in Aggregates => i.operand # 0
  /\ i.op = "PushInput" => i.operand + 1 \in DOMAIN context.inputs
  /\ taken(i) <= Len(s)
  /\ \A k \in 1 .. taken(i) :
       demanded(i)[k] \in {"any", s[Len(s) - taken(i) + k].type}
  /\ Len(s) - taken(i) < MAX_STACK

arithmetic(op, x, y) ==
  CASE op = "Add" -> add(x, y) [] op = "Sub"    -> sub(x, y)
    [] op = "Mul" -> mul(x, y) [] op = "Div"    -> div(x, y)
    [] op = "Min" -> min(x, y) [] op = "Modulo" -> rem(x, y)
    [] op = "Max" -> max(x, y)
compare(op, x, y) ==
  CASE op = "Equal"           -> x = y  [] op = "NotEqual"           -> x # y
    [] op = "LessThan"        -> x < y  [] op = "GreaterThan"        -> x > y
    [] op = "LessThanOrEqual" -> x <= y [] op = "GreaterThanOrEqual" -> x >= y
connective(op, x, y) ==
  CASE op = "And" -> x /\ y [] op = "Or" -> x \/ y [] op = "Xor" -> x # y
digest(op, b) ==
  CASE op = "Sha256" -> Sha256(b) [] op = "Keccak256" -> Keccak256(b)
    [] op = "Hash256" -> Sha256(Sha256(b))

(* The k-th smallest of a sequence of numbers, which sorting would put at  *)
(* position k.                                                             *)
Ranked(ns, k) ==
  CHOOSE v \in {ns[j] : j \in DOMAIN ns} :
    /\ Cardinality({j \in DOMAIN ns : ns[j] < v}) < k
    /\ Cardinality({j \in DOMAIN ns : ns[j] <= v}) >= k

midpoint_of_sum(low, high) ==                             \* slip: the sum may not fit
  IF add(low, high) = Err THEN Err ELSE div(add(low, high), from_int(2))
midpoint(low, high) ==
  LET span == sub(high, low)
      half == div(span, from_int(2))
  IN  IF span = Err THEN Err ELSE IF half = Err THEN Err ELSE add(low, half)

median(ns) ==
  LET n == Len(ns)
  IN  IF n % 2 = 1 THEN Ranked(ns, (n + 1) \div 2)
      ELSE midpoint(Ranked(ns, n \div 2), Ranked(ns, n \div 2 + 1))

(* The total of the first k numbers.  Any partial sum may overflow.        *)
running_total(ns) ==
  LET total[k \in Nat] ==
        IF k = 0 THEN 0
        ELSE IF total[k - 1] = Err THEN Err ELSE add(total[k - 1], ns[k])
  IN  total

mean(ns) ==
  LET total == running_total(ns)[Len(ns)]
  IN  IF total = Err THEN Err ELSE div(total, from_int(Len(ns)))

(* What an instruction pushes given the values it pops, or Err.            *)
value(i, args) ==
  LET x(k) == args[k].is
      numbers == [k \in 1 .. Len(args) |-> x(k)]
  IN  CASE i.op = "PushInput"   -> Num(context.inputs[i.operand + 1])
        [] i.op = "PushConst"   -> Num(i.operand)
        [] i.op = "PushBytes32" -> Bytes(i.operand)
        [] i.op = "PushTime"    -> Num(from_int(context.settle_at))
        [] i.op \in Arithmetic  -> Number(arithmetic(i.op, x(1), x(2)))
        [] i.op = "Abs"         -> Number(abs(x(1)))
        [] i.op = "Negate"      -> Number(neg(x(1)))
        [] i.op \in Comparisons -> Bool(compare(i.op, x(1), x(2)))
        [] i.op = "Within"      -> Bool(x(2) <= x(1) /\ x(1) < x(3))
        [] i.op \in {"And", "Or", "Xor"} -> Bool(connective(i.op, x(1), x(2)))
        [] i.op = "Not"         -> Bool(~x(1))
        [] i.op \in Hashes      -> Bytes(digest(i.op, x(1)))
        [] i.op = "NumToBytes"  -> Bytes(x(1))
        [] i.op = "BytesEqual"  -> Bool(x(1) = x(2))
        [] i.op = "Select"      -> IF x(1) THEN args[2] ELSE args[3]
        [] i.op = "Clamp"       -> Num(min(max(x(1), x(2)), x(3)))
        [] i.op = "Median"      -> Number(median(numbers))
        [] i.op = "Mean"        -> Number(mean(numbers))

(* resolve verifies the same bytes again and runs them over the snapshot,  *)
(* which holds one price for every declared feed.                          *)
Execute(inputs, settle_at) ==
  /\ phase = "verified"
  /\ phase' = "running"
  /\ context' = [inputs |-> inputs, settle_at |-> settle_at]
  /\ UNCHANGED <<program, pc, stack, score>>

(* The instruction about to run, what it pops and what it would push.      *)
current == code[pc]
operands == Top(stack, taken(current))
result == value(current, operands)

(* An arithmetic error voids the market; so would every other, but it is   *)
(* kept apart here: "stuck" is what the verifier should have excluded.     *)
Step ==
  /\ phase = "running" /\ pc <= Len(code)
  /\ IF CanStep(stack, current) /\ result # Err
       THEN /\ stack' = Append(Without(stack, taken(current)), result)
            /\ pc' = pc + 1
            /\ UNCHANGED phase
       ELSE /\ phase' = IF CanStep(stack, current) THEN "aborted" ELSE "stuck"
            /\ UNCHANGED <<stack, pc>>
  /\ UNCHANGED <<program, context, score>>

Finish ==
  /\ phase = "running" /\ pc > Len(code)
  /\ IF Len(stack) = 1 /\ Last(stack).type = "num"
       THEN phase' = "scored" /\ score' = Last(stack).is
       ELSE phase' = "stuck" /\ UNCHANGED score
  /\ UNCHANGED <<program, context, pc, stack>>

Next ==
  \/ \E i \in Instructions : Read(i) \/ Refuse(i)
  \/ EndOfCode
  \/ \E inputs \in [1 .. input_count -> Prices], t \in Instants : Execute(inputs, t)
  \/ Step \/ Finish

Spec == Init /\ [][Next]_vars

-----------------------------------------------------------------------------
(* Properties.                                                             *)

types_of(s) == [k \in 1 .. Len(s) |-> s[k].type]

(* A verified program fails at resolution by an arithmetic error or not at *)
(* all: no pop finds the wrong type or nothing, no push finds the stack    *)
(* full, no input is missing and what is left at the end is one number.    *)
NeverStuck == phase # "stuck"

(* Before every instruction the interpreter's stack holds what the         *)
(* verifier's held when it read that instruction, whatever the prices and  *)
(* whichever alternative a SELECT took, and is never deeper than the depth *)
(* recorded with the program.                                              *)
TypesPredicted ==
  phase = "running" => types_of(stack) = trace[pc] /\ Len(stack) <= peak

(* A median or a mean lies between the least and the greatest of what it   *)
(* aggregates, and a median of prices of one sign never voids the market,  *)
(* however large they are.                                                 *)
AggregatesBetween ==
  [][phase = "running" /\ pc <= Len(code) /\ current.op \in Aggregates =>
       LET numbers == {operands[k].is : k \in DOMAIN operands}
       IN  IF pc' = pc + 1
             THEN \E a, b \in numbers : a <= Last(stack').is /\ Last(stack').is <= b
             ELSE current.op = "Median" => \E a, b \in numbers : a < 0 /\ 0 <= b]_vars

=============================================================================
