-------------------------- MODULE PredicateProofs --------------------------
(***************************************************************************)
(* The verifier's prediction holds of every program, over every price and  *)
(* every size of the machine.                                              *)
(***************************************************************************)
EXTENDS Predicate, IntegerLemmas, SequenceTheorems, FiniteSetTheorems

-----------------------------------------------------------------------------
(* The stack.                                                              *)

LEMMA RepeatedSeq ==
  ASSUME NEW x, NEW n \in Nat
  PROVE  /\ Repeated(x, n) \in Seq({x})
         /\ Len(Repeated(x, n)) = n
         /\ \A k \in 1 .. n : Repeated(x, n)[k] = x
<1>1. Repeated(x, n) \in [1 .. n -> {x}]
  BY DEF Repeated
<1>2. Repeated(x, n) \in Seq({x})
  BY <1>1, SeqDef
<1> QED BY <1>1, <1>2, LenProperties

LEMMA Popping ==
  ASSUME NEW S, NEW s \in Seq(S), NEW n \in 0 .. Len(s)
  PROVE  /\ Len(s) \in Nat
         /\ Top(s, n) \in Seq(S) /\ Len(Top(s, n)) = n
         /\ \A k \in 1 .. n : Top(s, n)[k] = s[Len(s) - n + k]
         /\ Without(s, n) \in Seq(S) /\ Len(Without(s, n)) = Len(s) - n
         /\ \A k \in 1 .. Len(s) - n : Without(s, n)[k] = s[k]
<1>1. Len(s) \in Nat /\ \A k \in 1 .. Len(s) : s[k] \in S
  BY LenProperties
<1> DEFINE m == Len(s) - n + 1
<1>2. m \in Int /\ Len(s) \in Int /\ \A k \in m .. Len(s) : s[k] \in S
  BY <1>1
<1>3. /\ SubSeq(s, m, Len(s)) \in Seq(S)
      /\ Len(SubSeq(s, m, Len(s))) = IF m <= Len(s) THEN Len(s) - m + 1 ELSE 0
      /\ \A k \in 1 .. Len(s) - m + 1 : SubSeq(s, m, Len(s))[k] = s[m + k - 1]
  <2> HIDE DEF m
  <2> QED BY <1>2, SubSeqProperties
<1>4. /\ Top(s, n) \in Seq(S) /\ Len(Top(s, n)) = n
      /\ \A k \in 1 .. n : Top(s, n)[k] = s[Len(s) - n + k]
  BY <1>1, <1>3 DEF Top
<1> DEFINE d == Len(s) - n
<1>5. d \in Int /\ \A k \in 1 .. d : s[k] \in S
  BY <1>1
<1>6. /\ SubSeq(s, 1, d) \in Seq(S)
      /\ Len(SubSeq(s, 1, d)) = IF 1 <= d THEN d - 1 + 1 ELSE 0
      /\ \A k \in 1 .. d - 1 + 1 : SubSeq(s, 1, d)[k] = s[1 + k - 1]
  <2> HIDE DEF d
  <2> QED BY <1>5, SubSeqProperties
<1>7. /\ Without(s, n) \in Seq(S) /\ Len(Without(s, n)) = Len(s) - n
      /\ \A k \in 1 .. Len(s) - n : Without(s, n)[k] = s[k]
  BY <1>1, <1>6 DEF Without
<1> QED BY <1>1, <1>4, <1>7

-----------------------------------------------------------------------------
(* The verifier's table and the interpreter's agree.                       *)

Readable(i) == i.op \in Op /\ (i.op \in Aggregates => i.operand \in Nat)

LEMMA UniformDemands ==
  ASSUME NEW i, NEW n \in Nat, NEW t \in Type,
         expected(i) = Repeated(t, n), Len(demanded(i)) = n,
         \A k \in 1 .. n : demanded(i)[k] = t, i.op # "Select"
  PROVE  /\ expected(i) \in Seq(Type) /\ taken(i) = popped(i)
         /\ \A k \in 1 .. taken(i) : demanded(i)[k] = expected(i)[k]
<1>1. /\ Repeated(t, n) \in Seq({t}) /\ Len(Repeated(t, n)) = n
      /\ \A k \in 1 .. n : Repeated(t, n)[k] = t
  BY RepeatedSeq
<1>2. \A k \in 1 .. n : expected(i)[k] = t
  BY <1>1
<1>3. Len(expected(i)) = n /\ expected(i) \in Seq({t})
  BY <1>1
<1>4. expected(i) \in Seq(Type)
  BY <1>3, LenProperties, SeqDef
<1> QED BY <1>2, <1>3, <1>4 DEF taken, popped

LEMMA SameDemands ==
  ASSUME NEW i, Readable(i), i.op # "Select"
  PROVE  /\ expected(i) \in Seq(Type) /\ taken(i) = popped(i)
         /\ \A k \in 1 .. taken(i) : demanded(i)[k] = expected(i)[k]
<1> USE DEF Producers, Arithmetic, Comparisons, Hashes, Aggregates
<1>1. CASE i.op \in Producers
  <2>1. demanded(i) = <<>> /\ expected(i) = <<>>
    BY <1>1 DEF demanded, expected
  <2> QED BY <2>1 DEF taken, popped
<1>2. CASE i.op \in Arithmetic \cup Comparisons
  <2>1. demanded(i) = <<"num", "num">> /\ expected(i) = Repeated("num", 2)
    BY <1>2 DEF demanded, expected
  <2>2. /\ Len(demanded(i)) = 2 /\ \A k \in 1 .. 2 : demanded(i)[k] = "num"
        /\ 2 \in Nat /\ "num" \in Type
    BY <2>1 DEF Type
  <2> QED BY <2>1, <2>2, UniformDemands
<1>3. CASE i.op \in {"Abs", "Negate", "NumToBytes"}
  <2>1. demanded(i) = <<"num">> /\ expected(i) = Repeated("num", 1)
    BY <1>3 DEF demanded, expected
  <2>2. /\ Len(demanded(i)) = 1 /\ \A k \in 1 .. 1 : demanded(i)[k] = "num"
        /\ 1 \in Nat /\ "num" \in Type
    BY <2>1 DEF Type
  <2> QED BY <2>1, <2>2, UniformDemands
<1>4. CASE i.op \in {"Within", "Clamp"}
  <2>1. demanded(i) = <<"num", "num", "num">> /\ expected(i) = Repeated("num", 3)
    BY <1>4 DEF demanded, expected
  <2>2. /\ Len(demanded(i)) = 3 /\ \A k \in 1 .. 3 : demanded(i)[k] = "num"
        /\ 3 \in Nat /\ "num" \in Type
    BY <2>1 DEF Type
  <2> QED BY <2>1, <2>2, UniformDemands
<1>5. CASE i.op \in {"And", "Or", "Xor"}
  <2>1. demanded(i) = <<"bool", "bool">> /\ expected(i) = Repeated("bool", 2)
    BY <1>5 DEF demanded, expected
  <2>2. /\ Len(demanded(i)) = 2 /\ \A k \in 1 .. 2 : demanded(i)[k] = "bool"
        /\ 2 \in Nat /\ "bool" \in Type
    BY <2>1 DEF Type
  <2> QED BY <2>1, <2>2, UniformDemands
<1>6. CASE i.op = "Not"
  <2>1. demanded(i) = <<"bool">> /\ expected(i) = Repeated("bool", 1)
    BY <1>6 DEF demanded, expected
  <2>2. /\ Len(demanded(i)) = 1 /\ \A k \in 1 .. 1 : demanded(i)[k] = "bool"
        /\ 1 \in Nat /\ "bool" \in Type
    BY <2>1 DEF Type
  <2> QED BY <2>1, <2>2, UniformDemands
<1>7. CASE i.op \in Hashes
  <2>1. demanded(i) = <<"bytes">> /\ expected(i) = Repeated("bytes", 1)
    BY <1>7 DEF demanded, expected
  <2>2. /\ Len(demanded(i)) = 1 /\ \A k \in 1 .. 1 : demanded(i)[k] = "bytes"
        /\ 1 \in Nat /\ "bytes" \in Type
    BY <2>1 DEF Type
  <2> QED BY <2>1, <2>2, UniformDemands
<1>8. CASE i.op = "BytesEqual"
  <2>1. demanded(i) = <<"bytes", "bytes">> /\ expected(i) = Repeated("bytes", 2)
    BY <1>8 DEF demanded, expected
  <2>2. /\ Len(demanded(i)) = 2 /\ \A k \in 1 .. 2 : demanded(i)[k] = "bytes"
        /\ 2 \in Nat /\ "bytes" \in Type
    BY <2>1 DEF Type
  <2> QED BY <2>1, <2>2, UniformDemands
<1>9. CASE i.op \in Aggregates
  <2>1. demanded(i) = Repeated("num", i.operand) /\ expected(i) = Repeated("num", i.operand)
    BY <1>9 DEF demanded, expected
  <2>2. i.operand \in Nat /\ i.op # "Select" /\ "num" \in Type
    BY <1>9 DEF Readable, Type
  <2>3. /\ Len(Repeated("num", i.operand)) = i.operand
        /\ \A k \in 1 .. i.operand : Repeated("num", i.operand)[k] = "num"
    BY <2>2, RepeatedSeq
  <2>4. Len(demanded(i)) = i.operand /\ \A k \in 1 .. i.operand : demanded(i)[k] = "num"
    BY <2>1, <2>3
  <2> QED BY <2>1, <2>2, <2>4, UniformDemands
<1> QED BY <1>1, <1>2, <1>3, <1>4, <1>5, <1>6, <1>7, <1>8, <1>9 DEF Readable, Op

(* What an instruction pushes has the type the verifier pushed; a SELECT   *)
(* pushes one of its two alternatives.                                     *)
LEMMA ResultType ==
  ASSUME NEW i, i.op \in Op, NEW args, value(i, args) # Err
  PROVE  IF i.op = "Select" THEN value(i, args) \in {args[2], args[3]}
         ELSE \A ts : value(i, args).type = pushed(ts, i)
<1> USE DEF Producers, Arithmetic, Comparisons, Hashes, Aggregates
<1>1. CASE i.op \in Producers
  BY <1>1 DEF value, pushed, Num, Bytes
<1>2. CASE i.op \in Arithmetic \cup {"Abs", "Negate", "Clamp", "Median", "Mean"}
  <2>1. ASSUME NEW r, Number(r) # Err PROVE Number(r).type = "num"
    BY <2>1 DEF Number, Num
  <2>2. \A ts : pushed(ts, i) = "num"
    BY <1>2 DEF pushed
  <2>3. CASE i.op = "Clamp"
    BY <2>3, <2>2 DEF value, Num
  <2>4. CASE i.op # "Clamp"
    <3>1. \E r : value(i, args) = Number(r)
      BY <1>2, <2>4 DEF value
    <3> QED BY <3>1, <2>1, <2>2, <2>4, <1>2, SMTT(40)
  <2> QED BY <2>3, <2>4
<1>3. CASE i.op \in Comparisons \cup {"Within", "And", "Or", "Xor", "Not", "BytesEqual"}
  BY <1>3 DEF value, pushed, Bool
<1>4. CASE i.op \in Hashes \cup {"NumToBytes"}
  BY <1>4 DEF value, pushed, Bytes
<1>5. CASE i.op = "Select"
  BY <1>5 DEF value
<1> QED BY <1>1, <1>2, <1>3, <1>4, <1>5 DEF Op

LEMMA TypesOf ==
  ASSUME NEW S, NEW s \in Seq(S)
  PROVE  /\ types_of(s) \in Seq({x.type : x \in S})
         /\ Len(types_of(s)) = Len(s) /\ Len(s) \in Nat
         /\ \A k \in 1 .. Len(s) : types_of(s)[k] = s[k].type
<1>1. Len(s) \in Nat /\ \A k \in 1 .. Len(s) : s[k] \in S
  BY LenProperties
<1>2. types_of(s) \in [1 .. Len(s) -> {x.type : x \in S}]
  BY <1>1 DEF types_of
<1>3. types_of(s) \in Seq({x.type : x \in S})
  BY <1>1, <1>2, SeqDef
<1>4. Len(types_of(s)) = Len(s)
  BY <1>1, <1>2, <1>3, LenProperties
<1> QED BY <1>1, <1>3, <1>4 DEF types_of

(* Over stacks of the predicted types an instruction the verifier accepted *)
(* runs, and leaves a stack of the types the verifier left.                *)
LEMMA StepAgrees ==
  ASSUME NEW i, Readable(i), NEW S, NEW s \in Seq(S), TypeChecks(types_of(s), i),
         i.op = "PushInput" => i.operand + 1 \in DOMAIN context.inputs
  PROVE  /\ CanStep(s, i)
         /\ value(i, Top(s, taken(i))) # Err =>
              LET t == Append(Without(s, taken(i)), value(i, Top(s, taken(i))))
              IN  /\ t \in Seq(S \cup {value(i, Top(s, taken(i)))})
                  /\ types_of(t) = type_step(types_of(s), i)
<1> DEFINE n == Len(s)  ts == types_of(s)  T == {x.type : x \in S}
           v == value(i, Top(s, taken(i)))
<1>1. ts \in Seq(T) /\ Len(ts) = n /\ n \in Nat /\ \A k \in 1 .. n : ts[k] = s[k].type
  BY TypesOf
<1>2. /\ taken(i) = popped(i) /\ taken(i) \in 0 .. n
      /\ \A k \in 1 .. taken(i) : demanded(i)[k] \in {"any", s[n - taken(i) + k].type}
  <2>1. CASE i.op = "Select"
    <3>1. demanded(i) = <<"bool", "any", "any">> /\ popped(i) = 3
      BY <2>1 DEF demanded, popped, Producers, Arithmetic, Comparisons, Hashes, Aggregates
    <3>2. taken(i) = 3 /\ 3 <= n /\ ts[n - 2] = "bool"
      BY <3>1, <2>1, <1>1 DEF taken, TypeChecks, select_checks
    <3>3. ts[n - 2] = s[n - 2].type
      BY <3>2, <1>1
    <3> QED BY <3>1, <3>2, <3>3, <1>1
  <2>2. CASE i.op # "Select"
    <3>1. /\ expected(i) \in Seq(Type) /\ taken(i) = popped(i)
          /\ \A k \in 1 .. taken(i) : demanded(i)[k] = expected(i)[k]
      BY <2>2, SameDemands
    <3>2. taken(i) = Len(expected(i)) /\ taken(i) \in Nat
      BY <3>1, <2>2, LenProperties DEF popped
    <3>3. taken(i) \in 0 .. n /\ Top(ts, taken(i)) = expected(i)
      BY <3>1, <3>2, <2>2, <1>1 DEF TypeChecks
    <3>4. \A k \in 1 .. taken(i) : Top(ts, taken(i))[k] = ts[n - taken(i) + k]
      <4> HIDE DEF n, ts, T
      <4> QED BY <3>3, <1>1, Popping
    <3>5. \A k \in 1 .. taken(i) : ts[n - taken(i) + k] = s[n - taken(i) + k].type
      BY <3>3, <1>1
    <3> QED BY <3>1, <3>3, <3>4, <3>5
  <2> QED BY <2>1, <2>2
<1>3. CanStep(s, i)
  BY <1>1, <1>2 DEF CanStep, TypeChecks
<1>4. ASSUME v # Err
      PROVE  LET t == Append(Without(s, taken(i)), v)
             IN  t \in Seq(S \cup {v}) /\ types_of(t) = type_step(ts, i)
  <2> DEFINE p == taken(i)  w == Without(s, p)  t == Append(w, v)
             tw == Without(ts, p)  u == pushed(ts, i)
  <2>1. /\ w \in Seq(S) /\ Len(w) = n - p /\ \A k \in 1 .. n - p : w[k] = s[k]
        /\ Len(Top(s, p)) = p /\ \A k \in 1 .. p : Top(s, p)[k] = s[n - p + k]
    BY <1>1, <1>2, Popping, ZenonT(60)
  <2>2. tw \in Seq(T) /\ Len(tw) = n - p /\ \A k \in 1 .. n - p : tw[k] = ts[k]
    <3> HIDE DEF n, ts, T
    <3> QED BY <1>1, <1>2, Popping
  <2>3. v.type = u
    <3>1. CASE i.op = "Select"
      <4>1. v \in {Top(s, p)[2], Top(s, p)[3]}
        BY <3>1, <1>4, ResultType DEF Readable
      <4>2. p = 3 /\ 3 <= n /\ ts[n - 1] = ts[n]
        BY <3>1, <1>1, <1>2 DEF popped, TypeChecks, select_checks
      <4>3. Top(s, p)[2] = s[n - 1] /\ Top(s, p)[3] = s[n]
        BY <4>2, <2>1, <1>1
      <4>4. ts[n - 1] = s[n - 1].type /\ ts[n] = s[n].type /\ u = ts[n]
        BY <4>2, <1>1, <3>1, SMTT(40) DEF pushed, Comparisons, Hashes
      <4> QED BY <4>1, <4>2, <4>3, <4>4
    <3>2. CASE i.op # "Select"
      BY <3>2, <1>4, ResultType DEF Readable
    <3> QED BY <3>1, <3>2
  <2>4. /\ t \in Seq(S \cup {v}) /\ Len(t) = n - p + 1
        /\ \A k \in 1 .. n - p : t[k] = s[k]
        /\ t[n - p + 1] = v
    <3> HIDE DEF v, w
    <3>1. w \in Seq(S \cup {v})
      BY <2>1, LenProperties, SeqDef
    <3> QED BY <3>1, <2>1, <1>1, <1>2, AppendProperties
  <2>5. /\ Append(tw, u) \in Seq(T \cup {u}) /\ Len(Append(tw, u)) = n - p + 1
        /\ \A k \in 1 .. n - p : Append(tw, u)[k] = ts[k]
        /\ Append(tw, u)[n - p + 1] = u
    <3> HIDE DEF u, tw
    <3>1. tw \in Seq(T \cup {u})
      BY <2>2, LenProperties, SeqDef
    <3> QED BY <3>1, <2>2, <1>1, <1>2, AppendProperties
  <2>6. /\ types_of(t) \in Seq({x.type : x \in S \cup {v}}) /\ Len(types_of(t)) = Len(t)
        /\ \A k \in 1 .. Len(t) : types_of(t)[k] = t[k].type
    <3> HIDE DEF t, v
    <3> QED BY <2>4, TypesOf
  <2>7. \A k \in 1 .. n - p + 1 : types_of(t)[k] = Append(tw, u)[k]
    <3> HIDE DEF t, v, u, tw, ts, n, p
    <3> SUFFICES ASSUME NEW k \in 1 .. n - p + 1
                 PROVE  types_of(t)[k] = Append(tw, u)[k]
      OBVIOUS
    <3>1. p \in 0 .. n /\ n \in Nat /\ types_of(t)[k] = t[k].type
      BY <2>4, <2>6, <1>1, <1>2 DEF p
    <3>2. CASE k \in 1 .. n - p
      <4>1. k \in 1 .. n
        BY <3>1, <3>2
      <4>2. t[k] = s[k] /\ Append(tw, u)[k] = ts[k]
        BY <3>2, <2>4, <2>5
      <4>3. ts[k] = s[k].type
        BY <4>1, <1>1
      <4> QED BY <3>1, <4>2, <4>3
    <3>3. CASE k = n - p + 1
      BY <3>1, <3>3, <2>3, <2>4, <2>5
    <3>4. k \in 1 .. n - p \/ k = n - p + 1
      BY <3>1
    <3> QED BY <3>4, <3>2, <3>3
  <2>8. types_of(t) = Append(tw, u)
    <3> HIDE DEF t, v, u, tw
    <3> QED BY <2>4, <2>5, <2>6, <2>7, <1>1, <1>2, SeqEqual
  <2> QED BY <2>4, <2>8, <1>2 DEF type_step
<1> QED BY <1>3, <1>4

-----------------------------------------------------------------------------
(* The invariant: the history is the verifier's run over the code, one     *)
(* accepted step per instruction, and the interpreter stands on it.        *)

ReadOnce ==
  /\ code \in Seq(Instructions) /\ trace \in Seq(Seq(Type))
  /\ Len(trace) = Len(code) + 1
  /\ trace[1] = <<>> /\ trace[Len(trace)] = types
  /\ input_count \in Nat /\ peak \in Int

Accepted ==
  \A k \in 1 .. Len(code) :
    /\ Readable(code[k]) /\ TypeChecks(trace[k], code[k])
    /\ trace[k + 1] = type_step(trace[k], code[k])
    /\ code[k].op = "PushInput" => code[k].operand \in 0 .. input_count - 1

Deepest == \A k \in 1 .. Len(trace) : Len(trace[k]) <= peak

Standing ==
  /\ phase \in {"reading", "rejected", "verified", "running", "aborted", "scored"}
  /\ phase \in {"verified", "running"} => types = <<"num">>
  /\ phase \in {"reading", "verified"} => pc = 1 /\ stack = <<>>
  /\ phase = "running" =>
       /\ context.inputs \in [1 .. input_count -> Prices]
       /\ pc \in 1 .. Len(code) + 1
       /\ \E S : stack \in Seq(S)
       /\ types_of(stack) = trace[pc]

MachineInv == ReadOnce /\ Accepted /\ Deepest /\ Standing

LEMMA InitMachine == Init => MachineInv
<1> SUFFICES ASSUME Init PROVE MachineInv
  OBVIOUS
<1> USE DEF Init
<1>1. << <<>> >> \in Seq(Seq(Type)) /\ Len(<< <<>> >>) = 1 /\ Len(<<>>) = 0
  OBVIOUS
<1>2. ReadOnce
  BY <1>1, MachineBounds DEF ReadOnce
<1>3. Accepted /\ Deepest
  BY <1>1 DEF Accepted, Deepest
<1> QED BY <1>2, <1>3 DEF MachineInv, Standing

(* Reading an instruction adds an accepted step to the history.            *)
LEMMA ReadKeeps ==
  ASSUME MachineInv, NEW i \in Instructions, Read(i)
  PROVE  MachineInv'
<1> USE DEF MachineInv
<1> DEFINE n == Len(code)  ts == type_step(types, i)
<1>1. /\ n \in Nat /\ types \in Seq(Type) /\ Len(types) \in Nat
      /\ trace[n + 1] = types /\ Len(trace) = n + 1
  BY LenProperties DEF ReadOnce
<1>2. /\ Readable(i) /\ TypeChecks(types, i)
      /\ i.op = "PushInput" => i.operand \in 0 .. input_count - 1
  <2>1. Accepts(i) /\ i.op \in Op
    BY DEF Read, Accepts
  <2>2. i.op \in Aggregates \cup {"PushInput"} => i.operand \in Nat
    BY MachineBounds DEF Aggregates
  <2> QED BY <2>1, <2>2 DEF Accepts, Readable, ReadOnce
<1>3. popped(i) \in 0 .. Len(types) /\ pushed(types, i) \in Type
  <2>1. CASE i.op = "Select"
    <3>1. popped(i) = 3 /\ 3 <= Len(types)
      BY <2>1, <1>2 DEF popped, TypeChecks
    <3>2. types[Len(types)] \in Type
      BY <3>1, <1>1, LenProperties
    <3> QED BY <3>1, <3>2, <2>1, <1>1 DEF pushed, Hashes, Comparisons
  <2>2. CASE i.op # "Select"
    <3>1. popped(i) \in Nat
      BY <2>2, <1>2, SameDemands, LenProperties DEF popped
    <3>2. pushed(types, i) \in Type
      BY <2>2 DEF pushed, Type
    <3> QED BY <3>1, <3>2, <1>1, <1>2 DEF TypeChecks
  <2> QED BY <2>1, <2>2
<1>4. ts \in Seq(Type)
  BY <1>1, <1>3, Popping, AppendProperties DEF type_step
<1>5. /\ code' = Append(code, i) /\ trace' = Append(trace, ts) /\ types' = ts
      /\ peak' = max(peak, Len(ts)) /\ input_count' = input_count
      /\ phase = "reading" /\ phase' = "reading" /\ pc' = pc /\ stack' = stack
  BY DEF Read, machine, deepest
<1>6. /\ code' \in Seq(Instructions) /\ Len(code') = n + 1 /\ code'[n + 1] = i
      /\ \A k \in 1 .. n : code'[k] = code[k]
  BY <1>5, AppendProperties DEF ReadOnce
<1>7. /\ trace' \in Seq(Seq(Type)) /\ Len(trace') = n + 2 /\ trace'[n + 2] = ts
      /\ \A k \in 1 .. n + 1 : trace'[k] = trace[k]
  <2> HIDE DEF ts, n
  <2>1. trace \in Seq(Seq(Type))
    BY DEF ReadOnce
  <2>2. /\ Append(trace, ts) \in Seq(Seq(Type)) /\ Len(Append(trace, ts)) = Len(trace) + 1
        /\ \A k \in 1 .. Len(trace) : Append(trace, ts)[k] = trace[k]
        /\ Append(trace, ts)[Len(trace) + 1] = ts
    BY <2>1, <1>4, AppendProperties
  <2>3. Len(trace) + 1 = n + 2
    BY <1>1
  <2> QED BY <1>1, <1>5, <2>2, <2>3
<1>8. ReadOnce'
  <2>1. peak' \in Int
    BY <1>4, <1>5, LenProperties DEF ReadOnce, max
  <2> QED BY <2>1, <1>1, <1>5, <1>6, <1>7 DEF ReadOnce
<1>9. Accepted'
  <2> SUFFICES ASSUME NEW k \in 1 .. n + 1
               PROVE  /\ Readable(code'[k]) /\ TypeChecks(trace'[k], code'[k])
                      /\ trace'[k + 1] = type_step(trace'[k], code'[k])
                      /\ code'[k].op = "PushInput" =>
                           code'[k].operand \in 0 .. input_count - 1
    BY <1>5, <1>6 DEF Accepted, Readable, TypeChecks, type_step
  <2>1. CASE k \in 1 .. n
    <3>1. code'[k] = code[k] /\ trace'[k] = trace[k] /\ trace'[k + 1] = trace[k + 1]
      <4> HIDE DEF ts, n
      <4>1. k \in 1 .. n + 1 /\ k + 1 \in 1 .. n + 1
        BY <2>1, <1>1
      <4> QED BY <4>1, <2>1, <1>6, <1>7
    <3> QED BY <3>1, <2>1 DEF Accepted
  <2>2. CASE k = n + 1
    <3>1. code'[k] = i /\ trace'[k] = types /\ trace'[k + 1] = ts
      <4> HIDE DEF ts, n
      <4>1. k \in 1 .. n + 1 /\ k + 1 = n + 2
        BY <2>2, <1>1
      <4> QED BY <4>1, <2>2, <1>1, <1>6, <1>7
    <3> QED BY <3>1, <1>2
  <2> QED BY <2>1, <2>2, <1>1
<1>10. Deepest'
  <2>1. Len(ts) \in Nat /\ peak <= peak' /\ Len(ts) <= peak'
    BY <1>4, <1>5, LenProperties DEF ReadOnce, max
  <2>2. ASSUME NEW k \in 1 .. n + 2 PROVE Len(trace'[k]) <= peak'
    <3>1. CASE k \in 1 .. n + 1
      <4>1. trace'[k] = trace[k] /\ trace[k] \in Seq(Type) /\ Len(trace[k]) <= peak
        BY <3>1, <1>1, <1>7, LenProperties DEF Deepest, ReadOnce
      <4>2. Len(trace[k]) \in Nat /\ peak \in Int /\ peak' \in Int
        BY <4>1, <1>8, LenProperties DEF ReadOnce
      <4> QED BY <4>1, <4>2, <2>1
    <3>2. CASE k = n + 2
      BY <3>2, <2>1, <1>7
    <3> QED BY <3>1, <3>2, <1>1
  <2> QED BY <2>2, <1>7 DEF Deepest
<1>11. Standing'
  BY <1>5 DEF Standing
<1> QED BY <1>8, <1>9, <1>10, <1>11

(* What does not read leaves the history alone.                            *)
LEMMA ProgramKept ==
  ASSUME ReadOnce, Accepted, Deepest, UNCHANGED program
  PROVE  ReadOnce' /\ Accepted' /\ Deepest'
<1>1. /\ code' = code /\ trace' = trace /\ types' = types /\ peak' = peak
      /\ input_count' = input_count
  BY DEF program
<1>2. ReadOnce'
  BY <1>1 DEF ReadOnce
<1>3. Accepted'
  BY <1>1 DEF Accepted, Readable, TypeChecks, type_step
<1>4. Deepest'
  BY <1>1 DEF Deepest
<1> QED BY <1>2, <1>3, <1>4

(* The next instruction of a running program runs or the program aborts:   *)
(* its stack is one the verifier's step accepts.                           *)
LEMMA StepKeeps ==
  ASSUME MachineInv, Step
  PROVE  MachineInv'
<1> USE DEF MachineInv
<1>1. /\ phase = "running" /\ pc \in 1 .. Len(code) /\ Len(code) \in Nat
      /\ input_count \in Nat /\ context.inputs \in [1 .. input_count -> Prices]
      /\ types_of(stack) = trace[pc] /\ types = <<"num">>
  <2>1. Len(code) \in Nat
    BY LenProperties DEF ReadOnce
  <2>2. phase = "running" /\ pc <= Len(code)
    BY DEF Step
  <2>3. /\ context.inputs \in [1 .. input_count -> Prices] /\ pc \in 1 .. Len(code) + 1
        /\ types_of(stack) = trace[pc] /\ types = <<"num">>
    BY <2>2 DEF Standing
  <2>4. input_count \in Nat
    BY DEF ReadOnce
  <2> QED BY <2>1, <2>2, <2>3, <2>4
<1>2. PICK S : stack \in Seq(S)
  BY <1>1 DEF Standing
<1>3. /\ Readable(current) /\ TypeChecks(types_of(stack), current)
      /\ trace[pc + 1] = type_step(types_of(stack), current)
      /\ current.op = "PushInput" => current.operand + 1 \in DOMAIN context.inputs
  BY <1>1 DEF Accepted, current
<1> DEFINE t == Append(Without(stack, taken(current)), result)
<1>4. CanStep(stack, current)
  BY <1>2, <1>3, StepAgrees
<1>5. result # Err => /\ t \in Seq(S \cup {result})
                      /\ types_of(t) = trace[pc + 1]
  BY <1>2, <1>3, StepAgrees DEF result, operands
<1>6. ReadOnce' /\ Accepted' /\ Deepest'
  BY ProgramKept DEF Step
<1>7. code' = code /\ trace' = trace /\ types' = types /\ input_count' = input_count
      /\ context' = context
  BY DEF Step, program
<1>8. CASE result # Err
  <2>1. stack' = t /\ pc' = pc + 1 /\ phase' = phase
    BY <1>4, <1>8 DEF Step
  <2>2. types_of(stack)' = types_of(t)
    BY <2>1 DEF types_of
  <2>3. pc + 1 \in 1 .. Len(code) + 1
    BY <1>1
  <2>4. types_of(stack)' = trace'[pc'] /\ \E X : stack' \in Seq(X)
    <3> HIDE DEF t
    <3> QED BY <2>1, <2>2, <1>5, <1>7, <1>8
  <2>5. Standing'
    BY <2>1, <2>3, <2>4, <1>1, <1>7 DEF Standing
  <2> QED BY <2>5, <1>6
<1>9. CASE result = Err
  <2>1. phase' = "aborted"
    BY <1>4, <1>9 DEF Step
  <2> QED BY <2>1, <1>6 DEF Standing
<1> QED BY <1>8, <1>9

LEMMA NextMachine == MachineInv /\ [Next]_vars => MachineInv'
<1> SUFFICES ASSUME MachineInv, [Next]_vars PROVE MachineInv'
  OBVIOUS
<1>1. ASSUME NEW i \in Instructions, Read(i) PROVE MachineInv'
  BY <1>1, ReadKeeps
<1>2. ASSUME NEW i \in Instructions, Refuse(i) PROVE MachineInv'
  BY <1>2, ProgramKept DEF MachineInv, Refuse, Standing
<1>3. ASSUME EndOfCode PROVE MachineInv'
  <2>1. ReadOnce' /\ Accepted' /\ Deepest'
    BY <1>3, ProgramKept DEF MachineInv, EndOfCode
  <2>2. Standing'
    BY <1>3 DEF MachineInv, EndOfCode, Standing, program, machine
  <2> QED BY <2>1, <2>2 DEF MachineInv
<1>4. ASSUME NEW inputs \in [1 .. input_count -> Prices], NEW t \in Instants,
             Execute(inputs, t)
      PROVE  MachineInv'
  <2>1. ReadOnce' /\ Accepted' /\ Deepest'
    BY <1>4, ProgramKept DEF MachineInv, Execute
  <2>2. /\ phase' = "running" /\ types' = <<"num">> /\ pc' = 1 /\ stack' = <<>>
        /\ context'.inputs = inputs /\ input_count' = input_count
        /\ code' = code /\ trace' = trace
    BY <1>4 DEF MachineInv, Standing, Execute, program
  <2>3. Len(code) \in Nat /\ trace[1] = <<>>
    BY LenProperties DEF MachineInv, ReadOnce
  <2>4. types_of(stack)' = <<>>
    BY <2>2 DEF types_of
  <2>5. stack' \in Seq({})
    BY <2>2
  <2>6. Standing'
    BY <2>2, <2>3, <2>4, <2>5 DEF Standing
  <2> QED BY <2>1, <2>6 DEF MachineInv
<1>5. ASSUME Step PROVE MachineInv'
  BY <1>5, StepKeeps
<1>6. ASSUME Finish PROVE MachineInv'
  <2>1. ReadOnce' /\ Accepted' /\ Deepest'
    BY <1>6, ProgramKept DEF MachineInv, Finish
  <2>2. /\ phase = "running" /\ pc = Len(code) + 1 /\ types = <<"num">>
        /\ types_of(stack) = trace[pc]
    BY <1>6, LenProperties DEF MachineInv, Standing, ReadOnce, Finish
  <2>3. PICK S : stack \in Seq(S)
    BY <2>2 DEF MachineInv, Standing
  <2>4. types_of(stack) = <<"num">>
    BY <2>2 DEF MachineInv, ReadOnce
  <2>5. Len(stack) = 1 /\ stack[1].type = "num"
    <3>1. /\ Len(types_of(stack)) = Len(stack)
          /\ \A k \in 1 .. Len(stack) : types_of(stack)[k] = stack[k].type
      BY <2>3, TypesOf
    <3>2. Len(stack) = 1
      BY <2>4, <3>1
    <3>3. types_of(stack)[1] = stack[1].type
      BY <3>1, <3>2
    <3> QED BY <2>4, <3>2, <3>3
  <2>6. Last(stack).type = "num"
    BY <2>5 DEF Last
  <2>7. phase' = "scored"
    BY <2>5, <2>6, <1>6 DEF Finish
  <2> QED BY <2>1, <2>7 DEF MachineInv, Standing
<1>7. CASE UNCHANGED vars
  <2>1. ReadOnce' /\ Accepted' /\ Deepest'
    BY <1>7, ProgramKept DEF MachineInv, vars
  <2>2. types_of(stack)' = types_of(stack)
    BY <1>7 DEF types_of, vars, machine
  <2>3. Standing'
    BY <1>7, <2>2 DEF MachineInv, Standing, vars, program, machine
  <2> QED BY <2>1, <2>3 DEF MachineInv
<1> QED BY <1>1, <1>2, <1>3, <1>4, <1>5, <1>6, <1>7 DEF Next

LEMMA MachineAlways == Spec => []MachineInv
<1> QED BY InitMachine, NextMachine, PTL DEF Spec

(* Whatever the program, the prices and the machine's limits, execution of *)
(* a verified program (exec.rs step) never meets an error the verifier     *)
(* (verify.rs step) exists to exclude: only arithmetic can stop it.        *)
THEOREM VerifiedNeverStuck == Spec => []NeverStuck
<1>1. MachineInv => NeverStuck
  BY DEF MachineInv, Standing, NeverStuck
<1> QED BY <1>1, MachineAlways, PTL

(* The stack the interpreter has before each instruction is the verifier's *)
(* there, value for type, and within the depth recorded with the program.  *)
THEOREM StacksAgree == Spec => []TypesPredicted
<1>1. ASSUME MachineInv, phase = "running"
      PROVE  types_of(stack) = trace[pc] /\ Len(stack) <= peak
  <2>1. types_of(stack) = trace[pc] /\ pc \in 1 .. Len(trace)
    BY <1>1 DEF MachineInv, Standing, ReadOnce
  <2>2. PICK S : stack \in Seq(S)
    BY <1>1 DEF MachineInv, Standing
  <2>3. Len(stack) = Len(trace[pc])
    BY <2>1, <2>2, TypesOf
  <2> QED BY <2>1, <2>3, <1>1 DEF MachineInv, Deepest
<1>2. MachineInv => TypesPredicted
  BY <1>1 DEF TypesPredicted
<1> QED BY <1>2, MachineAlways, PTL

-----------------------------------------------------------------------------
(* Aggregates.  Whole quotients first: what a mean and a midpoint divide   *)
(* by is a whole number.                                                   *)

LEMMA RawBounds ==
  /\ Q64_ONE \in Nat \ {0} /\ RAW_SPAN \in Nat \ {0} /\ Err \notin Int
  /\ \A n : n \in Raw <=> n \in Int /\ -RAW_SPAN <= n /\ n < RAW_SPAN
  /\ \A n : checked(n) \in Raw \cup {Err} /\ (n \in Raw => checked(n) = n)
            /\ (checked(n) # Err => n \in Raw /\ checked(n) = n)
BY Q64Bounds DEF Raw, checked

LEMMA WholeQuotient ==
  ASSUME NEW x \in Int, NEW m \in Nat \ {0}
  PROVE  div(x, from_int(m)) = checked(x \div m)
<1> DEFINE a == magnitude(x)
           y == m * Q64_ONE
           q == a \div m
           r == a % m
<1>1. a \in Nat /\ a = (IF x < 0 THEN -x ELSE x)
  BY DEF magnitude
<1>2. y \in Nat \ {0} /\ magnitude(y) = y /\ (y < 0) = FALSE /\ from_int(m) = y
  BY RawBounds DEF magnitude, from_int
<1>3. q \in Int /\ r \in 0 .. m - 1 /\ a = q * m + r
  <2>1. a \in Int
    BY <1>1
  <2> HIDE DEF a
  <2> QED BY <2>1, FloorDiv
<1>4. a * Q64_ONE = q * y + r * Q64_ONE /\ r * Q64_ONE \in Nat /\ r * Q64_ONE < y
      /\ (r * Q64_ONE = 0 <=> r = 0)
  <2> HIDE DEF a, q, r
  <2> QED BY <1>3, RawBounds
<1>5. (a * Q64_ONE) \div y = q /\ (a * Q64_ONE) % y = r * Q64_ONE
  <2> DEFINE n == a * Q64_ONE
             rest == r * Q64_ONE
  <2>1. n = q * y + rest /\ rest \in 0 .. y - 1 /\ n \in Int /\ q \in Int
    <3> HIDE DEF a, q, r, y
    <3> QED BY <1>1, <1>2, <1>3, <1>4, RawBounds
  <2> HIDE DEF n, rest, q, y
  <2>2. q * y <= n /\ n < (q + 1) * y
    BY <1>2, <2>1
  <2>3. n \div y = q
    BY <1>2, <2>1, <2>2, FloorUnique
  <2>4. n % y = rest
    BY <1>2, <2>1, ModUnique
  <2> QED BY <2>3, <2>4 DEF n, rest
<1>6. div(x, from_int(m)) = from_signed_magnitude(q, r # 0, x < 0)
  <2> HIDE DEF q, r
  <2>1. ((x < 0) # FALSE) = (x < 0)
    <3>1. \A p \in BOOLEAN : (p # FALSE) = p
      OBVIOUS
    <3>2. (x < 0) \in BOOLEAN
      OBVIOUS
    <3> QED BY <3>1, <3>2
  <2>2. y # 0
    BY <1>2
  <2>3. div(x, y) = from_signed_magnitude((a * Q64_ONE) \div y, (a * Q64_ONE) % y # 0, (x < 0) # FALSE)
    <3> HIDE DEF y
    <3> QED BY <1>2, <2>2 DEF div
  <2> HIDE DEF y, a
  <2> QED BY <1>2, <1>4, <1>5, <2>1, <2>3
<1>7. CASE ~(x < 0)
  BY <1>1, <1>6, <1>7 DEF from_signed_magnitude
<1>8. CASE x < 0
  <2>1. x = -a
    BY <1>1, <1>8
  <2>2. (-a) \div m = IF r # 0 THEN -(q + 1) ELSE -q
    <3> HIDE DEF a
    <3> QED BY <1>1, NegatedFloor
  <2> QED BY <1>6, <1>8, <2>1, <2>2 DEF from_signed_magnitude
<1> QED BY <1>7, <1>8

(* The midpoint of two numbers lies between them, and fits unless their    *)
(* signs differ.                                                           *)
LEMMA Halfway ==
  ASSUME NEW low \in Raw, NEW high \in Raw
  PROVE  /\ midpoint(low, high) # Err =>
              /\ midpoint(low, high) \in Raw
              /\ \/ low <= midpoint(low, high) /\ midpoint(low, high) <= high
                 \/ high <= midpoint(low, high) /\ midpoint(low, high) <= low
         /\ midpoint(low, high) = Err =>
              \/ low < 0 /\ 0 <= high
              \/ high < 0 /\ 0 <= low
<1> DEFINE span == high - low
           h == span \div 2
           mid == low + h
<1>1. span \in Int /\ h \in Int /\ 2 * h <= span /\ span < 2 * h + 2
  BY RawBounds
<1>2. sub(high, low) = checked(span) /\ add(low, h) = checked(mid)
  BY DEF sub, add
<1>3. div(span, from_int(2)) = checked(h)
  BY <1>1, WholeQuotient
<1>4. mid \in Raw /\ (\/ low <= mid /\ mid <= high
                      \/ high <= mid /\ mid <= low)
  <2> HIDE DEF h
  <2> QED BY <1>1, RawBounds
<1>5. CASE span \in Raw
  <2>1. h \in Raw
    <3> HIDE DEF span, h
    <3> QED BY <1>1, <1>5, RawBounds
  <2>2. sub(high, low) = span /\ div(span, from_int(2)) = h /\ add(low, h) = mid
    <3> HIDE DEF span, h, mid
    <3> QED BY <1>2, <1>3, <1>4, <1>5, <2>1, RawBounds
  <2>3. span # Err /\ h # Err /\ mid # Err
    <3> HIDE DEF span, h, mid
    <3> QED BY <1>4, <1>5, <2>1, RawBounds
  <2> HIDE DEF span, h, mid
  <2>4. midpoint(low, high) = mid
    BY <2>2, <2>3 DEF midpoint
  <2> QED BY <1>4, <2>3, <2>4
<1>6. CASE span \notin Raw
  <2>1. midpoint(low, high) = Err
    <3> HIDE DEF span
    <3> QED BY <1>2, <1>6, RawBounds DEF midpoint
  <2>2. (low < 0 /\ 0 <= high) \/ (high < 0 /\ 0 <= low)
    BY <1>6, RawBounds
  <2> QED BY <2>1, <2>2
<1> QED BY <1>5, <1>6

(* Sorting finds every rank.                                               *)
LEMMA RankExists ==
  ASSUME NEW n \in Nat, NEW ns \in [1 .. n -> Raw], NEW k \in 1 .. n
  PROVE  \E j \in 1 .. n : Ranked(ns, k) = ns[j]
<1> DEFINE Upto(t) == {j \in 1 .. n : ns[j] <= t}
           Reached == {m \in Nat : Cardinality(Upto(m - RAW_SPAN)) >= k}
<1>1. \A j \in 1 .. n : ns[j] \in Int /\ -RAW_SPAN <= ns[j] /\ ns[j] < RAW_SPAN
  BY RawBounds
<1>2. IsFiniteSet(1 .. n) /\ Cardinality(1 .. n) = n
  BY FS_Interval
<1>3. \A t \in Int : Cardinality(Upto(t)) \in Nat
  <2> SUFFICES ASSUME NEW t \in Int PROVE Cardinality(Upto(t)) \in Nat
    OBVIOUS
  <2>1. Upto(t) \subseteq 1 .. n
    OBVIOUS
  <2>2. IsFiniteSet(Upto(t))
    <3> HIDE DEF Upto
    <3> QED BY <1>2, <2>1, FS_Subset
  <2> HIDE DEF Upto
  <2> QED BY <2>2, FS_CardinalityType
<1>4. 2 * RAW_SPAN - 1 \in Reached
  <2>1. 2 * RAW_SPAN - 1 \in Nat /\ (2 * RAW_SPAN - 1) - RAW_SPAN = RAW_SPAN - 1
    BY RawBounds
  <2>2. Upto(RAW_SPAN - 1) = 1 .. n
    BY <1>1, RawBounds
  <2> HIDE DEF Upto
  <2> QED BY <1>2, <2>1, <2>2
<1>5. PICK m \in Reached : \A l \in Reached : m <= l
  <2> Reached \in SUBSET Nat /\ Reached # {}
    BY <1>4
  <2> HIDE DEF Reached
  <2> QED BY LeastNatural
<1> DEFINE v == m - RAW_SPAN
<1>6. m \in Nat /\ v \in Int /\ Cardinality(Upto(v)) >= k
  <2> HIDE DEF Upto
  <2> QED BY <1>5, RawBounds
<1>7. Cardinality(Upto(v - 1)) < k
  <2>1. CASE m = 0
    <3>1. Upto(v - 1) = {}
      BY <1>1, <2>1, RawBounds
    <3>2. Cardinality({}) = 0 /\ 0 < k
      BY FS_EmptySet
    <3> HIDE DEF Upto, v
    <3> QED BY <3>1, <3>2
  <2>2. CASE m # 0
    <3>1. m - 1 \in Nat /\ (m - 1) - RAW_SPAN = v - 1 /\ ~(m <= m - 1) /\ v - 1 \in Int
      BY <1>6, <2>2, RawBounds
    <3>2. m - 1 \notin Reached
      <4> HIDE DEF Reached
      <4> QED BY <1>5, <3>1
    <3> HIDE DEF Upto, v
    <3> QED BY <1>3, <3>1, <3>2, SMTT(40)
  <2> HIDE DEF Upto, v
  <2> QED BY <2>1, <2>2
<1>8. Upto(v - 1) = {j \in 1 .. n : ns[j] < v}
  BY <1>1, <1>6
<1>9. \E j \in 1 .. n : ns[j] = v
  <2> SUFFICES ASSUME \A j \in 1 .. n : ns[j] # v PROVE FALSE
    OBVIOUS
  <2>1. Upto(v) = Upto(v - 1)
    BY <1>1, <1>6
  <2> HIDE DEF Upto, v
  <2> QED BY <1>3, <1>6, <1>7, <2>1
<1> DEFINE Rank(u) == /\ Cardinality({j \in DOMAIN ns : ns[j] < u}) < k
                      /\ Cardinality({j \in DOMAIN ns : ns[j] <= u}) >= k
<1>10. v \in {ns[j] : j \in DOMAIN ns} /\ Rank(v)
  <2>1. DOMAIN ns = 1 .. n
    OBVIOUS
  <2>2. Cardinality({j \in 1 .. n : ns[j] < v}) < k
    <3> HIDE DEF Upto, v
    <3> QED BY <1>7, <1>8
  <2> QED BY <1>6, <1>9, <2>1, <2>2
<1>11. Ranked(ns, k) = CHOOSE u \in {ns[j] : j \in DOMAIN ns} : Rank(u)
  BY DEF Ranked
<1> HIDE DEF v, Rank
<1>12. Ranked(ns, k) \in {ns[j] : j \in DOMAIN ns}
  BY <1>10, <1>11
<1> QED BY <1>12

(* A median lies between two of its numbers, and fits unless two of them   *)
(* differ in sign.                                                         *)
LEMMA MedianBetween ==
  ASSUME NEW n \in Nat \ {0}, NEW ns \in [1 .. n -> Raw]
  PROVE  /\ median(ns) # Err =>
              /\ median(ns) \in Raw
              /\ \E a, b \in 1 .. n : ns[a] <= median(ns) /\ median(ns) <= ns[b]
         /\ median(ns) = Err => \E a, b \in 1 .. n : ns[a] < 0 /\ 0 <= ns[b]
<1>1. Len(ns) = n
  BY SeqDef, LenProperties
<1>2. \A j \in 1 .. n : ns[j] \in Raw /\ ns[j] \in Int /\ ns[j] # Err
  BY RawBounds
<1>3. CASE n % 2 = 1
  <2>1. (n + 1) \div 2 \in 1 .. n
    BY <1>3
  <2>2. PICK j \in 1 .. n : Ranked(ns, (n + 1) \div 2) = ns[j]
    <3> DEFINE k == (n + 1) \div 2
    <3> HIDE DEF k
    <3>1. k \in 1 .. n => \E j \in 1 .. n : Ranked(ns, k) = ns[j]
      BY RankExists
    <3> QED BY <2>1, <3>1 DEF k
  <2>3. median(ns) = ns[j]
    BY <1>1, <1>3, <2>2 DEF median
  <2> QED BY <1>2, <2>3
<1>4. CASE n % 2 # 1
  <2>1. n \div 2 \in 1 .. n /\ n \div 2 + 1 \in 1 .. n
    BY <1>4
  <2>2. \A k \in 1 .. n : \E j \in 1 .. n : Ranked(ns, k) = ns[j]
    BY RankExists
  <2>3. PICK i \in 1 .. n : Ranked(ns, n \div 2) = ns[i]
    BY <2>1, <2>2
  <2>4. PICK j \in 1 .. n : Ranked(ns, n \div 2 + 1) = ns[j]
    BY <2>1, <2>2
  <2>5. median(ns) = midpoint(ns[i], ns[j])
    BY <1>1, <1>4, <2>3, <2>4 DEF median
  <2>6. ns[i] \in Raw /\ ns[j] \in Raw
    BY <1>2
  <2> QED BY <2>5, <2>6, Halfway
<1> QED BY <1>3, <1>4

(* The running total is the sum so far, or Err for good.                   *)
LEMMA RunningTotal ==
  ASSUME NEW n \in Nat, NEW ns \in [1 .. n -> Raw]
  PROVE  /\ running_total(ns)[0] = 0
         /\ \A k \in 0 .. n - 1 :
              running_total(ns)[k + 1] = IF running_total(ns)[k] = Err THEN Err
                                         ELSE checked(running_total(ns)[k] + ns[k + 1])
<1> DEFINE Next1(total, k) == IF total = Err THEN Err ELSE add(total, ns[k])
           total == running_total(ns)
<1>1. NatInductiveDefHypothesis(total, 0, Next1)
  BY DEF NatInductiveDefHypothesis, running_total
<1>2. NatInductiveDefConclusion(total, 0, Next1)
  <2> HIDE DEF total, Next1
  <2> QED BY <1>1, NatInductiveDef
<1>3. total = [k \in Nat |-> IF k = 0 THEN 0
                             ELSE IF total[k - 1] = Err THEN Err ELSE add(total[k - 1], ns[k])]
  <2> HIDE DEF total
  <2> QED BY <1>2 DEF NatInductiveDefConclusion
<1> HIDE DEF total
<1>4. total[0] = 0
  BY <1>3
<1>5. ASSUME NEW k \in 0 .. n - 1
      PROVE  total[k + 1] = IF total[k] = Err THEN Err ELSE checked(total[k] + ns[k + 1])
  <2>1. k + 1 \in Nat /\ k + 1 # 0 /\ (k + 1) - 1 = k
    OBVIOUS
  <2>2. total[k + 1] = IF total[(k + 1) - 1] = Err THEN Err ELSE add(total[(k + 1) - 1], ns[k + 1])
    BY <1>3, <2>1
  <2> QED BY <2>1, <2>2 DEF add
<1> QED BY <1>4, <1>5 DEF total

(* A mean lies between the least and the greatest of its numbers.          *)
LEMMA MeanBetween ==
  ASSUME NEW n \in Nat \ {0}, NEW ns \in [1 .. n -> Raw], mean(ns) # Err
  PROVE  \E a, b \in 1 .. n : ns[a] <= mean(ns) /\ mean(ns) <= ns[b]
<1> DEFINE total == running_total(ns)
           LeastOf == {m \in Nat : \E j \in 1 .. n : m = ns[j] + RAW_SPAN}
           MostOf  == {m \in Nat : \E j \in 1 .. n : m = RAW_SPAN - ns[j]}
<1>1. Len(ns) = n
  BY SeqDef, LenProperties
<1>2. \A j \in 1 .. n : ns[j] \in Int /\ -RAW_SPAN <= ns[j] /\ ns[j] < RAW_SPAN
  BY RawBounds
<1>3. PICK a \in 1 .. n : \A j \in 1 .. n : ns[a] <= ns[j]
  <2>1. LeastOf \in SUBSET Nat /\ ns[1] + RAW_SPAN \in LeastOf
    BY <1>2, RawBounds
  <2>2. PICK m \in LeastOf : \A l \in LeastOf : m <= l
    <3> HIDE DEF LeastOf
    <3>1. LeastOf # {}
      BY <2>1
    <3> QED BY <2>1, <3>1, LeastNatural
  <2>3. PICK a \in 1 .. n : m = ns[a] + RAW_SPAN
    BY <2>2
  <2>4. ASSUME NEW j \in 1 .. n PROVE ns[a] <= ns[j]
    <3>1. ns[j] + RAW_SPAN \in LeastOf
      BY <1>2, RawBounds
    <3>2. m <= ns[j] + RAW_SPAN
      BY <2>2, <3>1
    <3> QED BY <1>2, <2>3, <3>2, RawBounds
  <2> QED BY <2>4
<1>4. PICK b \in 1 .. n : \A j \in 1 .. n : ns[j] <= ns[b]
  <2>1. MostOf \in SUBSET Nat /\ RAW_SPAN - ns[1] \in MostOf
    BY <1>2, RawBounds
  <2>2. PICK m \in MostOf : \A l \in MostOf : m <= l
    <3> HIDE DEF MostOf
    <3>1. MostOf # {}
      BY <2>1
    <3> QED BY <2>1, <3>1, LeastNatural
  <2>3. PICK b \in 1 .. n : m = RAW_SPAN - ns[b]
    BY <2>2
  <2>4. ASSUME NEW j \in 1 .. n PROVE ns[j] <= ns[b]
    <3>1. RAW_SPAN - ns[j] \in MostOf
      BY <1>2, RawBounds
    <3>2. m <= RAW_SPAN - ns[j]
      BY <2>2, <3>1
    <3> QED BY <1>2, <2>3, <3>2, RawBounds
  <2> QED BY <2>4
<1> HIDE DEF total, LeastOf, MostOf
<1> DEFINE low  == ns[a]
           high == ns[b]
           Held == {k \in 0 .. n : total[k] # Err =>
                      /\ total[k] \in Int
                      /\ low * k <= total[k] /\ total[k] <= high * k}
<1>5. low \in Int /\ high \in Int /\ \A j \in 1 .. n : low <= ns[j] /\ ns[j] <= high
  BY <1>2, <1>3, <1>4
<1>6. /\ total[0] = 0
      /\ \A k \in 0 .. n - 1 :
           total[k + 1] = IF total[k] = Err THEN Err ELSE checked(total[k] + ns[k + 1])
  BY RunningTotal DEF total
<1> HIDE DEF low, high
<1>7. 0 .. n \subseteq Held
  <2>1. 0 \in Held
    BY <1>5, <1>6
  <2>2. ASSUME NEW k \in 0 .. n - 1, k \in Held PROVE k + 1 \in Held
    <3> SUFFICES ASSUME total[k + 1] # Err
                 PROVE  /\ total[k + 1] \in Int
                        /\ low * (k + 1) <= total[k + 1] /\ total[k + 1] <= high * (k + 1)
      OBVIOUS
    <3>1. total[k] # Err /\ total[k + 1] = checked(total[k] + ns[k + 1])
      BY <1>6
    <3>2. total[k] \in Int /\ low * k <= total[k] /\ total[k] <= high * k
      BY <2>2, <3>1
    <3>3. ns[k + 1] \in Int /\ low <= ns[k + 1] /\ ns[k + 1] <= high
      BY <1>2, <1>5
    <3>4. total[k + 1] = total[k] + ns[k + 1]
      BY <3>1, RawBounds
    <3>5. /\ low * (k + 1) = low * k + low /\ high * (k + 1) = high * k + high
          /\ low * k \in Int /\ high * k \in Int
      BY <1>5
    <3> QED BY <1>5, <3>2, <3>3, <3>4, <3>5
  <2> HIDE DEF Held
  <2> QED BY <2>1, <2>2, IntervalInduction
<1> DEFINE sum == total[n]
<1>8. sum # Err /\ mean(ns) = div(sum, from_int(n))
  BY <1>1 DEF mean, total
<1>9. sum \in Int /\ low * n <= sum /\ sum <= high * n
  <2>1. n \in 0 .. n
    OBVIOUS
  <2>2. n \in Held
    <3> HIDE DEF Held
    <3> QED BY <1>7, <2>1
  <2> QED BY <1>8, <2>2
<1> HIDE DEF sum, Held
<1>10. mean(ns) = sum \div n
  <2>1. div(sum, from_int(n)) = checked(sum \div n)
    BY <1>9, WholeQuotient
  <2> QED BY <1>8, <2>1, RawBounds
<1>11. low <= sum \div n /\ sum \div n <= high
  <2> DEFINE q == sum \div n
  <2>1. q \in Int /\ q * n <= sum /\ sum < (q + 1) * n
    BY <1>9, FloorDiv
  <2> HIDE DEF q
  <2>2. low * n < (q + 1) * n /\ q * n <= high * n
    BY <1>5, <1>9, <2>1
  <2>3. low < q + 1 /\ q <= high
    BY <1>5, <2>1, <2>2
  <2> QED BY <1>5, <2>1, <2>3 DEF q
<1> QED BY <1>10, <1>11 DEF low, high

-----------------------------------------------------------------------------
(* Every number on the interpreter's stack is a Q64.                       *)

Fits(v) == v.type = "num" => v.is \in Raw

NumbersFit ==
  phase = "running" =>
    /\ context.settle_at \in Instants
    /\ \A k \in 1 .. Len(stack) : Fits(stack[k])

(* A quotient, a product and a remainder fit or fail, whatever is divided. *)
LEMMA ArithmeticFits ==
  ASSUME NEW op \in Arithmetic, NEW x \in Raw, NEW y \in Raw
  PROVE  arithmetic(op, x, y) \in Raw \cup {Err}
<1>1. /\ add(x, y) \in Raw \cup {Err} /\ sub(x, y) \in Raw \cup {Err}
      /\ min(x, y) \in Raw \cup {Err} /\ max(x, y) \in Raw \cup {Err}
  BY RawBounds DEF add, sub, min, max
<1>2. \A n, lost, negative : from_signed_magnitude(n, lost, negative) \in Raw \cup {Err}
  BY RawBounds DEF from_signed_magnitude
<1>3. mul(x, y) \in Raw \cup {Err} /\ div(x, y) \in Raw \cup {Err}
  BY <1>2 DEF mul, div
<1>4. rem(x, y) \in Raw \cup {Err}
  <2>1. CASE y = 0
    BY <2>1 DEF rem
  <2>2. CASE y # 0
    <3> DEFINE a == magnitude(x)
               b == magnitude(y)
               r == a % b
               truncated == IF x < 0 THEN -r ELSE r
    <3>1. b \in Nat \ {0} /\ b <= RAW_SPAN /\ a \in Int
      BY <2>2, RawBounds DEF magnitude
    <3>2. r \in Int /\ 0 <= r /\ r < RAW_SPAN
      <4>1. r \in 0 .. b - 1
        <5> HIDE DEF a, b
        <5> QED BY <3>1, FloorDiv
      <4> HIDE DEF r, a, b
      <4> QED BY <3>1, <4>1, RawBounds
    <3>3. truncated \in Raw /\ checked(truncated + y) \in Raw \cup {Err}
      <4> HIDE DEF r
      <4> QED BY <3>2, RawBounds
    <3>4. rem(x, y) \in {Err, truncated, checked(truncated + y)}
      BY DEF rem
    <3> HIDE DEF truncated
    <3> QED BY <3>3, <3>4
  <2> QED BY <2>1, <2>2
<1> QED BY <1>1, <1>3, <1>4 DEF arithmetic, Arithmetic

(* Values that pop as the instruction demands: what it pops, it can use.   *)
Popped(i, args) ==
  /\ Len(args) = taken(i)
  /\ \A k \in 1 .. taken(i) : Fits(args[k]) /\ demanded(i)[k] \in {"any", args[k].type}

LEMMA AggregatedNumbers ==
  ASSUME NEW i, i.op \in Aggregates, i.operand \in Nat \ {0}, NEW args, Popped(i, args)
  PROVE  /\ Len(args) = i.operand
         /\ [k \in 1 .. Len(args) |-> args[k].is] \in [1 .. i.operand -> Raw]
         /\ value(i, args) =
              Number(IF i.op = "Median" THEN median([k \in 1 .. Len(args) |-> args[k].is])
                                        ELSE mean([k \in 1 .. Len(args) |-> args[k].is]))
<1>1. demanded(i) = Repeated("num", i.operand)
  BY DEF demanded, Producers, Arithmetic, Comparisons, Hashes, Aggregates
<1>2. taken(i) = i.operand /\ \A k \in 1 .. i.operand : demanded(i)[k] = "num"
  <2>1. i.operand \in Nat
    OBVIOUS
  <2>2. /\ Len(Repeated("num", i.operand)) = i.operand
        /\ \A k \in 1 .. i.operand : Repeated("num", i.operand)[k] = "num"
    BY <2>1, RepeatedSeq
  <2> QED BY <1>1, <2>2 DEF taken
<1>3. Len(args) = i.operand /\ \A k \in 1 .. i.operand : args[k].is \in Raw
  BY <1>2 DEF Popped, Fits
<1>4. CASE i.op = "Median"
  BY <1>3, <1>4 DEF value, Producers, Arithmetic, Comparisons, Hashes
<1>5. CASE i.op = "Mean"
  BY <1>3, <1>5 DEF value, Producers, Arithmetic, Comparisons, Hashes
<1> QED BY <1>4, <1>5 DEF Aggregates

LEMMA NumberOf ==
  ASSUME NEW r \in Raw \cup {Err}
  PROVE  /\ Number(r) = Err <=> r = Err
         /\ r # Err => Number(r) = Num(r) /\ Number(r).is = r /\ r \in Raw
<1>1. CASE r = Err
  BY <1>1 DEF Number
<1>2. CASE r # Err
  <2>1. Number(r) = [type |-> "num", is |-> r] /\ r \in Raw
    BY <1>2 DEF Number, Num
  <2>2. [type |-> "num", is |-> r] \in [type : {"num"}, is : Raw]
    BY <2>1
  <2>3. Number(r) # Err
    BY <2>1, <2>2, MachineBounds
  <2>4. Number(r).is = r
    BY <2>1
  <2> QED BY <1>2, <2>1, <2>3, <2>4 DEF Num
<1> QED BY <1>1, <1>2

LEMMA ResultFits ==
  ASSUME NEW i \in Instructions, Readable(i), i.op \in Aggregates => i.operand # 0,
         i.op = "PushInput" => context.inputs[i.operand + 1] \in Prices,
         context.settle_at \in Instants,
         NEW args, Popped(i, args), value(i, args) # Err
  PROVE  Fits(value(i, args))
<1> USE DEF Producers, Arithmetic, Comparisons, Hashes, Aggregates
<1>0. ASSUME NEW r \in Raw \cup {Err}, value(i, args) = Number(r) PROVE Fits(value(i, args))
  BY <1>0, NumberOf DEF Fits
<1>1. CASE i.op \in Producers
  <2>1. CASE i.op = "PushInput"
    BY <2>1, MachineBounds DEF value, Num, Fits
  <2>2. CASE i.op = "PushConst"
    BY <2>2, MachineBounds DEF value, Num, Fits
  <2>3. CASE i.op = "PushTime"
    BY <2>3, MachineBounds DEF value, Num, Fits
  <2>4. CASE i.op = "PushBytes32"
    BY <2>4 DEF value, Bytes, Fits
  <2> QED BY <1>1, <2>1, <2>2, <2>3, <2>4
<1>2. CASE i.op \in Arithmetic
  <2>1. demanded(i) = <<"num", "num">> /\ taken(i) = 2
    BY <1>2 DEF demanded, taken
  <2>2. args[1].is \in Raw /\ args[2].is \in Raw
    BY <2>1 DEF Popped, Fits
  <2>3. value(i, args) = Number(arithmetic(i.op, args[1].is, args[2].is))
    BY <1>2 DEF value
  <2>4. arithmetic(i.op, args[1].is, args[2].is) \in Raw \cup {Err}
    BY <1>2, <2>2, ArithmeticFits
  <2> QED BY <1>0, <2>3, <2>4
<1>3. CASE i.op \in {"Abs", "Negate"}
  <2>1. value(i, args) = Number(IF i.op = "Abs" THEN abs(args[1].is) ELSE neg(args[1].is))
    BY <1>3 DEF value
  <2>2. abs(args[1].is) \in Raw \cup {Err} /\ neg(args[1].is) \in Raw \cup {Err}
    BY RawBounds, SMTT(40) DEF abs, neg
  <2> QED BY <1>0, <2>1, <2>2
<1>4. CASE i.op \in Comparisons \cup {"Within", "And", "Or", "Xor", "Not", "BytesEqual"}
  BY <1>4, SMTT(40) DEF value, Bool, Fits
<1>5. CASE i.op \in Hashes \cup {"NumToBytes"}
  BY <1>5 DEF value, Bytes, Fits
<1>6. CASE i.op = "Select"
  <2>1. taken(i) = 3
    BY <1>6 DEF demanded, taken
  <2>2. Fits(args[2]) /\ Fits(args[3])
    BY <2>1 DEF Popped
  <2>3. value(i, args) \in {args[2], args[3]}
    BY <1>6, ResultType DEF Readable
  <2> QED BY <2>2, <2>3
<1>7. CASE i.op = "Clamp"
  <2>1. demanded(i) = <<"num", "num", "num">> /\ taken(i) = 3
    BY <1>7 DEF demanded, taken
  <2>2. args[1].is \in Raw /\ args[2].is \in Raw /\ args[3].is \in Raw
    BY <2>1 DEF Popped, Fits
  <2>3. min(max(args[1].is, args[2].is), args[3].is) \in Raw
    BY <2>2 DEF min, max
  <2>4. value(i, args) = Num(min(max(args[1].is, args[2].is), args[3].is))
    BY <1>7 DEF value
  <2> QED BY <2>3, <2>4 DEF Num, Fits
<1>8. CASE i.op \in Aggregates
  <2> DEFINE ns == [k \in 1 .. Len(args) |-> args[k].is]
             r == IF i.op = "Median" THEN median(ns) ELSE mean(ns)
  <2>1. i.operand \in Nat \ {0}
    BY <1>8 DEF Readable
  <2>2. ns \in [1 .. i.operand -> Raw] /\ value(i, args) = Number(r)
    BY <1>8, <2>1, AggregatedNumbers
  <2>3. median(ns) \in Raw \cup {Err}
    <3> HIDE DEF ns
    <3> QED BY <2>1, <2>2, MedianBetween
  <2>4. mean(ns) \in Raw \cup {Err}
    <3> HIDE DEF ns
    <3> QED BY RawBounds DEF mean, div, from_signed_magnitude
  <2>5. r \in Raw \cup {Err}
    BY <2>3, <2>4
  <2> HIDE DEF r, ns
  <2> QED BY <1>0, <2>2, <2>5
<1> QED BY <1>1, <1>2, <1>3, <1>4, <1>5, <1>6, <1>7, <1>8 DEF Readable, Op

(* What a running program is about to execute, and over which values.      *)
LEMMA NextToRun ==
  ASSUME MachineInv, NumbersFit, phase = "running", pc <= Len(code)
  PROVE  /\ pc \in Nat
         /\ current \in Instructions /\ Readable(current) /\ CanStep(stack, current)
         /\ current.op \in Aggregates => current.operand # 0
         /\ current.op = "PushInput" => context.inputs[current.operand + 1] \in Prices
         /\ taken(current) \in 0 .. Len(stack) /\ Popped(current, operands)
         /\ result # Err => Fits(result)
<1>1. /\ pc \in 1 .. Len(code) /\ code \in Seq(Instructions) /\ input_count \in Nat
      /\ context.inputs \in [1 .. input_count -> Prices] /\ types_of(stack) = trace[pc]
      /\ context.settle_at \in Instants /\ \A k \in 1 .. Len(stack) : Fits(stack[k])
  <2>1. /\ pc \in 1 .. Len(code) + 1 /\ types_of(stack) = trace[pc]
        /\ context.inputs \in [1 .. input_count -> Prices]
    BY DEF MachineInv, Standing
  <2>2. code \in Seq(Instructions) /\ Len(code) \in Nat /\ input_count \in Nat
    BY LenProperties DEF MachineInv, ReadOnce
  <2> QED BY <2>1, <2>2 DEF NumbersFit
<1>2. PICK S : stack \in Seq(S)
  BY DEF MachineInv, Standing
<1>3. /\ Readable(current) /\ TypeChecks(types_of(stack), current)
      /\ current.op = "PushInput" => current.operand \in 0 .. input_count - 1
  BY <1>1 DEF MachineInv, Accepted, current
<1>4. current \in Instructions
  BY <1>1, LenProperties DEF current
<1>5. current.op = "PushInput" => /\ current.operand + 1 \in DOMAIN context.inputs
                                  /\ context.inputs[current.operand + 1] \in Prices
  BY <1>1, <1>3
<1>6. CanStep(stack, current)
  BY <1>2, <1>3, <1>5, StepAgrees
<1> DEFINE n == Len(stack)
           p == taken(current)
<1>7. n \in Nat /\ p \in 0 .. n
  <2>1. p \in Nat
    <3>1. CASE current.op = "Select"
      <4>1. demanded(current) = <<"bool", "any", "any">>
        BY <3>1 DEF demanded, Producers, Arithmetic, Comparisons, Hashes, Aggregates
      <4> QED BY <4>1 DEF taken
    <3>2. CASE current.op # "Select"
      <4>1. expected(current) \in Seq(Type) /\ p = popped(current)
        BY <1>3, <3>2, SameDemands
      <4> QED BY <4>1, <3>2, LenProperties DEF popped
    <3> QED BY <3>1, <3>2
  <2>2. n \in Nat /\ p <= n
    BY <1>2, <1>6, LenProperties DEF CanStep
  <2> QED BY <2>1, <2>2
<1>10. Popped(current, operands)
  <2>1. Len(operands) = p /\ \A k \in 1 .. p : operands[k] = stack[n - p + k]
    BY <1>2, <1>7, Popping DEF operands
  <2>2. ASSUME NEW k \in 1 .. p
        PROVE  Fits(operands[k]) /\ demanded(current)[k] \in {"any", operands[k].type}
    <3>1. n - p + k \in 1 .. n /\ operands[k] = stack[n - p + k]
      BY <1>7, <2>1
    <3>2. demanded(current)[k] \in {"any", stack[n - p + k].type}
      BY <1>6 DEF CanStep
    <3> QED BY <1>1, <3>1, <3>2
  <2> QED BY <2>1, <2>2 DEF Popped
<1>8. current.op \in Aggregates => current.operand # 0
  BY <1>6 DEF CanStep
<1>9. result # Err => Fits(result)
  BY <1>1, <1>3, <1>4, <1>5, <1>8, <1>10, ResultFits DEF result
<1> QED BY <1>1, <1>3, <1>4, <1>5, <1>6, <1>7, <1>8, <1>9, <1>10

(* What a step that succeeds leaves: the result over what was below.       *)
LEMMA StepPushes ==
  ASSUME MachineInv, NumbersFit, Step, result # Err
  PROVE  /\ Len(stack') \in Nat \ {0} /\ Len(stack') - 1 <= Len(stack) /\ Len(stack) \in Nat
         /\ stack'[Len(stack')] = result
         /\ \A k \in 1 .. Len(stack') - 1 : stack'[k] = stack[k]
<1> DEFINE n == Len(stack)
           p == taken(current)
           w == Without(stack, p)
<1>1. phase = "running" /\ pc <= Len(code)
  BY DEF Step
<1>2. CanStep(stack, current) /\ p \in 0 .. n
  BY <1>1, NextToRun
<1>3. stack' = Append(w, result)
  BY <1>2 DEF Step
<1>4. PICK S : stack \in Seq(S)
  BY <1>1 DEF MachineInv, Standing
<1>5. n \in Nat /\ w \in Seq(S) /\ Len(w) = n - p /\ \A k \in 1 .. n - p : w[k] = stack[k]
  BY <1>2, <1>4, Popping
<1>6. /\ Len(Append(w, result)) = n - p + 1 /\ Append(w, result)[n - p + 1] = result
      /\ \A k \in 1 .. n - p : Append(w, result)[k] = w[k]
  <2>1. w \in Seq(S \cup {result})
    <3> HIDE DEF w
    <3> QED BY <1>5, LenProperties, SeqDef
  <2> HIDE DEF w
  <2> QED BY <1>2, <1>5, <2>1, AppendProperties
<1>7. Len(stack') = n - p + 1 /\ stack'[n - p + 1] = result
      /\ \A k \in 1 .. n - p : stack'[k] = stack[k]
  <2> HIDE DEF w, n, p
  <2> QED BY <1>3, <1>5, <1>6
<1> HIDE DEF w, n, p
<1>8. n - p + 1 \in Nat \ {0} /\ (n - p + 1) - 1 = n - p /\ n - p <= n
  BY <1>2, <1>5
<1> QED BY <1>5, <1>7, <1>8 DEF n

LEMMA NumbersAlways == Spec => []NumbersFit
<1>1. Init => NumbersFit
  BY DEF Init, NumbersFit
<1>2. MachineInv /\ NumbersFit /\ [Next]_vars => NumbersFit'
  <2> SUFFICES ASSUME MachineInv, NumbersFit, [Next]_vars, phase' = "running"
               PROVE  /\ context'.settle_at \in Instants
                      /\ \A k \in 1 .. Len(stack') : Fits(stack'[k])
    BY DEF NumbersFit, Fits
  <2>1. ASSUME NEW inputs, NEW t \in Instants, Execute(inputs, t)
        PROVE  context'.settle_at \in Instants /\ stack' = <<>>
    BY <2>1 DEF Execute, MachineInv, Standing
  <2>2. ASSUME Step PROVE context'.settle_at \in Instants /\ \A k \in 1 .. Len(stack') : Fits(stack'[k])
    <3>1. phase = "running" /\ pc <= Len(code) /\ context' = context
      BY <2>2 DEF Step
    <3>2. CanStep(stack, current) /\ (result # Err => Fits(result))
      BY <3>1, NextToRun
    <3>3. result # Err
      BY <2>2, <3>2 DEF Step
    <3>4. ASSUME NEW k \in 1 .. Len(stack') PROVE Fits(stack'[k])
      <4>1. /\ Len(stack') \in Nat \ {0} /\ Len(stack') - 1 <= Len(stack) /\ Len(stack) \in Nat
            /\ stack'[Len(stack')] = result
            /\ \A j \in 1 .. Len(stack') - 1 : stack'[j] = stack[j]
        BY <2>2, <3>3, StepPushes
      <4>2. CASE k = Len(stack')
        BY <3>2, <3>3, <4>1, <4>2
      <4>3. CASE k # Len(stack')
        <5>1. k \in 1 .. Len(stack') - 1 /\ k \in 1 .. Len(stack)
          BY <4>1, <4>3
        <5> QED BY <3>1, <4>1, <5>1 DEF NumbersFit
      <4> QED BY <4>2, <4>3
    <3> QED BY <3>1, <3>4 DEF NumbersFit
  <2>3. CASE UNCHANGED vars
    BY <2>3 DEF vars, machine, NumbersFit
  <2>4. ASSUME Finish PROVE FALSE
    BY <2>4 DEF Finish
  <2>5. ASSUME EndOfCode PROVE FALSE
    BY <2>5 DEF EndOfCode
  <2>6. ASSUME NEW i \in Instructions, Read(i) \/ Refuse(i) PROVE FALSE
    BY <2>6 DEF Read, Refuse
  <2> QED BY <2>1, <2>2, <2>3, <2>4, <2>5, <2>6 DEF Next
<1> QED BY <1>1, <1>2, MachineAlways, PTL DEF Spec

(* MEDIAN and MEAN (exec.rs median_of_sorted, mean_of) return a value      *)
(* between two of those they aggregate, for any number of them and of any  *)
(* size; a median voids the market only if two of its numbers differ in    *)
(* sign.                                                                   *)
THEOREM AggregatesStayBetween == Spec => AggregatesBetween
<1> DEFINE Numbers == {operands[k].is : k \in DOMAIN operands}
           Between == phase = "running" /\ pc <= Len(code) /\ current.op \in Aggregates =>
             IF pc' = pc + 1
               THEN \E a, b \in Numbers : a <= Last(stack').is /\ Last(stack').is <= b
               ELSE current.op = "Median" => \E a, b \in Numbers : a < 0 /\ 0 <= b
<1>1. MachineInv /\ NumbersFit /\ [Next]_vars => [Between]_vars
  <2> SUFFICES ASSUME MachineInv, NumbersFit, Next,
                      phase = "running", pc <= Len(code), current.op \in Aggregates
               PROVE  IF pc' = pc + 1
                        THEN \E a, b \in Numbers : a <= Last(stack').is /\ Last(stack').is <= b
                        ELSE current.op = "Median" => \E a, b \in Numbers : a < 0 /\ 0 <= b
    OBVIOUS
  <2>1. /\ pc \in Nat /\ CanStep(stack, current) /\ Popped(current, operands)
        /\ current.operand \in Nat \ {0}
    BY NextToRun DEF Readable
  <2>2. Step
    BY <2>1, LenProperties DEF Next, Read, Refuse, EndOfCode, Execute, Finish, MachineInv, ReadOnce
  <2> DEFINE n  == current.operand
             ns == [k \in 1 .. Len(operands) |-> operands[k].is]
             r  == IF current.op = "Median" THEN median(ns) ELSE mean(ns)
  <2>3. ns \in [1 .. n -> Raw] /\ result = Number(r) /\ Len(operands) = n
    BY <2>1, AggregatedNumbers DEF result
  <2>4. \A k \in 1 .. n : ns[k] \in Numbers
    <3>1. DOMAIN operands = 1 .. n
      BY <2>3
    <3> QED BY <2>3, <3>1
  <2>5. r # Err => r \in Raw /\ \E a, b \in 1 .. n : ns[a] <= r /\ r <= ns[b]
    <3> HIDE DEF ns
    <3>1. CASE current.op = "Median"
      BY <2>1, <2>3, <3>1, MedianBetween
    <3>2. CASE current.op # "Median"
      <4>1. mean(ns) \in Raw \cup {Err}
        BY RawBounds DEF mean, div, from_signed_magnitude
      <4> QED BY <2>1, <2>3, <3>2, <4>1, MeanBetween
    <3> QED BY <3>1, <3>2
  <2>6. current.op = "Median" /\ r = Err => \E a, b \in 1 .. n : ns[a] < 0 /\ 0 <= ns[b]
    <3> HIDE DEF ns
    <3> QED BY <2>1, <2>3, MedianBetween
  <2> HIDE DEF ns, r, n, Numbers
  <2>7. CASE r # Err
    <3>1. result # Err /\ result.is = r
      BY <2>3, <2>5, <2>7, NumberOf
    <3>2. pc' = pc + 1
      BY <2>1, <2>2, <3>1 DEF Step
    <3>3. Last(stack') = result
      BY <2>2, <3>1, StepPushes DEF Last
    <3> QED BY <2>4, <2>5, <2>7, <3>1, <3>2, <3>3
  <2>8. CASE r = Err
    <3>1. result = Err
      BY <2>3, <2>8 DEF Number
    <3>2. pc' # pc + 1
      BY <2>1, <2>2, <3>1 DEF Step
    <3> QED BY <2>4, <2>6, <2>8, <3>2
  <2> QED BY <2>7, <2>8
<1> QED BY <1>1, MachineAlways, NumbersAlways, PTL DEF Spec, AggregatesBetween
=============================================================================
