------------------------------- MODULE Assembly -------------------------------
(***************************************************************************)
(* The x86-64 instructions the code generator writes, and what a processor *)
(* does with them.  None of this is in the repository: it is the machine   *)
(* the output of src/src/backend is for.                                   *)
(*                                                                         *)
(* Memory is bytes, and a byte has few bits: an int is four of them and a  *)
(* register eight.  What is kept of the machine is what the generated code *)
(* can get wrong: how many bytes a move reads and writes, that a 32-bit    *)
(* result clears the upper half of its register while a narrower one       *)
(* leaves it, which registers a call destroys, and what memory holds       *)
(* before anyone wrote to it.                                              *)
(***************************************************************************)
EXTENDS Integers, Sequences

CONSTANTS
  ByteBits,     \* bits of a byte
  StackBytes    \* bound: bytes of stack

(* Operands. *)
Reg(r)        == [kind |-> "register", reg |-> r]
Imm(n)        == [kind |-> "immediate", imm |-> n]
Mem(r, o)     == [kind |-> "memory", base |-> r, offset |-> o]
Static(n)     == [kind |-> "static", number |-> n]      \* a global
Routine(n)    == [kind |-> "routine", number |-> n]     \* a function
Mark(n)       == [kind |-> "label", label |-> n]
When(test)    == [kind |-> "test", test |-> test]
NoOperand     == [kind |-> "none"]

Ins(op, size, from, to) == [op |-> op, size |-> size, from |-> from, to |-> to]

RAX == Reg("rax")
RDX == Reg("rdx")
RCX == Reg("rcx")
Registers == {"rax", "rcx", "rdx", "rsi", "rdi", "r8", "r9", "r10", "rsp", "rbp"}
Saved     == {"rsp", "rbp"}    \* a call leaves these as they were

-----------------------------------------------------------------------------
(* Addresses: too wide for an int, every one of them. *)
StaticBase    == 2^(6 * ByteBits)
StaticBytes   == 64
StackBase     == StaticBase + StaticBytes
StackTop      == StackBase + StackBytes
AddressOfRoutine(n) == StaticBase \div 2 + 16 * n
AddressOfStatic(n)  == StaticBase + 8 * n
NoAddress     == 0

Bits(size)    == size * ByteBits
Low(n, size)  == n % 2^Bits(size)
Signed(n, size) ==
  LET l == Low(n, size) IN IF l < 2^(Bits(size) - 1) THEN l ELSE l - 2^Bits(size)

Byte(n, k)    == (n \div 2^(ByteBits * k)) % 2^ByteBits

Fault(s)      == [s EXCEPT !.status = "fault"]
Trap(s)       == [s EXCEPT !.status = "trap"]

InMemory(a, size) == a \in StaticBase .. StackTop - size

Word(mem, a) ==
  mem[a] + 2^ByteBits * mem[a + 1] + 2^(2 * ByteBits) * mem[a + 2] + 2^(3 * ByteBits) * mem[a + 3]

Fetch(mem, a, size) ==
  CASE size = 1 -> mem[a]
    [] size = 2 -> mem[a] + 2^ByteBits * mem[a + 1]
    [] size = 4 -> Word(mem, a)
    [] size = 8 -> Word(mem, a) + 2^(4 * ByteBits) * Word(mem, a + 4)

StoreWord(mem, a, n) ==
  [mem EXCEPT ![a] = Byte(n, 0), ![a + 1] = Byte(n, 1), ![a + 2] = Byte(n, 2), ![a + 3] = Byte(n, 3)]

Stored(mem, a, size, n) ==
  CASE size = 1 -> [mem EXCEPT ![a] = Byte(n, 0)]
    [] size = 2 -> [mem EXCEPT ![a] = Byte(n, 0), ![a + 1] = Byte(n, 1)]
    [] size = 4 -> StoreWord(mem, a, n)
    [] size = 8 -> StoreWord(StoreWord(mem, a, n), a + 4, n \div 2^(4 * ByteBits))

AddressIn(s, operand) ==
  CASE operand.kind = "memory"  -> Low(s.reg[operand.base] + operand.offset, 8)
    [] operand.kind = "static"  -> AddressOfStatic(operand.number)
    [] operand.kind = "routine" -> AddressOfRoutine(operand.number)

(* The operands an instruction may not have: memory that is not there. *)
Reachable(s, operand, size) ==
  operand.kind \in {"memory", "static"} => InMemory(AddressIn(s, operand), size)

Content(s, operand, size) ==
  CASE operand.kind = "register"  -> Low(s.reg[operand.reg], size)
    [] operand.kind = "immediate" -> Low(operand.imm, size)
    [] OTHER -> Fetch(s.mem, AddressIn(s, operand), size)

(* Four bytes written to a register clear the rest of it, fewer do not. *)
Put32(old, size, n) == IF size >= 4 THEN n ELSE old - Low(old, size) + n

Changed(s, operand, size, n) ==
  IF operand.kind = "register" THEN [s EXCEPT !.reg[operand.reg] = Put32(@, size, Low(n, size))]
  ELSE [s EXCEPT !.mem = Stored(@, AddressIn(s, operand), size, Low(n, size))]

-----------------------------------------------------------------------------
(* One instruction *)

BitOfWord(n, k) == (n \div 2^k) % 2
RECURSIVE Bitwise2(_, _, _, _)
Bitwise2(op, l, r, k) ==
  IF k = 0 THEN 0
  ELSE LET a == l % 2
           b == r % 2
           bit == CASE op = "and" -> a * b [] op = "or" -> a + b - a * b [] op = "xor" -> (a + b) % 2
       IN bit + 2 * Bitwise2(op, l \div 2, r \div 2, k - 1)

Computed(op, l, r, size) ==
  CASE op = "add"  -> l + r
    [] op = "sub"  -> l - r
    [] op = "imul" -> Signed(l, size) * Signed(r, size)
    [] OTHER       -> Bitwise2(op, l, r, Bits(size))

(* The count is taken modulo the width. *)
Shifted(op, n, count) ==
  LET by == count % Bits(4)
  IN CASE op = "sal" -> n * 2^by
       [] op = "shr" -> n \div 2^by
       [] op = "sar" -> Signed(n, 4) \div 2^by

Holds(c, test) ==
  LET l == Signed(c.left, c.size)
      r == Signed(c.right, c.size)
  IN CASE test = "e" -> l = r           [] test = "ne" -> l # r
       [] test = "l" -> l < r           [] test = "le" -> l <= r
       [] test = "g" -> l > r           [] test = "ge" -> l >= r
       [] test = "b" -> c.left < c.right  [] test = "be" -> c.left <= c.right
       [] test = "a" -> c.left > c.right  [] test = "ae" -> c.left >= c.right

Magnitude2(n) == IF n < 0 THEN -n ELSE n
SignOf(n)     == IF n < 0 THEN -1 ELSE 1
Toward0(l, r) == SignOf(l) * SignOf(r) * (Magnitude2(l) \div Magnitude2(r))

(* The dividend fills two registers; a quotient that does not fit traps.   *)
Dividend(s, size) ==
  IF size = 8 THEN Signed(s.reg["rax"], 8)
  ELSE LET n == Low(s.reg["rdx"], 4) * 2^Bits(4) + Low(s.reg["rax"], 4) IN Signed(n, 8)

Divided(s, size, l, r, signed) ==
  LET q == IF signed THEN Toward0(l, r) ELSE l \div r
      fits == IF signed THEN Signed(q, size) = q ELSE Low(q, size) = q
  IN IF ~ fits THEN Trap(s)
     ELSE [s EXCEPT !.reg["rax"] = Low(q, size), !.reg["rdx"] = Low(l - q * r, size)]

Pushed(s, n) ==
  LET a == s.reg["rsp"] - 8
  IN IF InMemory(a, 8) /\ a >= StackBase
       THEN [s EXCEPT !.reg["rsp"] = a, !.mem = Stored(@, a, 8, n)] ELSE Fault(s)

Popped(s, r) ==
  IF InMemory(s.reg["rsp"], 8)
    THEN LET n == Fetch(s.mem, s.reg["rsp"], 8)
         IN [s EXCEPT !.reg["rsp"] = @ + 8, !.reg[r] = n] ELSE Fault(s)

JumpTo(s, pc) == [s EXCEPT !.pc = pc]

(* A function outside the program: it shows its argument and destroys what *)
(* a function may destroy.                                                 *)
Garbage == 5
Outside(s) ==
  [s EXCEPT !.out = Append(@, Signed(s.reg["rdi"], 4)),
            !.reg = [r \in Registers |-> IF r \in Saved THEN @[r] ELSE IF r = "rax" THEN 0 ELSE Garbage]]

(* The routine a call goes to, by number; -1 if the address is none. *)
RoutineCalled(s, operand) ==
  IF operand.kind = "routine" THEN operand.number
  ELSE LET past == s.reg[operand.reg] - AddressOfRoutine(0)
       IN IF past >= 0 /\ past % 16 = 0 THEN past \div 16 ELSE -1

Called2(image, s, number) ==
  LET noted == [s EXCEPT !.aligned = @ /\ s.reg["rsp"] % 16 = 0]
  IN CASE number = 0 -> Outside(noted)
       [] number \in DOMAIN image.routines -> JumpTo(Pushed(noted, s.pc), image.routines[number])
       [] OTHER -> Fault(s)

(* What instruction i does to s, whose pc is already past it.              *)
Effect(image, i, s) ==
  CASE i.op = "mov"  -> Changed(s, i.to, i.size, Content(s, i.from, i.size))
    [] i.op = "movs" -> Changed(s, i.to, 4, Signed(Content(s, i.from, i.size), i.size))
    [] i.op = "movz" -> Changed(s, i.to, 4, Content(s, i.from, i.size))
    [] i.op = "lea"  -> Changed(s, i.to, 8, AddressIn(s, i.from))
    [] i.op = "push" -> Pushed(s, Content(s, i.from, 8))
    [] i.op = "pop"  -> Popped(s, i.to.reg)
    [] i.op \in {"add", "sub", "imul", "and", "or", "xor"} ->
         Changed(s, i.to, i.size,
                 Computed(i.op, Content(s, i.to, i.size), Content(s, i.from, i.size), i.size))
    [] i.op \in {"sal", "sar", "shr"} ->
         Changed(s, i.to, 4, Shifted(i.op, Content(s, i.to, 4), Content(s, RCX, 4)))
    [] i.op = "neg"  -> Changed(s, i.to, 4, - Content(s, i.to, 4))
    [] i.op = "not"  -> Changed(s, i.to, 4, - Content(s, i.to, 4) - 1)
    [] i.op = "cmp"  -> [s EXCEPT !.flags = [left |-> Content(s, i.to, i.size),
                                             right |-> Content(s, i.from, i.size), size |-> i.size]]
    [] i.op = "set"  -> Changed(s, i.to, 1, IF Holds(s.flags, i.from.test) THEN 1 ELSE 0)
    [] i.op = "cltq" -> Changed(s, RAX, 8, Signed(s.reg["rax"], 4))
    [] i.op = "cdq"  -> Changed(s, RDX, i.size, IF Signed(s.reg["rax"], i.size) < 0 THEN -1 ELSE 0)
    [] i.op \in {"idiv", "div"} ->
         IF Content(s, i.from, i.size) = 0 THEN Trap(s)
         ELSE IF i.op = "idiv"
           THEN Divided(s, i.size, Dividend(s, i.size), Signed(Content(s, i.from, i.size), i.size), TRUE)
           ELSE Divided(s, 4, Low(Dividend(s, 4), 8), Content(s, i.from, 4), FALSE)
    [] i.op = "jmp"  -> JumpTo(s, image.labels[i.to.label])
    [] i.op = "jump if" ->
         IF Holds(s.flags, i.from.test) THEN JumpTo(s, image.labels[i.to.label]) ELSE s
    [] i.op = "call" -> Called2(image, s, RoutineCalled(s, i.to))
    [] i.op = "leave" -> Popped([s EXCEPT !.reg["rsp"] = s.reg["rbp"]], "rbp")
    [] i.op = "ret"  ->
         IF ~ InMemory(s.reg["rsp"], 8) THEN Fault(s)
         ELSE LET to == Fetch(s.mem, s.reg["rsp"], 8)
                  back == [s EXCEPT !.reg["rsp"] = @ + 8, !.pc = to]
              IN IF to = NoAddress THEN [back EXCEPT !.status = "ret"] ELSE back
    [] i.op \in {"label", "routine"} -> s

StepOf(image, s) ==
  IF s.status # "running" THEN s
  ELSE IF s.pc \notin DOMAIN image.code THEN Fault(s)
  ELSE LET i == image.code[s.pc]
       IN IF Reachable(s, i.from, i.size) \/ i.op = "lea"
            THEN IF Reachable(s, i.to, i.size) THEN Effect(image, i, [s EXCEPT !.pc = @ + 1]) ELSE Fault(s)
            ELSE Fault(s)

(* 2^doublings instructions, or as many as it takes. *)
RECURSIVE Execute(_, _, _)
Execute(image, s, doublings) ==
  IF s.status # "running" THEN s
  ELSE IF doublings = 0 THEN StepOf(image, s)
  ELSE Execute(image, Execute(image, s, doublings - 1), doublings - 1)

(* Code put together: where its labels and routines are, and its globals.  *)
Linked(code, statics) ==
  LET At2(op, k) == {n \in DOMAIN code : code[n].op = op /\ code[n].to = k}
      marks    == {code[n].to.label : n \in {m \in DOMAIN code : code[m].op = "label"}}
      routines == {code[n].to.number : n \in {m \in DOMAIN code : code[m].op = "routine"}}
  IN [code |-> code, statics |-> statics,
      labels   |-> [l \in marks |-> CHOOSE n \in DOMAIN code : code[n].op = "label" /\ code[n].to.label = l],
      routines |-> [r \in routines |->
                      CHOOSE n \in DOMAIN code : code[n].op = "routine" /\ code[n].to.number = r]]

ArgumentRegisters == <<"rdi", "rsi", "rdx", "rcx", "r8", "r9">>

(* The state in which routine number is called with these arguments: the   *)
(* globals are there, and nothing else is.                                 *)
Entered(image, number, args) ==
  [reg |-> [r \in Registers |->
              CASE r = "rsp" -> StackTop - 8
                [] \E k \in DOMAIN args : ArgumentRegisters[k] = r ->
                     Low(args[CHOOSE k \in DOMAIN args : ArgumentRegisters[k] = r], 4)
                [] OTHER -> Garbage],
   mem |-> Stored([a \in StaticBase .. StackTop - 1 |->
                     IF a \in DOMAIN image.statics THEN image.statics[a] ELSE Garbage],
                  StackTop - 8, 8, NoAddress),
   pc |-> image.routines[number], flags |-> [left |-> 0, right |-> 0, size |-> 4],
   status |-> "running", out |-> <<>>, aligned |-> TRUE]

RunOf(image, number, args, doublings) == Execute(image, Entered(image, number, args), doublings)

(* What the caller sees of a run. *)
Observed(s) ==
  [status |-> s.status, val |-> IF s.status = "ret" THEN Signed(s.reg["rax"], 4) ELSE 0, out |-> s.out]
=============================================================================
