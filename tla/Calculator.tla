----------------------------- MODULE Calculator -----------------------------
(***************************************************************************)
(* The service of the examples: CalculatorHandler of                       *)
(* examples/cpp/CppServer.cpp, one per connection.  A call has an          *)
(* operation and the pieces of its argument struct; its answer is the      *)
(* pieces of the result struct.  The numbers are those of the callers:     *)
(* none of them overflows.                                                 *)
(***************************************************************************)
EXTENDS Integers, Sequences, TLC

Operation == {"ADD", "SUBTRACT", "MULTIPLY", "DIVIDE"}

OnewayCalls == {"zip"}
Methods == {"ping", "add", "calculate", "getStruct"} \union OnewayCalls

\* A log is a function from the numbers of entries to them.
EmptyLog == <<>>
Entered(log, logid, entry) ==
    [id \in DOMAIN log \union {logid} |-> IF id = logid THEN entry ELSE log[id]]

I32(n) == [i32 |-> n]
Success(v) == <<[success |-> v]>>
InvalidOperation(whatOp, why) == <<[ouch |-> [whatOp |-> whatOp, why |-> why]]>>

SharedStruct(key, value) == [key |-> key, value |-> value]

\* Division of integers in C++ drops the fraction.
Quotient(a, b) ==
    LET abs(n) == IF n < 0 THEN -n ELSE n
        q == abs(a) \div abs(b)
    IN  IF (a < 0) # (b < 0) THEN -q ELSE q

Refuses(work) == work.op \notin Operation \/ (work.op = "DIVIDE" /\ work.num2 = 0)

Val(work) ==
    CASE work.op = "ADD" -> work.num1 + work.num2
      [] work.op = "SUBTRACT" -> work.num1 - work.num2
      [] work.op = "MULTIPLY" -> work.num1 * work.num2
      [] work.op = "DIVIDE" -> Quotient(work.num1, work.num2)

(* An operation that is refused leaves no entry in the log.                *)
Calculate(logid, work, log) ==
    IF Refuses(work)
    THEN [answer |-> InvalidOperation(work.op, IF work.op = "DIVIDE" THEN "Cannot divide by 0"
                                               ELSE "Invalid Operation"),
          log |-> log]
    ELSE [answer |-> Success(I32(Val(work))),
          log |-> Entered(log, logid, SharedStruct(logid, ToString(Val(work))))]

(* log[logid] makes an entry where there is none.                          *)
GetStruct(logid, log) ==
    LET entries == IF logid \in DOMAIN log THEN log
                   ELSE Entered(log, logid, SharedStruct(0, ""))
    IN  [answer |-> Success(entries[logid]), log |-> entries]

Handle(method, args, log) ==
    CASE method = "add" -> [answer |-> Success(I32(args[1].n1 + args[1].n2)), log |-> log]
      [] method = "calculate" -> Calculate(args[1].logid, args[1].work, log)
      [] method = "getStruct" -> GetStruct(args[1].logid, log)
      [] method \in {"ping", "zip"} -> [answer |-> <<>>, log |-> log]
=============================================================================
