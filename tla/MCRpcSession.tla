---------------------------- MODULE MCRpcSession ----------------------------
(* A small instance of RpcSession for TLC: the calls of CppClient.cpp, one *)
(* with a comment that is not UTF-8 and one of an operation that is none.  *)
EXTENDS RpcSession

Call(op, args) == [op |-> op, args |-> args]

Add(n1, n2) == [n1 |-> n1, n2 |-> n2]
Work(logid, op, num1, num2) ==
    [logid |-> logid, work |-> [op |-> op, num1 |-> num1, num2 |-> num2]]

Subtract == Work(1, "SUBTRACT", 15, 10)

MCCalls ==
    {Call("ping", <<>>), Call("zip", <<>>), Call("add", <<Add(1, 1)>>),
     Call("calculate", <<Work(1, "DIVIDE", 1, 0)>>), Call("calculate", <<Subtract>>),
     Call("calculate", <<Subtract, RawString>>), Call("calculate", <<Unconvertible>>),
     Call("getStruct", <<[logid |-> 1]>>)}

\* A server whose typelib is older than that of its client.
OlderOperations == Methods \ {"ping"}

MCValues ==
    {Add(1, 1), Work(1, "DIVIDE", 1, 0), Subtract, [logid |-> 1],
     Success(I32(2))[1], Success(I32(5))[1], Success(SharedStruct(0, ""))[1],
     Success(SharedStruct(1, "5"))[1], InvalidOperation("DIVIDE", "Cannot divide by 0")[1]}
=============================================================================
