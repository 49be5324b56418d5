# A verification of thrift-nicejson

thrift-nicejson gives Apache Thrift a JSON wire format whose documents a person
can read: fields by name, enums by label. The names come at run time from a
*typelib*, a serialised description of a Thrift program. This directory holds
TLA+ models of the C++ implementation and of its Python and OCaml ports, checked with
TLC, and proofs checked with TLAPS. File names below are relative to `src/src/`.

## The system

| Component | Code | State | Operations | Talks to |
|---|---|---|---|---|
| Protocol object | `lib/cpp/TNiceJSONProtocol.{h,cpp}` | `mode_`, `message_name_`, `message_type_`, `message_seqid_`, a private binary buffer | `writeMessageBegin/End`, `readMessageBegin/End`, and some forty body calls | generated code above it, a transport below, the codec at the message ends |
| Codec | `lib/cpp/NiceJSON.cpp` 309-871 | none | `json2protocol`, `protocol2json`, `skip2json` | lookasides of one typelib |
| Typelib | `lib/cpp/NiceJSON.cpp` 73-283, `NiceJSON.h` | `structs_by_name`, lookasides, `xtra_types` | `initialize`, lookups | built once, then read |
| Registry | `lib/cpp/NiceJSON.cpp` 873-956 | global map of typelibs, two lists of directories | `install_typelib`, `require_typelib`, `lookup_typelib`, `prepend/append_typelib_directory` | file system, static initialisers of generated code, every protocol constructor |
| Python protocol | `lib/py/src/`, `lib/py/thrift_nicejson.cpp` | as the C++ object | as the C++ object | C++ codec and registry through a foreign-function module |
| OCaml protocol | `lib/ocaml/` | a mode that carries the message | as the C++ object | C++ codec and registry through stubs |
| Generator plugins | `plugins/` | the files they write | write `.typelib`, `.cpp` | registry, through those files |
| Tools | `tools/` | none | convert one file | codec |
| JSON library | `lib/cpp/json.hpp` (vendored) | a parser's, while it runs | `parse`, `dump`; `to_cbor`, `from_cbor`, `to_msgpack`, `from_msgpack`, `flatten`, `unflatten`, `patch`, `diff`, which nothing else here calls | the transport, one byte at a time; the protocol object |
| Session | `examples/cpp/` | the handler's log | the calls of the Calculator | two protocol objects over a connection |

What is hard here. The protocol object is sequential, but its *calls* come in any
order: it serves both directions of a connection, a caller may stop in the
middle of a message, and every Begin and End can throw half way. What it must
keep then is not local to one call: the boundary between documents in the
stream, and the separation of one message from the next although both directions
share one buffer and one header. The registry is global, unguarded and may be
used by several threads while a generator rewrites the files it loads. The codec
and the initialisation are sequential; their difficulties are numeric limits,
name collisions, and disagreement between the schema and the wire.

What makes each correct:

* protocol object: an acknowledged message is on the transport, whole and
  unmixed; after a failure nothing follows a partial document; what is read is
  one document of the stream; refusing a document costs only that document;
* registry: a name is bound once, a lookup answers what was bound, `require`
  succeeds when a good file is on the path;
* codec: converting to JSON and back is the identity, and a number that does not
  fit is refused, never changed;
* typelib: a name finds the type it was declared for, an operation of a derived
  service its own structs;
* Python and OCaml: the same as the C++ object, for they speak the same protocol;
* a session: every twoway call is answered with its own answer or an error;
* JSON library: reading undoes writing, and every conversion of a value has its way back.

## Modules

| Module | What it is |
|---|---|
| `NiceJSONProtocol` | the C++ protocol object, its callers and its peer |
| `AtomicEndpoint` | what any message protocol object promises: atomic send and receive |
| `MCNiceJSONProtocol` | the instances TLC checks |
| `NiceJSONProtocol_proofs` | theorems and their proofs |
| `TypelibRegistry` | the typelibs of a process, the search path, and the files the generator writes |
| `MCTypelibRegistry`, `TypelibRegistry_proofs` | its instance and its proofs |
| `NiceJSONCodec`, `NiceJSONCodec_proofs` | the interpreters between binary and JSON, and proofs for all types and values |
| `NiceJSONSkip` | `skip2json`, for fields that no type describes |
| `MCNiceJSONCodec` | small types, values and JSON documents |
| `JsonReader`, `JsonReader_proofs` | lexer and parser of the JSON library over the transport adapter, and proofs for all texts |
| `JsonGrammar` | what a text denotes by RFC 8259 |
| `JsonText`, `MCJsonText` | the serializer, and texts to read |
| `JsonKeys` | the order of the keys of an object |
| `JsonValue` | values, with 64-bit integers and doubles, and `operator==` |
| `JsonBinary` | CBOR and MessagePack, written and read |
| `JsonPointer` | pointers, `flatten`, the operations of a patch, `diff` |
| `JsonConversions`, `MCJsonConversions` | the conversions as steps, other programs' encodings, and values |
| `TypelibInit`, `MCTypelibInit`, `TypelibInit_proofs` | the constructor of a typelib, a family of typelibs, and proofs for all |
| `PyNiceJSONProtocol`, `MCPyNiceJSONProtocol`, `PyNiceJSONProtocol_proofs` | the Python protocol object, its instance and its proofs |
| `OCamlNiceJSONProtocol`, `MCOCamlNiceJSONProtocol`, `OCamlNiceJSONProtocol_proofs` | the OCaml protocol object, its instance and its proofs |
| `Calculator` | the service of the examples |
| `CallAndAnswer` | what a client of a service may rely on |
| `RpcSession`, `MCRpcSession`, `RpcSession_proofs` | client, server and connection: two protocol objects and a Calculator |

`RpcSession` composes two instances of `NiceJSONProtocol` with `Calculator`. The other
modules see each other as one guarantee: the protocol object sees of the parser that
it takes one whole object and no byte more (`StopsAtTheLastBracket`), of the
codec only whether a piece converts, and of the typelib only whether an operation
has its structs (`NamesFindDeclarations`).

### NiceJSONProtocol

One action per call and outcome. `mode`, `message_name`, `message_type`,
`message_seqid` are the fields of the same name; `buffer` is the unread content of
`message_buffer_`. `arrived`, `pos`, `mid`, `closed` are the inbound transport and
`out` the outbound one. `asked`, `current`, `got` and `refused` are history: what
the callers wrote and were given, and no action's guard or other effect reads them
(`WriteMessageBegin` counts `asked` only against its bound).

| Code | Actions |
|---|---|
| `writeMessageBegin` 82-98 | `WriteMessageBegin` |
| body writes 204-301 | `WriteBody` |
| `writeMessageEnd` 177-202 | `WriteMessageEnd`, `...MarshalFails` (184-190), `...TransportFails` (198), `...Aborts` (the assert of `lookup_type_id`) |
| `readMessageBegin` 308-385 | `ReadMessageBegin`, `...ParseError` and `...EndOfFile` (314-320), `...BadHeader` (321-355), `...DemarshalFails` and `...Aborts` (357-377) |
| body reads 400-492 | `ReadBody`, `ReadBodyPastEnd` |
| `readMessageEnd` 387-398 | `ReadMessageEnd` |
| `must_be_*` 69-80 | a guard of each action; `CallOutOfSequence` is the call that throws |

Every way a call can fail is an action of its own because each leaves something
different behind: a wrong header has overwritten a part of the `message_*` fields
and no buffer, a refused body has replaced the buffer too, and a failed
`writeMessageEnd` has set BROKEN. The number that becomes a seqid goes through
`uint32_t` into an `int32_t`, which `ToInt32` does at any width.

Abstractions. A *piece* stands for a value or a run of values the caller writes
or reads. What matters of it is whether it converts (`Unconvertible`), whether
its JSON form can be parsed (`RawString`, because `dump` passes on bytes that are
not UTF-8 and `parse` refuses them), whether the peer's schema will take it
(`NonFinite`, which `dump` writes as `null`) and whether it ends the struct
(`Stop`). A document is its header, its body and its one flaw. The parser's
position inside a document is a Boolean: once in the middle of a document it can
stop anywhere. Three things are excluded: a body that contains, nested in it, what
looks like a whole message, so that a parser in mid-document would accept it; a
caller that writes an exception message other than with
`TApplicationException::write`; and a `TMessageType` that is none of the four.

### AtomicEndpoint

The specification that `NiceJSONProtocol` implements (`ImplementsEndpoint`). Its
`outbox` is the whole documents of `out`, `cut` says whether a partial one
follows, `inbox` is the places in the inbound stream of the messages received,
and `dead` is BROKEN or an aborted process. Body calls, refusals and
calls out of sequence are stutters; of the others each is one `Send`, one
`Receive` or one `Die`.

### TypelibRegistry

`registry` is the map behind `type_library_()`, `prepends` and `appends` the two
lists of directories, `files` what each `directory/key.typelib` holds, as two
halves. `require_typelib` is cut at its system calls, and `step`, `key`, `path`,
`place`, `lbytes` are its local variables. `answer`, `held` and `calm` are history.

| Code | Actions |
|---|---|
| `prepend_...`, `append_typelib_directory` 918-927 | `PrependTypelibDirectory`, `AppendTypelibDirectory` |
| `install_typelib`, `register_typelib` 873-896 | `InstallTypelib`; `Register` under `MayRegister` |
| `lookup_typelib` 898-905 | `LookupTypelib` |
| `require_typelib` 929-956 | `RequireInstalled` (933-935), `RequireSearches` (the path, 937-946), `Probe` (`exists`, 950), `OpenAndRead`, `ReadRest` (`file_contents`), `ConstructAndRegister` (951-953), `NoCandidateLeft` (955) |
| `gen_typelib` in `plugins/cpp/typelib_plugin.cpp` | `GeneratorOpens` (truncates), `GeneratorWrites`, `GeneratorDies` |
| other programs | `Remove` |

One thread calls the registry, as in the tests and examples, where static
initialisers and `main` do, and under the interpreter's lock in Python and OCaml. Two
threads would race on a `std::map`; no property survives that, so it is a hazard
and not a behaviour. A file that is open outlives its name, and therefore
removing it commutes with reading and writing it: `Remove` waits. A file that
vanishes between `exists` and the open reads as empty, because `file_contents` does
not check the stream. Text is atomic but for its halves: a half that is missing
makes the constructor throw, and the first half of one text with the second of
another may do either. So a search during which a file changes may install a
mixture; only searches during which nothing changes (`calm`) are claimed to be one look.

### NiceJSONCodec

Three actions, `MarshalFromBinary`, `DemarshalToBinary` and `Throws`, take a value from
its binary form to JSON and back, or a JSON document somebody wrote to binary.
The work is in the operators `Protocol2json` and `Json2protocol` and in what
they refuse, `Marshallable` and `Accepted`. Binary values are
trees that carry the types on the wire, as generated code (external)
writes them with the *writer's* schema; the interpreter is given the *reader's*.

The interpreters are recursive, and each of their invocations is a record here, a `Call`: a function, a
type, a value. What the body of the function does is a definition without recursion, which is told
what the recursive calls return (`result`, read by `ForPart`); `Made` says which calls it makes, and `Result` ties
the knot, as a function on the `Calls` that come of one. So the module declares no RECURSIVE operator,
and theorems can be proved of it. `skip2json` knows no type and is in `NiceJSONSkip`; `NiceJSONCodec` has it
as a parameter, `Skipped`, because no property depends on what it makes of a field.

| Code (`NiceJSON.cpp`) | Definitions |
|---|---|
| `t_base2ttype`, `t_type2ttype` 323-377 | `TType`, `HasTType` |
| `get_exactly` 379-391 | `Fits`, by what it accepts |
| `json2protocol` 393-577 | what it throws on: `Takes`; the calls it makes: `JsonParts`; what it writes: `BinaryFrom`, `FieldsFrom`, `EntriesFrom` |
| `protocol2json` 579-762 | what it throws on: `Unmarshallable`; the calls it makes: `BinaryParts`; what it makes: `JsonOf`, `StructJson`, `ObjectOf`, `ArrayOf` |
| `push_back({key, value})` 749 | `Pair`: the initializer list, with what the JSON library takes it for |
| `std::to_string` 668, `std::stoll` 465 | `Decimal` and `Stoll`; in `MCNiceJSONCodec` an `x` stands for any text after the digits |
| `skip2json` 765-871 | `Skip2json` |

`Types` and `Depth` are the types of a typelib and how deep each is nested; `BinaryOf` is what generated code
writes, `Inputs` what people do. The cast of `get_exactly` is undefined for a double that is out of range,
but whatever number of the type it gives is not that double, and is refused. Left out: void;
typedefs, taken as resolved; types that contain themselves, for whose values
there is no such depth; containers whose element types differ between wire and schema; JSON
map entries of less than two elements, which the code reads past their end.

### JsonReader, JsonGrammar, JsonText

One action of `JsonReader` is one `get()` of the lexer, with what lexer and parser do
before they ask for the next byte, for a reader that waits for bytes it should
not wait for is what must be seen. The recursion of `parse_internal` is `stack` and `want`;
`scanning`, `due` and `yytext` are the place inside `scan` and its helpers; `text` is
the buffer of `transport_input_adapter`. Where a text ends that is a container can be told
from its bytes alone: `Frame` counts the brackets that are open, but for those in strings, and
`StopsAtTheLastBracket` holds the reader against it. `JsonGrammar` is the
reference: what a text means by RFC 8259, `Denotes`, and its parts, a recursive function that knows of no lexer
and declares no RECURSIVE operator. `JsonText` adds `dump` (`DumpOf`). The model is of bytes, with
the widths of the number types as constants. Left out: the callback,
the mode without exceptions, `ensure_ascii`, and the digits of a double, which stay a
sequence of bytes (`dump` writes 15 of them, so a double need not come back
to the last bit).

### JsonValue, JsonBinary, JsonPointer, JsonConversions

`JsonConversions` takes a value through one conversion and back: `Encode` or
`EncodeElsewhere`, `Arrive` and `Decode` for the two binary formats, `MakeFlat` and
`MakeNested`, and `BeginPatch`, one action for each kind of operation and `EndPatch` for
`patch`, which stops at the first operation that throws. The work is in the operators
of `JsonBinary` and `JsonPointer`, named for the functions and cases they translate.

A 64-bit integer is its sign and the bytes of its size, for TLC has 32 bits; -1 - n
has the bytes of n turned around, which is what both formats make of it. A double is its
eight bytes. The formats put a size in the narrowest of some widths: the cases of the
writer are `CborHead`, `MsgpackHead`, `Sized` and `Narrowest`. `Encodings` is the
reference for the reader: what RFC 7049 and MessagePack let other programs write.

| Code (`json.hpp`) | Definitions |
|---|---|
| `binary_writer` 5578-6083 | `WriteCbor`, `WriteMsgpack` and what they use |
| `binary_reader` 4529-5542 | `FromBinary`, `ParseCborInternal`, `ParseMsgpackInternal`, `Elements`, `Members`, ... |
| `json_pointer` 7083-7182, 14229-14605 | `Split`, `Escape`, `Unescape`; `Created`, `Unchecked`, `Checked` under `Resolve`; `Flatten`, `Unflatten` |
| `patch` 13789-14046 | `Operation...` under the actions `Add`, `Remove_`, `Replace`, `Move`, `Copy`, `Test`, `Invalid` |
| `diff` 14081-14204 | `Diff`, `DiffArrays`, `DiffObjects`, `Remaining`, `NewMembers` |
| `operator==` 12376-12439 | `Equal`, `SameNumber` |

What the code does and its documents do not say, none of it reached by the rest of the program:

* `unflatten` makes an array of an object that has a member `0` and no member before it, so the
  `j == j.flatten().unflatten()` of its comment (13712-13715) is claimed only of `Restorable` values;
* the invariant of `diff` (14055-14059) does not hold with a NaN, which equals nothing; the
  values compared have none;
* a CBOR string of indefinite length is read as the raw bytes up to 0xff, where RFC 7049 has chunks
  with heads; `Encodings` leaves these out;
* `copy` overwrites in an array where RFC 6902 inserts, and if one of its two places is inside the
  other the result depends on the order in which the two sides of line 14011 are evaluated, which
  C++11 leaves open: `Copy` takes both;
* `add` makes parents that are missing below the first level; an `add` to a member of a primitive
  fails an assertion, a `remove` there does nothing.

Left out: a patch that is not an array of objects or has an `op`, `path` or `from` that is not a
string; an index -1 into an empty array; numbers that `std::stoi` cannot hold; comparing a double
with an integer above 2^24.

### TypelibInit

One action is one turn of a loop of `initialize`.

| Code | Actions |
|---|---|
| 122-191, structs of arguments and results | `AddFunction`, `FunctionsDone` |
| 193-236, types of the IDL | `AddType`, `TypesDone` |
| 237-242 and `add_service_lookasides` 257-283 | `BeginService`, `AddServiceLookasides`, `Finish` |
| `program_cpp_prefix` 92-108 | `HasPrefix`, `Qualified` |
| `add_struct_lookaside` 73-90 | `AddStructLookaside` |
| lookups, `NiceJSON.h` 219-285 | `ServiceStructNames`, `LookupTypeId`, `RealTypeId`, `LookupStructFields`, `LookupEnum` |

`phase` is the loop and `todo` what it has still to visit: `FirstFunction` and `FirstId` pick what
comes next in the order of the map and the vectors. The copying of operations, which the code does
by recursion, is a loop over `svc`, from the service `dst` on along what each extends. Two other recursions of
the code are closures here: `RealTypeId`, what typedefs lead to and do not lead away from, and, in the
properties, `Lineage`, the least set with a service that has, with each, the one it extends.
Names are strings, because what can go wrong is that two of them, put together with
`_` and `::`, are one. `NamesFindDeclarations` is claimed of unambiguous IDLs;
`Unambiguous` says which: the tables of services and of operations' structs are
overwritten without a word by a second service of the name, by an inherited
operation of the name, and by an operation `c` of `A_b` where there is `b_c` of `A`.

### Calculator, RpcSession, CallAndAnswer

`Calculator` is the handler of `CppServer.cpp`. The variables of `RpcSession` that
begin with `c` and `s` are those of the two protocol objects; every step of an end is an
action of `Client!` or `Server!`, and a document that is in `cout` arrives, in order,
as a step of the server's peer, and the reverse. `cpc` and `spc` are the places of the
generated code and of the server's loop.

| Code | Actions |
|---|---|
| `send_*` (generated) | `Invoke`, `ClientWrites`, `ClientSends` |
| `recv_*` (generated) | `ClientReceives`, `ClientReads`, `ClientReturns` |
| `main` of `CppClient.cpp` | `ClientFails` (its handler, 94-96), `Quit` |
| `process`, `process_*` (generated) | `ServerReceives`, `ServerReads`, `ServerReadsEnd`, `Run`, `RunFails`, `ServerWrites`, `ServerSends` |
| `TConnectedClient` (Thrift) | `ServerFails` |
| connection | `RequestArrives`, `ReplyArrives`, `RequestIsCutOff`, `ReplyIsCutOff`, `ServerSeesClose`, `ClientSeesClose`, `LinkBreaks` |

Generated code, Thrift's server loop and the network are not in the repository; they
are modelled from how the examples use them. A transport error ends the server's
connection; of another exception Thrift's loop may go on, which `lenient` chooses.
The server's typelib lacks an operation its client has; arguments may hold a string
that is not UTF-8 or a value that does not convert; the handler may fail; the network
may fail at any moment and cut a document in two. `CallAndAnswer` knows none of this:
calls run one by one, in order, at most once, and return their own answer or an error.

### PyNiceJSONProtocol, OCamlNiceJSONProtocol

One action per call, as for the C++ object, with a whole struct as the unit: the body
calls only delegate to a binary protocol. `input` is the documents of a connection; a
document has at most one flaw, named for the place at which reading stops, and its body
may be one that does not convert. Calls in the wrong mode raise first and are
left out. In Python the `message_*_` fields are stored one at a time, and `readjson`
takes a syntax error for a document that is not complete: `ReadsToTheEnd`. In OCaml the
mode carries the message, so that a refusal leaves nothing; `writeMessageBegin` has no
guard; a syntax error leaves the stream inside the document (`midway`), where some
later read gets out of it by chance (`ReadMessageBeginTorn`, any number of
documents further on); and C++ exceptions that the stubs do not catch end the process
(`alive`). The stubs catch what the codec throws of its own, and no more: not the `parse_error` of a string that is not UTF-8 (`Raw`),
not the exceptions of `stoll`, `get<double>()` and `operator[]` where `json2protocol` calls them without a
check (`NiceJSON.cpp` 465, 470, 561-562: a `Misfit`; the null that a peer writes for a NaN is one), and not the
`TTransportException` of a message that ends without a struct. `service_struct_name_*` catch nothing. Of the JSON bodies that
`json2protocol` refuses, `Odd` is one that it refuses by a check. Not modelled: the seqid that does not fit an `int`, and a top-level JSON number sent
to OCaml, whose lexer takes the byte behind it.

## Runs

| Run | Instance | Shows |
|---|---|---|
| `turns` | one object reads and writes: 2 messages begun, up to 3 pieces each, 2 documents from a peer with six kinds of them | `TypeOK`, `AcknowledgedIsSent`, `ReceivedAsSent`, `BoundaryKept`, `TransportOnlyAtBoundaries` |
| `failing_peer` | 3 documents out of a valid one, one of another schema, a syntax error, a truncation, a bare number; 2 messages of up to one piece written, of every type and with every kind of piece | `ReceivedAsSent`, `TruncatedIsLast`, `BrokenIsFinal`, `ImplementsEndpoint` |
| `search` | one typelib, two directories in every order on the path, one of them from the environment; two good texts and a bad one | `TypeOK`, `HeldIsBound`, `RequireIsOneLook`, `ReadyIsInstalled`, `RequireReturns` |
| `there_and_back` | ten pairs of types; values at the ends of every width, containers of up to two elements; 117 hand-written documents | `ReaderGetsShared`, `RefusedIsUnsupported`, `NumbersFit` |
| `any_type` | maps of and to lists | that `AnyDataTypeWorks` does not hold, see Findings |
| `parsing` | every text of up to 6 bytes over three alphabets, every dump of some 60 values, and texts with every kind of escape | `TypeOK`, `StopsAtTheLastBracket`, `DocumentsAreRead`, `NeverWaitsBehindADocument`, `RefusesOnlyTheHopeless`, `WrittenIsReadBack` |
| `conversions` | 172 values encoded and flattened, 33 compared with each other, 48 patches of others, documents cut off behind up to 12 bytes | `EncodedIsReadBack`, `FlattenedIsRestored`, `PatchesLeadToTarget` |
| `initialize` | some 11,000 typelibs: one or two services, of three programs, inheriting or not; a struct whose name may be taken | `NamesFindDeclarations`, `RefusedForAReason` |
| `session` | sessions of up to 3 calls out of 8 | `TypeOK`, `InStep`, `HealthyCallsSucceed`, `ImplementsCallAndAnswer`, `EndsAreProtocolObjects`, `EveryCallReturns`, `SoundCallsRun` |
| `python` | 3 documents out of 11, 2 messages written | `ReadsWholeMessages`, `SentAsAskedButForSeqid` |
| `python_oneway` | the same | that `SoundMessagesAreRead` does not hold, see Findings |
| `ocaml` | 3 documents out of 11, 2 messages begun | `SentAsAsked`, `ReadsInOrder`, `EndsOverTheUncaught` |

Deadlock is checked only in `search`. Elsewhere the system may stop: a process aborts, callers
and peers stop, a conversion, a text or a construction ends.

* `AcknowledgedIsSent`: message *i* whose `writeMessageEnd` returned is document
  *i* on the transport, with the header and body written between its own begin and end.
* `TruncatedIsLast`, `BrokenIsFinal`: a partial document is the last thing written,
  and a broken object neither reads nor writes again.
* `ReceivedAsSent`: what the caller reads is a prefix of one document, in order and once.
* `BoundaryKept`: when the peer sends only whole objects, every one is either
  handed over or refused, and no refusal moves the boundary.
* `TransportOnlyAtBoundaries`: no call in the middle of a message of one
  direction touches the transport for the other.
* `HeldIsBound`: what a caller was given for a key stays what the key is bound to.
* `RequireIsOneLook`: a calm search answers as if it had seen all files at once;
  the key is bound when it returns and unbound when it throws.
* `ReadyIsInstalled`: a typelib that is from some time on the first on the path, whole and
  good, is installed in the end, whatever failed before.
* `RequireReturns`: every search ends, whatever happens to the files.
* `ReaderGetsShared`: through JSON and back, what writer's and reader's schema
  share comes back unchanged at every depth, and nothing else, permissively or not;
  with one schema the value comes back whole.
* `RefusedIsUnsupported`: of what generated code can write, only a type `binary`, an enum
  value without a label and the entries of the finding below are refused.
* `NumbersFit`: no JSON makes a binary form with a number wider than its type.
* `DocumentsAreRead`: what is accepted is a JSON text and the value the one it denotes.
* `NeverWaitsBehindADocument`: the parser returns with the byte that ends an object
  or array. Only behind a number does it wait for more, so a message, which is an
  object, never has to wait for the next one.
* `RefusesOnlyTheHopeless`: an error is raised at the first byte that no ending can
  mend, and never before.
* `WrittenIsReadBack`: what `dump` writes is read back to the last byte, but for a
  string that is not UTF-8, which is written as it is and refused by the reader.
* `EncodedIsReadBack`: a whole CBOR or MessagePack document is read as the value it encodes,
  whoever wrote it and however, and one that is cut off or goes on is refused.
* `FlattenedIsRestored`: `unflatten` undoes `flatten`, whatever is in the keys, but for an empty
  container and a member called `0`.
* `PatchesLeadToTarget`: the patch that `diff` makes applies without an error and gives the target,
  and other patches give what RFC 6902 says of them.
* `NamesFindDeclarations`: every operation, own or inherited, leads to structs with its
  arguments and result, under ids no type has; every struct is found by its C++ name.
* `RefusedForAReason`: a typelib is refused if and only if it is malformed, needs the
  namespace of a program that has none or is not included directly, or has a name twice.
* `InStep`: between calls no answer is on its way, which is all that keeps an answer
  from being taken for that of a later call: nobody compares seqids.
* `HealthyCallsSucceed`: without a failure of network, service or typelib no call fails.
* `ImplementsCallAndAnswer`: to its client the session is `CallAndAnswer`.
* `EndsAreProtocolObjects`: both ends are behaviours of `NiceJSONProtocol!Spec`, so that
  what is proved of it holds in the session.
* `EveryCallReturns`: every call returns, if the server ends the connection on an error.
* `SoundCallsRun`: a sound call that was sent is run, oneway or not.
* `ReadsWholeMessages` (Python): a message read is that of one sound document, in order.
* `SentAsAskedButForSeqid` (Python): so is a message sent, but its seqid is 0 or that of a
  document refused before, never the one the caller gave (a misspelt attribute, line 99).
* `SentAsAsked` (OCaml): a message sent is the one begun last, whatever was dropped before.
* `ReadsInOrder` (OCaml): until a text is refused, the messages read are those of the sound documents,
  in order, none passed over and none twice; what is read is always one whole document.
* `EndsOverTheUncaught` (OCaml): the process ends only over a call or a document that makes C++ throw what no
  stub catches, which the property lists, and over the first such document of sound texts.

Why the bounds are enough. Interference between messages needs two of them, in
either order and in either direction: `turns` has two read and two written, `failing_peer`
two written in every way a write can fail. A body of three pieces has a value, a
`Stop` and something behind it. `int32_t` has three bits, so the seqid 9 is out
of range and converts to 1. A desynchronised stream shows after two documents, and
three leave one to resynchronise on. `MaxArrived`, `MaxBegun` and `MaxBody` are
the only bounds, to which a session adds `MaxCalls` and `MaxPieces`; two arguments and a `Stop` are three pieces. `TypelibRegistry` has none: its state is finite. Keys do not
interact, so one is enough; two directories give both orders and, with the path
built from three lists, a directory that occurs twice. In `there_and_back` the
integers have two, three and four bits, and the hand-written numbers go beyond
the limits on both sides; the two versions of a struct differ in each way two
versions can: a field retyped (to one of the same form in JSON, or of another), renamed, added,
dropped, and nested in a list.

A text of six bytes holds every pair of tokens inside a container, a nested one, and a
number with every part; longer ones are those that `dump` makes, and escapes. Two services are enough for one to inherit, to overwrite or to
take the name of another; three programs for one that is included through another. Three
calls leave a call before and one after the one that goes wrong. Three documents leave one to read
after a refusal that followed another message.

In `conversions` the integers stand on both sides of every power of two at which a format changes
its form, with either sign; strings, arrays and objects have the lengths at which their heads
change, up to 65536 bytes; keys hold every mixture of what a pointer escapes, digits and nothing; an array
of twelve has indices of two digits. A document is cut off behind each of its first twelve bytes, which is inside of every head.

Fairness. `NiceJSONProtocol` assumes none and claims no liveness: one object alone
owes nothing until its peer and its caller act. `RpcSession` has weak fairness of the client inside
of a call, of the server, and of every delivery, for each is a thread or a connection that goes
on; none of the choice to make another call, and none of failures. `EveryCallReturns` is not
claimed of a `lenient` server: its object stays BROKEN after an answer that could not be
converted, the connection stays open, and the client waits for ever. `TypelibRegistry` assumes that a `require_typelib` goes on to its end, weak
fairness of `InRequire`, for it is a straight loop; and that the program requires a
typelib again and again when it can, strong fairness of `RequireSearches(k)`, because
every conversion from Python or OCaml begins with that call. It is strong because
between two chances the process makes other calls. Nothing is assumed of the
generator or of those who remove files.

## Findings

`any_type`: `docs/faq.asciidoc` 57-58 says that the method "can work with any Thrift
data-types". `rv.push_back({key, value})` in `NiceJSON.cpp` 749 makes an array of two
unless the key and the value are both arrays of two that start with a string: the
JSON library takes that for the object `{key[0]: key[1], value[0]: value[1]}`. For
a `map<list<string>, list<string>>` with the entry `["a","a"] -> ["a","a"]` the
value is lost, and `json2protocol` throws on the object.

`python_oneway`: `docs/building-other-languages.asciidoc` 6-7 says that thrift-nicejson
"supports Python", and the tutorial's Python server and client have the oneway call
`zip` (`examples/py/PythonServer.py` 83, `PythonClient.py` 62). `readMessageBegin` of
`TNiceJSONProtocol.py` writes `TMessageTyye` in lines 219 and 220, so a document of type `oneway` or
`exception` raises a `NameError`: the server cannot read the call, and a client never
sees the exception a server answers with.

## Proofs

`NiceJSONProtocol_proofs` proves, for all constants that satisfy
`ConstantsAssumption` and `PiecesAssumption` (any set of operations, any documents, any
width, any bounds), the safety properties above:

| Theorem | Property |
|---|---|
| `TypeCorrect` | `TypeOK` |
| `EveryAcknowledgedMessageIsSent` | `AcknowledgedIsSent` |
| `NothingFollowsATruncatedMessage` | `TruncatedIsLast` |
| `BrokenObjectsStayBroken` | `BrokenIsFinal` |
| `CallsInsideAMessageStayInside` | `TransportOnlyAtBoundaries` |
| `EveryMessageReceivedWasSent` | `ReceivedAsSent` |
| `RefusalsKeepTheBoundary` | `BoundaryKept` |
| `ProtocolImplementsEndpoint` | `ImplementsEndpoint` |

The argument. `TypeOK` is inductive alone. `AcknowledgedIsSent` is not: in a state that
is writing, the buffer could hold anything. `HeldIsWritten` says that it holds
what the caller wrote since the begin, and the header what it gave; with it,
`TypeOK` and `TruncatedIsLast` the conjunction is inductive. In the same way
`ReceivedAsSent` needs `HeldIsUnread`: the buffer is what the caller has not yet read
of the document that was received last. Both strengthenings rest on the fresh
buffer that both Begin calls swap in. The refinement maps the step of each action
under these invariants, and rests on lemmas about the operators (`DumpedType`,
`SuffixType`, `ToInt32Range`, ...).
Everything about `NiceJSONProtocol` that a run checks is also proved.

`TypelibRegistry_proofs` proves, for all constants that satisfy `PathAssumption` and
`TextAssumption` (any keys, directories, path and texts):

| Theorem | Property |
|---|---|
| `TypeCorrect` | `TypeOK` |
| `BindingsArePermanent` | `HeldIsBound` |
| `SearchesAreOneLook` | `RequireIsOneLook` |

`TypeOK` needs `ReadingIsThere`: the file that is being read is there, so that `ReadRest`
finds a half. `HeldIsBound` is inductive with it, because `Register` binds only what is
unbound. `RequireIsOneLook` needs `SearchInv`: in a calm search the candidates before
`place` have no file, what has been read is what the file holds, the path is the
one built from the lists, and the key being searched is unbound.

`OCamlNiceJSONProtocol_proofs` and `PyNiceJSONProtocol_proofs` prove, for any operations, structs,
documents and bounds:

| Theorem | Property |
|---|---|
| `MessagesAreSentAsAsked` (OCaml) | `SentAsAsked` |
| `MessagesAreReadInOrder` (OCaml) | `ReadsInOrder` |
| `ProcessEndsOverTheUncaught` (OCaml) | `EndsOverTheUncaught` |
| `WholeMessagesAreRead` (Python) | `ReadsWholeMessages` |
| `MessagesAreSentAsAskedButForSeqid` (Python) | `SentAsAskedButForSeqid` |

None is inductive alone, for none says what the object holds in the middle of a message. For each
direction there is an invariant that does. `WritesTheCall`: while a message is written, the object holds
the header and the body of the call begun last, in OCaml whole and inside of the mode, in Python in
fields of which the seqid is somebody else's. `ReadsTheDocument`: while one is read, it holds the
document before the stream, with its body until that is read. The difference between the two ports
shows in the proofs. The OCaml reader needs nothing of what it was refused, as a refusal makes no record. In
Python a refused document leaves its header in the fields, and `SeqidIsLeft` has to say that this is all
that a later message can be written with; `LeftBehindGrows`, that more documents do not undo this. `EndsOverTheUncaught` needs no
invariant beyond these two: a dead process takes no step, so what it ended over stays where it is, and the mode holds the
header and body of the call that a write ends over.

`RpcSession_proofs` proves the safety of a session, for any calls, answers and older typelib of the server,
any number of calls, and whatever network, service and server loop do:

| Theorem | Property |
|---|---|
| `BothEndsAreProtocolObjects` | `EndsAreProtocolObjects` |
| `DriversFollowTheirObjects` | `TypeOK` |
| `AnswersFindTheirCalls` | `InStep` |
| `SessionImplementsCallAndAnswer` | `ImplementsCallAndAnswer` |
| `SoundCallsSucceed` | `HealthyCallsSucceed` |

It composes. The proofs of `NiceJSONProtocol` are instantiated at both ends, as `CP` and `SP`. A step of
the session is a step or a stutter of the object at each end (`EndsStep`, `ObjectsStep`), so its
`TypeOK` and `RecvInv` are inductive here too, without another look at the codec or the buffer: a body
that is read is the beginning of one document. To apply them one must know that documents which
arrive are ones the object's model expects: `StreamsOK`. The rest is the session's own invariant, in three layers:

* `Ends`: each driver is where its object is (`ClientTurn`, `ServerTurn`); what is written of a
  message and what is still to be written make it whole (`ClientWriting`, `ServerWriting`); what is
  on the way is what was sent, but perhaps for its end (`Sent`, `Requested`, `Replied`); requests are
  run in order and once (`Runs`). With it, `TypeOK` and the first theorem.
* `InOrder` adds `Owed` and `ClientReading`: as long as the client goes on, at most one answer is unread,
  and that one, or the one request that the server has not finished, belongs to the call that waits. Without
  them an answer could be that of an earlier call, for nobody compares seqids. From it, `InStep`
  and the step of the refinement: a call returns what its own run answered.
* `Health` adds that in a healthy session nothing is cut off, closed or refused, so no
  step that returns an error is possible.

The assumptions say what the calls of a program are. `CallsAssumption`: an argument is a value, or one that does
not convert, or a string that is not UTF-8. `NamesAssumption`: these are different things, and an error
is no answer. `ValuesAssumption`: what the service answers to a sound call, and what it logs, is a
value, which is what its type says. The object's `ConstantsAssumption` and `PiecesAssumption`
are not assumed again but proved of both ends (`ClientConstants`, `ServerConstants`).

`TypelibInit_proofs` proves, for every typelib that satisfies `TypelibsAssumption` (ids of types are
integers and one of them is the last; functions are vectors; `NoService` is no service), of any
size, with any inheritance and any names:

| Theorem | Property |
|---|---|
| `RefusalsHaveAReason` | `RefusedForAReason` |
| `NamesFindWhatIsDeclared` | `NamesFindDeclarations` |

The first rests on `Visited`: each loop has accepted all that it has visited, and the names in
`structs_by_name` are those of what has been visited and no others. So a name that is taken is
taken by something in the IDL, and a typelib whose loops all end has nothing wrong with it. The
second needs two invariants more, of unambiguous IDLs. `StructsFound`: every struct, exception and enum
visited is found from then on. A later entry does not overwrite it, because its name is another and
because its id is fresh (`FreshIds`: the next id is above all ids so far). `ServicesGiven`: a service has in its
table the operations of a `family` of services of its lineage that is closed but for one exit, the
service to be copied next; when there is none, the family is the lineage. Copying overwrites an
operation only with itself, since in an unambiguous IDL a name in a lineage is of one declaration.
No induction over a chain of services or of typedefs is needed, for both are closures: this is why
`Lineage` and `RealTypeId` are written as they are.

`JsonReader_proofs` proves, for any bytes that a peer sends, texts of any length, and number types of any
width (`ReaderAssumption`):

| Theorem | Property |
|---|---|
| `TypesAreKept` | `TypeOK` |
| `DocumentsEndAtTheirBracket` | `StopsAtTheLastBracket` |
| `NoWaitBehindADocument` | `NeverWaitsBehindADocument` |

The second is what the other models take from the parser: that a message, which is an object, is read to its
closing brace, so that the next one is found whole. It needs the reader and the bytes to agree at every
byte, not only at the end: `FrameOK` says that the frame of what was consumed is `Seen`, the number of
containers on the stack and whether the lexer is inside of a string or behind a backslash. That this is
kept rests on what the lexer waits for in each of its places (`LexerOK`). The bytes due in a literal, of a character or of an
escape are none that open, close or quote. The second escape of a pair starts with a backslash and has
exactly five bytes behind it. The first one was a high surrogate whose digits are still
the last but six in `text`, without which the character made of the pair would not be one of bytes.
`ParserOK` says that a container is open where the parser waits for one to go on; `TokenMoves`, what each token
does to the stack. `InputOK` says that a character is put back only between tokens and is the last one
taken, so that a number ends without being consumed. `Frame` is a recursive function on texts: that there is one
(`FrameIsDefined`) is proved from the runs of frames along a text (`ARunExists`, `RunsAgree`), by a
least counterexample.

The third is that a peer who waits for its answer before it sends more does not hang the reader. It
is of the grammar, and `Frame` is the link: the grammar is brought to it, and the reader agrees with it already.

* The grammar's function exists and unfolds (`MeaningsExist`, `MeaningsAgree`, `DenotedUnfolds`): every part of
  a text that is looked at is shorter, or is a value instead of a list of them, and `Rank` falls.
* What denotes anything is balanced (`DenotedIsBalanced`). The characters of a string, a number and a literal
  are `Quiet`: they leave the frame as it was. Elements, members and values are `Even`: they
  leave it as deep as it was. By the rank again; the cases are those of the grammar, and the longest are an
  escape (`CharacterIsQuiet`) and UTF-8, no byte of which is a quote or a backslash (`CharacterBytes`).
* So a text taken that is a container leaves nothing open (`ShutTextIsOver`), and the reader is not running, as
  its stack is as deep as the frame. One that is a string, a literal or a number leaves the reader outside
  of everything, and here the frame does not say whether more is awaited: `StartOK` does. Before a container is
  opened the reader has taken blanks, or blanks and the beginning of a number or of a
  literal, whose missing bytes are those that are due.

`NiceJSONCodec_proofs` proves, for any types nested to any depth, any versions of them and any values:

| Theorem | Property |
|---|---|
| `NumbersAlwaysFit` | `NumbersFit` |
| `SharedComesBack` | `ReaderGetsShared` |
| `OnlyUnsupportedIsRefused` | `RefusedIsUnsupported` |

The state machine makes two steps, and its invariant says only that what has been made was made of what was
there (`ConvertsATask`, `HasMarshalled`, `HasDemarshalled`). `RefusedIsUnsupported` is inductive with it, and the
other two follow from it, by what is proved of the interpreters. In this order:

* Calls are finite: every call made is of a type that is nested less deep (`RankFalls`), so the calls that
  come of one are itself and those that come of the calls it makes (`CallsUnfold`).
* The function that `Result` takes by a recursive definition exists, and there is only one (`ResultsExist`,
  `ReturnsAgree`, by a least counterexample and a union of the functions of the parts). So `Result` unfolds
  (`ResultUnfolds`), and there is an equation for every kind of type (`MarshalsList`, `DemarshalsStruct`, ...).
* By induction on how deep a type is nested, which is a lemma of this module too (`TypeInduction`):
  what is made of JSON that is taken is a binary form of the type (`AcceptedIsClean`); what is made of the
  JSON of a value, if it is taken, is what both ends share of the value (`ComesBack`); the JSON of a value with
  nothing unsupported in it is taken (`SupportedIsTaken`).

`ComesBack` has a difficulty of its own in every kind of type. The members of a struct that name its fields
are those it knows, and none that it keeps by its id (`StructMembers`). The entries of a map, which are
put into some order or become members, are all found again, because a key is there once and the JSON of
a text is that text (`ObjectMembers`, `InOrderOf`). An entry that `Pair` has made an object of is not
taken (`EntryBack`).

The assumptions. `WidthAssumption`: a wider type has the integers of a narrower one. `LabelAssumption`: the
numbers of an enum have 32 bits; two labels may have one number. `NumeralAssumption`: `stoll` reads what
`to_string` writes, and gives an integer of 64 bits. `TypeAssumption`: types are
trees; a struct has no id or name twice and no name that is a number, which Thrift's compiler sees
to. `TaskAssumption`: the values generated code writes are of their types, and have on the wire, in the
containers that the reader knows, the elements that it expects.

Left to TLC: `ReadyIsInstalled`, `RequireReturns`, `EveryCallReturns` and `SoundCallsRun`, which are
liveness under fairness; of `JsonText`, `DocumentsAreRead`,
`RefusesOnlyTheHopeless` and `WrittenIsReadBack`; and `EncodedIsReadBack`, `FlattenedIsRestored` and
`PatchesLeadToTarget` of `JsonConversions`. The operators of these two modules are recursive in texts and
values, and the provers take no theorem in a module that declares such an operator. So it is proved that the reader
waits for nothing behind a text of the grammar, but that it takes exactly these texts, and what it makes of
them, is checked and not proved.

## Plan

Modelled and checked: all the modules above. Proved: every safety property of the protocol objects,
the registry, the constructor of a typelib, the codec and the session, and of the JSON reader the framing
of messages and that it never waits behind one. What is left to prove, with the recursion rewritten as that of the codec is:

1. `JsonText`: `WrittenIsReadBack`, for integers and strings first, then `DocumentsAreRead`, with what
   is proved of `Denoted`.
2. `JsonConversions`: `EncodedIsReadBack`. The heads of either format need arithmetic on the bytes of a number.

## Not modelled

* Of the JSON library: iterators and the members of containers, conversions to and from C++
  types, the order on values, allocation, and the printing of doubles. With the comments they are
  most of the 14,700 lines of `json.hpp`, and most of the lines of the repository.
* In the codec, types that contain themselves, and containers whose element types differ between wire and schema.
* The order of constants (`NiceJSON.cpp` 17-63): no operation looks a constant up.
* Two threads in the registry: a data race.
* The HTTP transports of the examples: their framing is Thrift's.
* The text the generators write, the command-line tools, the build system, the tests:
  no state that outlives a call, or none at run time.
