--------------------------- MODULE TypelibRegistry ---------------------------
(***************************************************************************)
(* The typelibs a process has installed (src/lib/cpp/NiceJSON.cpp 873-956, *)
(* NiceJSON.h 128-151) and the directories require_typelib loads them from *)
(* while the generator plugin (src/plugins/cpp/typelib_plugin.cpp 48-112)  *)
(* writes there and other programs remove what it wrote.                   *)
(*                                                                         *)
(* The process calls the registry from one thread: static initializers and *)
(* main in C++, under the interpreter's lock in Python and OCaml.  What is *)
(* concurrent is the file system, so require_typelib takes a step for each *)
(* system call: one for each file it looks for and two, for the first half *)
(* of the file and the second, to read it.  The other calls are atomic.    *)
(***************************************************************************)
EXTENDS Integers, Sequences

CONSTANTS
    Keys,         \* the names of typelibs, "package.name"
    Directories,  \* where .typelib files are looked for
    EnvPath,      \* the directories of THRIFT_TYPELIB_PATH, in order
    Sound,        \* texts of typelibs that deserialize and initialize
    Flawed,       \* texts the constructor throws on
    Missing,      \* what a half not written yet, or a missing file, reads as
    Absent,       \* no such file
    Unbound,      \* no such typelib in the registry
    NotFound,     \* "error: no typelib ... found on path"
    Refused       \* the constructor threw

ASSUME PathAssumption == EnvPath \in Seq(Directories)
ASSUME TextAssumption ==
    /\ Sound \intersect Flawed = {}
    /\ Missing \notin Sound \union Flawed
    /\ {Absent, Unbound, NotFound, Refused}
         \intersect ((Sound \union Flawed \union {Missing})
                     \X (Sound \union Flawed \union {Missing})) = {}
    /\ NotFound # Refused

Texts == Sound \union Flawed

(* The two halves of what a file holds, or of what has been read of it.    *)
Halves == (Texts \union {Missing}) \X (Texts \union {Missing})
Libraries == Texts \X Texts

VARIABLES
    registry,  \* *type_library_(): the typelib each key is bound to
    prepends,  \* typelib_path_prepends
    appends,   \* typelib_path_appends
    files,     \* the file "directory/key.typelib" for each pair
    writer,    \* the pair and the text a running generator writes, if any
    step,      \* where require_typelib is
    key,       \* its argument
    path,      \* its path
    place,     \* the candidate it has come to
    lbytes,    \* what it has read
    answer,    \* history: what require_typelib, once over, returned or threw
    held,      \* history: the typelibs callers were given and may refer to
    calm       \* history: no file has changed since a search began, if one runs

search == <<step, key, path, place, lbytes>>
vars == <<registry, prepends, appends, files, writer, search, answer, held, calm>>

NoWriter == <<>>

(* Every search holds a key, a path and a place in it that fit its step,    *)
(* and the registry and the file system hold typelibs of their kinds.      *)
TypeOK ==
    /\ registry \in [Keys -> Libraries \union {Unbound}]
    /\ prepends \in Seq(Directories) /\ appends \in Seq(Directories)
    /\ files \in [Directories \X Keys -> Halves \union {Absent}]
    /\ writer \in {NoWriter} \union ((Directories \X Keys) \X Texts)
    /\ step \in {"idle", "probing", "opening", "reading", "constructing"}
    /\ key \in Keys
    /\ path \in Seq(Directories)
    /\ place \in 1 .. (Len(path) + 1)
    /\ step \in {"opening", "reading", "constructing"} => place <= Len(path)
    /\ lbytes \in Halves
    /\ answer \in Libraries \union {NotFound, Refused}
    /\ held \subseteq Keys \X Libraries
    /\ calm \in BOOLEAN

Init ==
    /\ registry = [k \in Keys |-> Unbound]
    /\ prepends = <<>> /\ appends = <<>>
    /\ files \in [Directories \X Keys -> {Absent} \union {<<t, t>> : t \in Texts}]
    /\ writer = NoWriter
    /\ step = "idle" /\ key \in Keys /\ path = <<>> /\ place = 1
    /\ lbytes = <<Missing, Missing>>
    /\ answer = NotFound /\ held = {} /\ calm = TRUE
-----------------------------------------------------------------------------
(* What the process does in one step.                                      *)

Contains(s, d) == \E i \in DOMAIN s : s[i] = d
AddOnce(s, d) == IF Contains(s, d) THEN s ELSE Append(s, d)

PrependTypelibDirectory(d) ==
    /\ step = "idle"
    /\ prepends' = AddOnce(prepends, d)
    /\ UNCHANGED <<registry, appends, files, writer, search, answer, held, calm>>

AppendTypelibDirectory(d) ==
    /\ step = "idle"
    /\ appends' = AddOnce(appends, d)
    /\ UNCHANGED <<registry, prepends, files, writer, search, answer, held, calm>>

Overwriting(k) == TRUE \* slip: register_typelib does not look before it binds
MayRegister(k) == registry[k] = Unbound

Register(k, lib) ==
    /\ registry' = [registry EXCEPT ![k] = lib]
    /\ held' = held \union {<<k, lib>>}

CutShortIsFine(b) == {b} \* slip: deserialize errors swallowed
(* What the constructor can make of b.  A text with a part missing does    *)
(* not deserialize; one text's first half with another's second may.       *)
Constructed(b) ==
    CASE Missing \in {b[1], b[2]} -> {Refused}
      [] Missing \notin {b[1], b[2]} /\ b[1] = b[2] ->
            IF b[1] \in Sound THEN {b} ELSE {Refused}
      [] OTHER -> {b, Refused}

(* install_typelib constructs first, then registers or throws.             *)
InstallTypelib(k, text) ==
    /\ step = "idle"
    /\ \E lib \in Constructed(<<text, text>>) :
        IF lib # Refused /\ MayRegister(k)
        THEN Register(k, lib)
        ELSE UNCHANGED <<registry, held>>
    /\ UNCHANGED <<prepends, appends, files, writer, search, answer, calm>>

(* Lookup throws when the key is unbound, which changes nothing.  A        *)
(* TNiceJSONProtocol keeps a reference to what it is given here.           *)
LookupTypelib(k) ==
    /\ step = "idle"
    /\ registry[k] # Unbound
    /\ held' = held \union {<<k, registry[k]>>}
    /\ UNCHANGED <<registry, prepends, appends, files, writer, search, answer, calm>>
-----------------------------------------------------------------------------
(* require_typelib                                                         *)

AppendsFirst == appends \o EnvPath \o prepends \* slip: swapped order
EnvReplaces == EnvPath \o appends \* slip: envpath assigned, not inserted
SearchPath == prepends \o EnvPath \o appends

RequireInstalled(k) ==
    /\ step = "idle"
    /\ registry[k] # Unbound
    /\ answer' = registry[k]
    /\ held' = held \union {<<k, answer'>>}
    /\ UNCHANGED <<registry, prepends, appends, files, writer, search, calm>>

RequireSearches(k) ==
    /\ step = "idle"
    /\ registry[k] = Unbound
    /\ step' = "probing" /\ key' = k
    /\ path' = SearchPath /\ place' = 1
    /\ answer' = NotFound
    /\ UNCHANGED <<registry, prepends, appends, files, writer, lbytes, held, calm>>

Candidate == files[<<path[place], key>>]
SameCandidate == place \* slip: the loop does not advance
NextCandidate == place + 1

(* The locals of the call are gone when it is over.                        *)
Return(result) ==
    /\ step' = "idle" /\ path' = <<>> /\ place' = 1
    /\ lbytes' = <<Missing, Missing>>
    /\ answer' = result /\ calm' = TRUE
    /\ UNCHANGED key

Probe ==
    /\ step = "probing" /\ place <= Len(path)
    /\ IF Candidate = Absent
       THEN place' = NextCandidate /\ UNCHANGED step
       ELSE step' = "opening" /\ UNCHANGED place
    /\ UNCHANGED <<registry, prepends, appends, files, writer, key, path, lbytes,
                   answer, held, calm>>

NoCandidateLeft ==
    /\ step = "probing" /\ place > Len(path)
    /\ Return(NotFound)
    /\ UNCHANGED <<registry, prepends, appends, files, writer, held>>

(* file_contents.  A file that is gone by now reads as the empty string.   *)
OpenAndRead ==
    /\ step = "opening"
    /\ IF Candidate = Absent
       THEN step' = "constructing" /\ UNCHANGED lbytes
       ELSE step' = "reading" /\ lbytes' = <<Candidate[1], Missing>>
    /\ UNCHANGED <<registry, prepends, appends, files, writer, key, path, place,
                   answer, held, calm>>

ReadRest ==
    /\ step = "reading"
    /\ step' = "constructing"
    /\ lbytes' = <<lbytes[1], Candidate[2]>>
    /\ UNCHANGED <<registry, prepends, appends, files, writer, key, path, place,
                   answer, held, calm>>

(* A candidate the constructor throws on ends the search: the exception    *)
(* passes through require_typelib.                                         *)
ConstructAndRegister ==
    /\ step = "constructing"
    /\ \E lib \in Constructed(lbytes) :
        IF lib # Refused /\ MayRegister(key)
        THEN Register(key, lib) /\ Return(lib)
        ELSE UNCHANGED <<registry, held>> /\ Return(Refused)
    /\ UNCHANGED <<prepends, appends, files, writer>>
-----------------------------------------------------------------------------
(* The generator, and whoever removes files.                               *)

OnlyFiles ==
    /\ calm' = (calm /\ (files' = files \/ step = "idle"))
    /\ UNCHANGED <<registry, prepends, appends, search, answer, held>>

(* gen_typelib truncates the file in place and writes it in pieces.        *)
GeneratorOpens(f, text) ==
    /\ writer = NoWriter
    /\ writer' = <<f, text>>
    /\ files' = [files EXCEPT ![f] = <<Missing, Missing>>]
    /\ OnlyFiles

GeneratorWrites ==
    /\ writer # NoWriter
    /\ LET f == writer[1]
           text == writer[2]
       IN  \/ /\ files[f][1] = Missing
              /\ files' = [files EXCEPT ![f] = <<text, Missing>>]
              /\ UNCHANGED writer
           \/ /\ files[f][1] # Missing
              /\ files' = [files EXCEPT ![f] = <<text, text>>]
              /\ writer' = NoWriter
    /\ OnlyFiles

(* It is killed, or the disk is full: what it has written stays.           *)
GeneratorDies ==
    /\ writer # NoWriter
    /\ writer' = NoWriter
    /\ UNCHANGED files
    /\ OnlyFiles

(* A file that is being read or written outlives its name: removing it     *)
(* then is removing it when that is over.                                  *)
Remove(f) ==
    /\ files[f] # Absent
    /\ writer # NoWriter => writer[1] # f
    /\ step = "reading" => f # <<path[place], key>>
    /\ files' = [files EXCEPT ![f] = Absent]
    /\ UNCHANGED writer
    /\ OnlyFiles
-----------------------------------------------------------------------------
InRequire == Probe \/ NoCandidateLeft \/ OpenAndRead \/ ReadRest \/ ConstructAndRegister

Process ==
    \/ \E d \in Directories : PrependTypelibDirectory(d) \/ AppendTypelibDirectory(d)
    \/ \E k \in Keys, text \in Texts : InstallTypelib(k, text)
    \/ \E k \in Keys : LookupTypelib(k) \/ RequireInstalled(k) \/ RequireSearches(k)
    \/ InRequire

FileSystem ==
    \/ \E f \in Directories \X Keys :
        Remove(f) \/ \E text \in Texts : GeneratorOpens(f, text)
    \/ GeneratorWrites
    \/ GeneratorDies

Next == Process \/ FileSystem

Spec == Init /\ [][Next]_vars

(* A require_typelib goes on to its end, and the program requires every    *)
(* typelib again and again, as each conversion from Python or OCaml does.  *)
FairSpec ==
    /\ Spec
    /\ WF_vars(InRequire)
    /\ \A k \in Keys : SF_vars(RequireSearches(k))
-----------------------------------------------------------------------------
(* Properties.                                                             *)

(* A typelib that a caller was given for a key, and whose reference the    *)
(* protocol objects made since then keep, is what that key is bound to     *)
(* ever after: two users of a key never have two schemas (lines 873-879).  *)
HeldIsBound == \A h \in held : registry[h[1]] = h[2]

(* r is the result of looking for k along the path, in these files: of the *)
(* first directory that has a file for it, good or not.                    *)
IsResultFor(r, k) ==
    LET p == prepends \o EnvPath \o appends
        Has(i) == files[<<p[i], k>>] # Absent
    IN  \/ r = NotFound /\ \A i \in DOMAIN p : ~Has(i)
        \/ \E i \in DOMAIN p :
              /\ Has(i) /\ \A j \in 1 .. (i - 1) : ~Has(j)
              /\ r \in Constructed(files[<<p[i], k>>])

(* When no file has changed during its search, require_typelib answers as  *)
(* if it had looked at all of them at once, and it binds the key when it   *)
(* returns and leaves it unbound when it throws, so that the call can be   *)
(* made again (lines 943-955).                                             *)
RequireIsOneLook ==
    [][(step # "idle" /\ step' = "idle") =>
          /\ calm => IsResultFor(answer', key)
          /\ registry'[key] = IF answer' \in Libraries THEN answer' ELSE Unbound]_vars

(* The typelib that a search for k would come to first is good.            *)
Ready(k) == \E text \in Sound : IsResultFor(<<text, text>>, k)

(* A typelib that is ready from some time on is installed in the end,      *)
(* whatever failed before: no failed require_typelib spoils the key.       *)
ReadyIsInstalled == \A k \in Keys : <>[]Ready(k) => <>(registry[k] # Unbound)

(* A require_typelib that searches returns or throws in the end, whatever  *)
(* the generator does to the files meanwhile.                              *)
RequireReturns == step # "idle" ~> step = "idle"
=============================================================================
