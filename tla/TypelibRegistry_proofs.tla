----------------------- MODULE TypelibRegistry_proofs -----------------------
(* What TLAPS proves of TypelibRegistry, for every value of its constants.  *)
EXTENDS TypelibRegistry, SequenceTheorems, TLAPS

(* What NotFound, Refused and Unbound are not.                              *)
LEMMA NoLibrary ==
  /\ NotFound \notin Libraries /\ Refused \notin Libraries /\ Unbound \notin Libraries
  /\ Absent \notin Halves
  /\ NotFound # Refused
  BY TextAssumption DEF Libraries, Texts, Halves

(* The constructor makes a typelib of what it was given, or throws.         *)
LEMMA ConstructedType ==
  ASSUME NEW b \in Halves, NEW lib \in Constructed(b)
  PROVE  /\ lib = b \/ lib = Refused
         /\ lib \in Libraries \union {Refused}
  BY DEF Constructed, Halves, Libraries, Texts

LEMMA AddOnceType ==
  ASSUME NEW s \in Seq(Directories), NEW d \in Directories
  PROVE  AddOnce(s, d) \in Seq(Directories)
  BY AppendProperties DEF AddOnce

LEMMA SearchPathType ==
  ASSUME TypeOK
  PROVE  SearchPath \in Seq(Directories)
  <1>1. prepends \in Seq(Directories) /\ appends \in Seq(Directories)
    BY DEF TypeOK
  <1>2. prepends \o EnvPath \in Seq(Directories)
    BY <1>1, PathAssumption, ConcatProperties
  <1> QED
    BY <1>1, <1>2, ConcatProperties DEF SearchPath
-----------------------------------------------------------------------------
(* A file that is being read has not been removed: without this ReadRest    *)
(* could not be typed.                                                      *)
ReadingIsThere == step = "reading" => Candidate # Absent

TypeInv == TypeOK /\ ReadingIsThere

(* A candidate is a file: the subscript of files is in its domain.          *)
LEMMA CandidateType ==
  ASSUME TypeOK, step \in {"opening", "reading", "constructing"} \/ place <= Len(path)
  PROVE  <<path[place], key>> \in Directories \X Keys /\ Candidate \in Halves \union {Absent}
  <1>1. path \in Seq(Directories) /\ place \in 1 .. (Len(path) + 1) /\ place <= Len(path)
    BY DEF TypeOK
  <1>2. Len(path) \in Nat
    BY <1>1, LenProperties
  <1>3. path[place] \in Directories
    BY <1>1, <1>2, ElementOfSeq
  <1> QED
    BY <1>3 DEF TypeOK, Candidate

LEMMA TypeInvInit == Init => TypeInv
  BY PathAssumption DEF Init, TypeInv, TypeOK, ReadingIsThere, Halves, Libraries, Texts, NoWriter

(* The calls that neither search nor bind.                                  *)
LEMMA TypeInvDirectories ==
  ASSUME TypeInv, NEW d \in Directories,
         PrependTypelibDirectory(d) \/ AppendTypelibDirectory(d)
  PROVE  TypeInv'
  <1>1. CASE PrependTypelibDirectory(d)
    BY <1>1, AddOnceType
    DEF TypeInv, TypeOK, ReadingIsThere, Candidate, PrependTypelibDirectory, search
  <1>2. CASE AppendTypelibDirectory(d)
    BY <1>2, AddOnceType
    DEF TypeInv, TypeOK, ReadingIsThere, Candidate, AppendTypelibDirectory, search
  <1> QED
    BY <1>1, <1>2

LEMMA TypeInvIdle ==
  ASSUME TypeInv, NEW k \in Keys,
         LookupTypelib(k) \/ RequireInstalled(k) \/ RequireSearches(k)
  PROVE  TypeInv'
  <1>1. CASE LookupTypelib(k)
    BY <1>1 DEF TypeInv, TypeOK, ReadingIsThere, Candidate, LookupTypelib, search
  <1>2. CASE RequireInstalled(k)
    BY <1>2 DEF TypeInv, TypeOK, ReadingIsThere, Candidate, RequireInstalled, search
  <1>3. CASE RequireSearches(k)
    <2>1. path' \in Seq(Directories) /\ Len(path') \in Nat
      BY <1>3, SearchPathType, LenProperties DEF RequireSearches, TypeInv
    <2> QED
      BY <1>3, <2>1 DEF TypeInv, TypeOK, ReadingIsThere, RequireSearches
  <1> QED
    BY <1>1, <1>2, <1>3

(* Register keeps the types when it is given a typelib.                     *)
LEMMA RegisterType ==
  ASSUME TypeOK, NEW k \in Keys, NEW lib \in Libraries, Register(k, lib)
  PROVE  /\ registry' \in [Keys -> Libraries \union {Unbound}]
         /\ held' \subseteq Keys \X Libraries
  BY DEF TypeOK, Register

LEMMA TypeInvInstall ==
  ASSUME TypeInv, NEW k \in Keys, NEW text \in Texts, InstallTypelib(k, text)
  PROVE  TypeInv'
  <1>1. PICK lib \in Constructed(<<text, text>>) :
          IF lib # Refused /\ MayRegister(k)
          THEN Register(k, lib)
          ELSE UNCHANGED <<registry, held>>
    BY DEF InstallTypelib
  <1>2. lib \in Libraries \union {Refused}
    BY ConstructedType DEF Halves
  <1>3. registry' \in [Keys -> Libraries \union {Unbound}] /\ held' \subseteq Keys \X Libraries
    BY <1>1, <1>2, RegisterType DEF TypeInv, TypeOK
  <1> QED
    BY <1>3 DEF TypeInv, TypeOK, ReadingIsThere, Candidate, InstallTypelib, search

LEMMA TypeInvInRequire ==
  ASSUME TypeInv, InRequire
  PROVE  TypeInv'
  <1>0. path \in Seq(Directories) /\ Len(path) \in Nat /\ <<>> \in Seq(Directories) /\ Len(<<>>) = 0
    BY LenProperties DEF TypeInv, TypeOK
  <1>1. CASE Probe
    BY <1>0, <1>1 DEF TypeInv, TypeOK, ReadingIsThere, Probe, NextCandidate
  <1>2. CASE NoCandidateLeft
    BY <1>0, <1>2 DEF TypeInv, TypeOK, ReadingIsThere, NoCandidateLeft, Return, Halves
  <1>3. CASE OpenAndRead
    <2>1. Candidate \in Halves \union {Absent}
      BY <1>3, CandidateType DEF TypeInv, OpenAndRead
    <2>2. Candidate' = Candidate
      BY <1>3 DEF OpenAndRead, Candidate
    <2>3. lbytes' \in Halves
      BY <1>3, <2>1 DEF TypeInv, TypeOK, OpenAndRead, Halves
    <2> QED
      BY <1>3, <2>2, <2>3 DEF TypeInv, TypeOK, ReadingIsThere, OpenAndRead
  <1>4. CASE ReadRest
    <2>1. Candidate \in Halves
      BY <1>4, CandidateType DEF TypeInv, ReadingIsThere, ReadRest
    <2>2. lbytes' \in Halves
      BY <1>4, <2>1 DEF TypeInv, TypeOK, ReadRest, Halves
    <2> QED
      BY <1>4, <2>2 DEF TypeInv, TypeOK, ReadingIsThere, ReadRest
  <1>5. CASE ConstructAndRegister
    <2>1. PICK lib \in Constructed(lbytes) :
            IF lib # Refused /\ MayRegister(key)
            THEN Register(key, lib) /\ Return(lib)
            ELSE UNCHANGED <<registry, held>> /\ Return(Refused)
      BY <1>5 DEF ConstructAndRegister
    <2>2. lib \in Libraries \union {Refused} /\ key \in Keys
      BY ConstructedType DEF TypeInv, TypeOK
    <2>3. registry' \in [Keys -> Libraries \union {Unbound}] /\ held' \subseteq Keys \X Libraries
      BY <2>1, <2>2, RegisterType DEF TypeInv, TypeOK
    <2>4. answer' \in Libraries \union {Refused} /\ key' = key /\ step' = "idle" /\ path' = <<>>
          /\ place' = 1 /\ lbytes' = <<Missing, Missing>> /\ calm' = TRUE
      BY <2>1, <2>2 DEF Return
    <2> QED
      BY <1>0, <1>5, <2>2, <2>3, <2>4
      DEF TypeInv, TypeOK, ReadingIsThere, ConstructAndRegister, Halves
  <1> QED
    BY <1>1, <1>2, <1>3, <1>4, <1>5 DEF InRequire

LEMMA TypeInvFileSystem ==
  ASSUME TypeInv, FileSystem
  PROVE  TypeInv'
  <1>1. ASSUME NEW f \in Directories \X Keys, NEW text \in Texts, GeneratorOpens(f, text)
        PROVE  TypeInv'
    <2>1. files' \in [Directories \X Keys -> Halves \union {Absent}]
          /\ \A g \in Directories \X Keys : files[g] # Absent => files'[g] # Absent
      BY <1>1, NoLibrary DEF GeneratorOpens, TypeInv, TypeOK, Halves
    <2>2. step = "reading" => Candidate' # Absent
      BY <1>1, <2>1, CandidateType
      DEF GeneratorOpens, OnlyFiles, search, TypeInv, ReadingIsThere, Candidate
    <2> QED
      BY <1>1, <2>1, <2>2
      DEF GeneratorOpens, OnlyFiles, search, TypeInv, TypeOK, ReadingIsThere
  <1>2. CASE GeneratorWrites
    <2>1. PICK f \in Directories \X Keys, text \in Texts : writer = <<f, text>>
      BY <1>2 DEF GeneratorWrites, TypeInv, TypeOK
    <2>2. \/ files' = [files EXCEPT ![f] = <<text, Missing>>] /\ writer' = writer
          \/ files' = [files EXCEPT ![f] = <<text, text>>] /\ writer' = NoWriter
      BY <1>2, <2>1 DEF GeneratorWrites
    <2>3. <<text, Missing>> \in Halves /\ <<text, text>> \in Halves
      BY DEF Halves
    <2>4. files' \in [Directories \X Keys -> Halves \union {Absent}]
          /\ \A g \in Directories \X Keys : files[g] # Absent => files'[g] # Absent
      BY <2>2, <2>3, NoLibrary DEF TypeInv, TypeOK
    <2>5. step = "reading" => Candidate' # Absent
      BY <1>2, <2>4, CandidateType
      DEF GeneratorWrites, OnlyFiles, search, TypeInv, ReadingIsThere, Candidate
    <2> QED
      BY <1>2, <2>2, <2>4, <2>5
      DEF GeneratorWrites, OnlyFiles, search, TypeInv, TypeOK, ReadingIsThere
  <1>3. CASE GeneratorDies
    BY <1>3 DEF GeneratorDies, OnlyFiles, search, TypeInv, TypeOK, ReadingIsThere, Candidate
  <1>4. ASSUME NEW f \in Directories \X Keys, Remove(f)
        PROVE  TypeInv'
    <2>1. files' \in [Directories \X Keys -> Halves \union {Absent}]
          /\ \A g \in Directories \X Keys : g # f => files'[g] = files[g]
      BY <1>4 DEF Remove, TypeInv, TypeOK
    <2>2. step = "reading" => Candidate' # Absent
      BY <1>4, <2>1, CandidateType
      DEF Remove, OnlyFiles, search, TypeInv, ReadingIsThere, Candidate
    <2> QED
      BY <1>4, <2>1, <2>2 DEF Remove, OnlyFiles, search, TypeInv, TypeOK, ReadingIsThere
  <1> QED
    BY <1>1, <1>2, <1>3, <1>4 DEF FileSystem

LEMMA TypeInvNext == TypeInv /\ [Next]_vars => TypeInv'
  <1> SUFFICES ASSUME TypeInv, [Next]_vars PROVE TypeInv'
    OBVIOUS
  <1>1. CASE UNCHANGED vars
    BY <1>1 DEF vars, search, TypeInv, TypeOK, ReadingIsThere, Candidate
  <1>2. CASE Process
    BY <1>2, TypeInvDirectories, TypeInvIdle, TypeInvInstall, TypeInvInRequire DEF Process
  <1>3. CASE FileSystem
    BY <1>3, TypeInvFileSystem
  <1> QED
    BY <1>1, <1>2, <1>3 DEF Next

(* Every variable keeps its type.                                           *)
THEOREM TypeCorrect == Spec => []TypeOK
  <1>1. TypeInv => TypeOK
    BY DEF TypeInv
  <1> QED
    BY TypeInvInit, TypeInvNext, <1>1, PTL DEF Spec
-----------------------------------------------------------------------------
(* What makes HeldIsBound inductive is that a key is bound only when it is  *)
(* unbound, so that nobody holds anything for it.                           *)
LEMMA RegisterKeepsHeld ==
  ASSUME TypeOK, HeldIsBound, NEW k \in Keys, NEW lib \in Libraries,
         registry[k] = Unbound, Register(k, lib)
  PROVE  HeldIsBound'
  <1>1. registry' = [registry EXCEPT ![k] = lib] /\ held' = held \union {<<k, lib>>}
    BY DEF Register
  <1>2. SUFFICES ASSUME NEW h \in held' PROVE registry'[h[1]] = h[2]
    BY DEF HeldIsBound
  <1>3. CASE h = <<k, lib>>
    BY <1>1, <1>3 DEF TypeOK
  <1>4. CASE h \in held
    <2>1. h \in Keys \X Libraries /\ registry[h[1]] = h[2]
      BY <1>4 DEF TypeOK, HeldIsBound
    <2>2. h[1] # k
      BY <2>1, NoLibrary
    <2> QED
      BY <1>1, <2>1, <2>2 DEF TypeOK
  <1> QED
    BY <1>1, <1>3, <1>4

LEMMA HeldIsBoundNext ==
  ASSUME TypeInv, HeldIsBound, [Next]_vars
  PROVE  HeldIsBound'
  <1>1. ASSUME NEW k \in Keys, NEW text \in Texts, InstallTypelib(k, text)
        PROVE  HeldIsBound'
    <2>1. PICK lib \in Constructed(<<text, text>>) :
            IF lib # Refused /\ MayRegister(k)
            THEN Register(k, lib)
            ELSE UNCHANGED <<registry, held>>
      BY <1>1 DEF InstallTypelib
    <2>2. lib \in Libraries \union {Refused}
      BY ConstructedType DEF Halves
    <2> QED
      BY <2>1, <2>2, RegisterKeepsHeld DEF TypeInv, MayRegister, HeldIsBound
  <1>2. CASE ConstructAndRegister
    <2>1. PICK lib \in Constructed(lbytes) :
            IF lib # Refused /\ MayRegister(key)
            THEN Register(key, lib) /\ Return(lib)
            ELSE UNCHANGED <<registry, held>> /\ Return(Refused)
      BY <1>2 DEF ConstructAndRegister
    <2>2. lib \in Libraries \union {Refused} /\ key \in Keys
      BY ConstructedType DEF TypeInv, TypeOK
    <2> QED
      BY <2>1, <2>2, RegisterKeepsHeld DEF TypeInv, MayRegister, HeldIsBound
  <1>3. ASSUME NEW k \in Keys, LookupTypelib(k) \/ RequireInstalled(k)
        PROVE  HeldIsBound'
    BY <1>3 DEF LookupTypelib, RequireInstalled, HeldIsBound
  <1>4. ASSUME UNCHANGED <<registry, held>>
        PROVE  HeldIsBound'
    BY <1>4 DEF HeldIsBound
  <1>5. CASE Process
    BY <1>1, <1>2, <1>3, <1>4, <1>5
    DEF Process, InRequire, PrependTypelibDirectory, AppendTypelibDirectory,
        RequireSearches, Probe, NoCandidateLeft, OpenAndRead, ReadRest
  <1>6. CASE FileSystem
    BY <1>4, <1>6
    DEF FileSystem, GeneratorOpens, GeneratorWrites, GeneratorDies, Remove, OnlyFiles
  <1> QED
    BY <1>4, <1>5, <1>6 DEF Next, vars

(* A caller's typelib is what the key is bound to ever after.               *)
THEOREM BindingsArePermanent == Spec => []HeldIsBound
  <1>1. Init => HeldIsBound
    BY DEF Init, HeldIsBound
  <1>2. TypeInv /\ HeldIsBound /\ [Next]_vars => HeldIsBound'
    BY HeldIsBoundNext
  <1> QED
    BY TypeInvInit, TypeInvNext, <1>1, <1>2, PTL DEF Spec
-----------------------------------------------------------------------------
(* What require_typelib knows in the middle of its search: nobody has bound *)
(* the key meanwhile and, unless a file has changed, the candidates it has  *)
(* passed are absent and what it has read is what the present one holds.    *)
SearchInv ==
  step # "idle" =>
    /\ registry[key] = Unbound
    /\ path = SearchPath
    /\ calm =>
        /\ \A j \in 1 .. (place - 1) : files[<<path[j], key>>] = Absent
        /\ step \in {"opening", "reading", "constructing"} => Candidate # Absent
        /\ step = "reading" => lbytes[1] = Candidate[1]
        /\ step = "constructing" => lbytes = Candidate

LEMMA SearchInvInRequire ==
  ASSUME TypeInv, SearchInv, InRequire
  PROVE  SearchInv'
  <1>0. place \in Nat \ {0} /\ Len(path) \in Nat
    BY LenProperties DEF TypeInv, TypeOK
  <1>1. CASE Probe
    <2>1. SearchPath' = SearchPath /\ path' = path /\ key' = key /\ files' = files
      BY <1>1 DEF Probe, SearchPath
    <2>2. CASE Candidate = Absent
      <3>1. place' = place + 1 /\ step' = "probing"
        BY <1>1, <2>2 DEF Probe, NextCandidate
      <3>2. calm => \A j \in 1 .. (place' - 1) : files[<<path[j], key>>] = Absent
        BY <1>0, <1>1, <2>2, <3>1 DEF Probe, SearchInv, Candidate
      <3> QED
        BY <1>1, <2>1, <3>1, <3>2 DEF Probe, SearchInv
    <2>3. CASE Candidate # Absent
      BY <1>1, <2>1, <2>3 DEF Probe, SearchInv, Candidate
    <2> QED
      BY <2>2, <2>3
  <1>2. CASE NoCandidateLeft
    BY <1>2 DEF NoCandidateLeft, Return, SearchInv
  <1>3. CASE OpenAndRead
    <2>1. Candidate' = Candidate /\ SearchPath' = SearchPath
      BY <1>3 DEF OpenAndRead, Candidate, SearchPath
    <2>2. CASE Candidate = Absent
      BY <1>3, <2>1, <2>2 DEF OpenAndRead, SearchInv
    <2>3. CASE Candidate # Absent
      BY <1>3, <2>1, <2>3 DEF OpenAndRead, SearchInv
    <2> QED
      BY <2>2, <2>3
  <1>4. CASE ReadRest
    <2>1. Candidate' = Candidate /\ SearchPath' = SearchPath
      BY <1>4 DEF ReadRest, Candidate, SearchPath
    <2>2. Candidate \in Halves
      BY <1>4, CandidateType DEF TypeInv, ReadingIsThere, ReadRest
    <2>3. calm => lbytes' = Candidate
      BY <1>4, <2>2 DEF ReadRest, SearchInv, Halves
    <2> QED
      BY <1>4, <2>1, <2>3 DEF ReadRest, SearchInv
  <1>5. CASE ConstructAndRegister
    BY <1>5 DEF ConstructAndRegister, Return, SearchInv
  <1> QED
    BY <1>1, <1>2, <1>3, <1>4, <1>5 DEF InRequire

LEMMA SearchInvFileSystem ==
  ASSUME TypeInv, SearchInv, FileSystem
  PROVE  SearchInv'
  <1>1. /\ calm' = (calm /\ (files' = files \/ step = "idle"))
        /\ UNCHANGED <<registry, prepends, appends, search>>
    BY DEF FileSystem, GeneratorOpens, GeneratorWrites, GeneratorDies, Remove, OnlyFiles
  <1>2. SearchPath' = SearchPath
    BY <1>1 DEF SearchPath
  <1>3. calm' /\ step # "idle" => files' = files
    BY <1>1 DEF TypeInv, TypeOK
  <1> QED
    BY <1>1, <1>2, <1>3 DEF SearchInv, search, Candidate, TypeInv, TypeOK

LEMMA SearchInvNext == TypeInv /\ SearchInv /\ [Next]_vars => SearchInv'
  <1> SUFFICES ASSUME TypeInv, SearchInv, [Next]_vars PROVE SearchInv'
    OBVIOUS
  <1>1. CASE UNCHANGED vars
    BY <1>1 DEF vars, search, SearchInv, SearchPath, Candidate
  <1>2. ASSUME NEW d \in Directories, PrependTypelibDirectory(d) \/ AppendTypelibDirectory(d)
        PROVE  SearchInv'
    BY <1>2 DEF PrependTypelibDirectory, AppendTypelibDirectory, SearchInv, search
  <1>3. ASSUME NEW k \in Keys, NEW text \in Texts, InstallTypelib(k, text)
        PROVE  SearchInv'
    BY <1>3 DEF InstallTypelib, SearchInv, search
  <1>4. ASSUME NEW k \in Keys, LookupTypelib(k) \/ RequireInstalled(k)
        PROVE  SearchInv'
    BY <1>4 DEF LookupTypelib, RequireInstalled, SearchInv, search
  <1>5. ASSUME NEW k \in Keys, RequireSearches(k)
        PROVE  SearchInv'
    <2>1. SearchPath' = SearchPath
      BY <1>5 DEF RequireSearches, SearchPath
    <2> QED
      BY <1>5, <2>1 DEF RequireSearches, SearchInv
  <1>6. CASE InRequire
    BY <1>6, SearchInvInRequire
  <1>7. CASE FileSystem
    BY <1>7, SearchInvFileSystem
  <1> QED
    BY <1>1, <1>2, <1>3, <1>4, <1>5, <1>6, <1>7 DEF Next, Process

(* The step that ends a search.                                             *)
OneLook ==
  step # "idle" /\ step' = "idle" =>
    /\ calm => IsResultFor(answer', key)
    /\ registry'[key] = IF answer' \in Libraries THEN answer' ELSE Unbound

LEMMA SearchEnds ==
  ASSUME TypeInv, SearchInv, [Next]_vars
  PROVE  OneLook
  <1> SUFFICES ASSUME step # "idle", step' = "idle"
      PROVE  /\ calm => IsResultFor(answer', key)
             /\ registry'[key] = IF answer' \in Libraries THEN answer' ELSE Unbound
    BY DEF OneLook
  <1>0. path \in Seq(Directories) /\ Len(path) \in Nat /\ place \in 1 .. (Len(path) + 1)
        /\ DOMAIN path = 1 .. Len(path)
    BY LenProperties DEF TypeInv, TypeOK
  <1>1. NoCandidateLeft \/ ConstructAndRegister
    BY DEF Next, Process, InRequire, FileSystem, vars, search, PrependTypelibDirectory,
           AppendTypelibDirectory, InstallTypelib, LookupTypelib, RequireInstalled,
           RequireSearches, Probe, OpenAndRead, ReadRest, GeneratorOpens,
           GeneratorWrites, GeneratorDies, Remove, OnlyFiles
  <1>2. CASE NoCandidateLeft
    <2>1. answer' = NotFound /\ registry' = registry /\ place = Len(path) + 1
      BY <1>0, <1>2 DEF NoCandidateLeft, Return
    <2>2. calm => \A i \in DOMAIN path : files[<<path[i], key>>] = Absent
      BY <1>0, <2>1 DEF SearchInv
    <2> QED
      BY <2>1, <2>2, NoLibrary DEF SearchInv, SearchPath, IsResultFor
  <1>3. CASE ConstructAndRegister
    <2>1. PICK lib \in Constructed(lbytes) :
            IF lib # Refused /\ MayRegister(key)
            THEN Register(key, lib) /\ Return(lib)
            ELSE UNCHANGED <<registry, held>> /\ Return(Refused)
      BY <1>3 DEF ConstructAndRegister
    <2>2. lib \in Libraries \union {Refused} /\ key \in Keys
      BY ConstructedType DEF TypeInv, TypeOK
    <2>3. MayRegister(key) /\ path = SearchPath
      BY DEF SearchInv, MayRegister
    <2>4. answer' = lib
      BY <2>1, <2>3 DEF Return
    <2>5. registry'[key] = IF answer' \in Libraries THEN answer' ELSE Unbound
      BY <2>1, <2>2, <2>3, <2>4, NoLibrary DEF Register, MayRegister, TypeInv, TypeOK
    <2>6. ASSUME calm PROVE IsResultFor(answer', key)
      <3>1. lbytes = Candidate /\ Candidate # Absent
        BY <1>3, <2>6 DEF ConstructAndRegister, SearchInv
      <3>2. \A j \in 1 .. (place - 1) : files[<<path[j], key>>] = Absent
        BY <2>6 DEF SearchInv
      <3>3. place \in DOMAIN path
        BY <1>0, <1>3 DEF ConstructAndRegister, TypeInv, TypeOK
      <3> QED
        BY <2>1, <2>3, <2>4, <3>1, <3>2, <3>3 DEF IsResultFor, Candidate, SearchPath
    <2> QED
      BY <2>5, <2>6
  <1> QED
    BY <1>1, <1>2, <1>3

(* A search that nobody disturbs is one look at the files.                  *)
THEOREM SearchesAreOneLook == Spec => RequireIsOneLook
  <1>1. Init => SearchInv
    BY DEF Init, SearchInv
  <1>2. TypeInv /\ SearchInv /\ [Next]_vars => [OneLook]_vars
    BY SearchEnds
  <1>3. [OneLook]_vars =
          [(step # "idle" /\ step' = "idle") =>
             /\ calm => IsResultFor(answer', key)
             /\ registry'[key] = IF answer' \in Libraries THEN answer' ELSE Unbound]_vars
    BY DEF OneLook
  <1> QED
    BY TypeInvInit, TypeInvNext, SearchInvNext, <1>1, <1>2, <1>3, PTL
    DEF Spec, RequireIsOneLook, OneLook
=============================================================================
