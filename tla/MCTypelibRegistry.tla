-------------------------- MODULE MCTypelibRegistry --------------------------
(* Small instances of TypelibRegistry for TLC. *)
EXTENDS TypelibRegistry

CONSTANTS here, there

\* THRIFT_TYPELIB_PATH when it is not set: split makes it one directory, the
\* empty name, whose files are looked for in the root directory.
OneOnPath == <<there>>
=============================================================================
