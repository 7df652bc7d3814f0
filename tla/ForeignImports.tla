--------------------------- MODULE ForeignImports ---------------------------
(***************************************************************************)
(* Importing a C library: Mapper parses a header into a description, the   *)
(* resolver looks the functions up in the library and writes down what the *)
(* library was (its fingerprint), and the service materialises definitions *)
(* from that resolved schema.  resolver.import! keeps resolved schemas in  *)
(* a cache of files (src/edict/edict_vm_ffi.cpp, op_IMPORT): the files of  *)
(* libraries and headers change meanwhile, and the process may die while   *)
(* it writes the cache.                                                    *)
(***************************************************************************)
EXTENDS Integers, Sequences, FiniteSets, SequencesExt

CONSTANTS Libraries, Headers,   \* paths
          FileName,     \* the last component of a path: what names the cache
          LibraryTexts, \* what a library may hold: the functions it exports
          HeaderTexts,  \* what a header may hold: declarations, in order
          UnsafeNames,  \* isUnsafeFunctionName
          AtFirst,      \* what each file holds at first
          Missing,      \* no file, no schema, no result
          MaxChanges    \* bound: how often files change

Files == Libraries \cup Headers

\* What an instance assumes of them.
ImportAssumption ==
  /\ Missing \notin LibraryTexts /\ Missing \notin HeaderTexts
  /\ Libraries \cap Headers = {}
  /\ \A l \in Libraries : AtFirst[l] \in LibraryTexts
  /\ \A h \in Headers : AtFirst[h] \in HeaderTexts
  /\ \A t \in HeaderTexts : t \in Seq(Range(t))

VARIABLES disk,     \* libraries and headers: text and modification time
          cache,    \* cache files: text, time, and whether written whole
          now,      \* the clock of the file system
          loaded,   \* FFI::handles_: the libraries that are loaded
          import,   \* the import under way
          held,     \* the schema and the resolved schema a program holds
          defs      \* what the last import pushed

vars == <<disk, cache, now, loaded, import, held, defs>>

CacheNames == {<<FileName[l], FileName[h]>> : l \in Libraries, h \in Headers}
CacheName == <<FileName[import.library], FileName[import.header]>>

Idle == [pc |-> "idle"]

Init ==
  /\ disk = [f \in Files |-> [text |-> AtFirst[f], mtime |-> 0]]
  /\ cache = [c \in CacheNames |-> Missing]
  /\ now = 1
  /\ loaded = {}
  /\ import = Idle
  /\ held = [schema |-> Missing, resolved |-> Missing]
  /\ defs = Missing

---------------------------------------------------------------------------
(* Descriptions, resolved schemas and definitions.                         *)

\* The nodes of a kind, in order.
OfKind(description, kind) ==
  LET places == {i \in DOMAIN description : description[i].kind = kind}
      Before(i) == {j \in places : j < i}
  IN [n \in 1 .. Cardinality(places) |->
        description[CHOOSE i \in places : Cardinality(Before(i)) = n - 1]]

\* Where libclang gives up, a regular expression finds the structs, and then
\* another the functions.
ParseDescriptionFallback(header) ==
  OfKind(disk[header].text, "Struct") \o OfKind(disk[header].text, "Function")

\* parseDescription: one node per declaration, a name it is found by, a kind.
\* An empty header gives no symbols; a missing one fails.
ParseDescription(header) ==
  {disk[header].text, ParseDescriptionFallback(header)}

\* The texts the tools pass on are their nodes or fields, in order, up to the
\* closing bracket; a text that was cut off lacks it and does not decode.
Close == [name |-> "]", kind |-> "close"]

EncodeParseDescription(description) == Append(description, Close)

IsWhole(text) == text # <<>> /\ Last(text) = Close

DecodeParseDescription(text) == IF IsWhole(text) THEN Front(text) ELSE Missing

EncodeResolvedApi(api) ==
  << [field |-> "library", value |-> <<api.library, api.fingerprint>>],
     [field |-> "api_schema_json",
      value |-> EncodeParseDescription(api.description)],
     [field |-> "symbols", value |-> api.symbols],
     [field |-> "close"] >>

ParseSymbols(text) == text[3].value

DecodeResolvedApi(text) ==
  IF text # <<>> /\ Last(text).field = "close"
  THEN [library |-> text[1].value[1], fingerprint |-> text[1].value[2],
        description |-> DecodeParseDescription(text[2].value),
        symbols |-> ParseSymbols(text)]
  ELSE Missing

\* resolveApiDescription: functions are looked up in the library.
ResolutionStatus(node, exports) ==
  IF node.kind # "Function" THEN "not_applicable"
  ELSE IF node.name \in exports THEN "resolved" ELSE "unresolved"

ResolveApiDescription(library, fingerprint, description, exports) ==
  [library |-> library, fingerprint |-> fingerprint,
   description |-> description,
   symbols |-> [i \in DOMAIN description |->
                  ResolutionStatus(description[i], exports)]]

\* findResolvedSymbolByKey: the first symbol of that name.
FirstOf(description, name) ==
  SelectInSeq(description, LAMBDA node : node.name = name)

\* addNamedItem puts what is materialised later in front: what a lookup finds
\* is the last declaration of a name.
LastOf(description, name) ==
  SelectLastInSeq(description, LAMBDA node : node.name = name)

NamesOf(description) == {description[i].name : i \in DOMAIN description}

\* Mapper::materialize: definitions as the header has them.
Materialize(description) ==
  [name \in NamesOf(description) |->
     [kind |-> description[LastOf(description, name)].kind,
      safety |-> "none", status |-> "none"]]

Safety(name) == IF name \in UnsafeNames THEN "unsafe" ELSE "safe"

\* materializeImportedDefinitions: a tag for every name.
Tagged(description) ==
  [name \in NamesOf(description) |->
     [kind |-> description[LastOf(description, name)].kind,
      safety |-> Safety(name)]]

\* importResolverJson: the node in front carries, besides, the resolution of
\* the first symbol with its key.
Annotate(api) ==
  LET tagged == Tagged(api.description)
  IN [name \in NamesOf(api.description) |->
        [kind |-> tagged[name].kind, safety |-> tagged[name].safety,
         status |-> api.symbols[FirstOf(api.description, name)]]]

---------------------------------------------------------------------------
(* The file system.                                                        *)

Fingerprint(library) == disk[library]
FingerprintNow(api) == disk[api.library]

\* The mistake of only looking whether the library is still there.
IsPresent(api) == FingerprintNow(api) # Missing

\* validateResolvedArtifactFreshness: size, time and hash are those written
\* down when the schema was resolved.
IsFresh(api) == FingerprintNow(api) = api.fingerprint

\* A compiler or an editor writes a file, or it is removed.
Change(f) ==
  /\ now < MaxChanges
  /\ now' = now + 1
  /\ \/ \E text \in IF f \in Libraries THEN LibraryTexts ELSE HeaderTexts :
          disk' = [disk EXCEPT ![f] = [text |-> text, mtime |-> now + 1]]
     \/ disk[f] # Missing /\ disk' = [disk EXCEPT ![f] = Missing]
  /\ UNCHANGED <<cache, loaded, import, held, defs>>

---------------------------------------------------------------------------
(* op_IMPORT.                                                              *)

Begin ==
  /\ import.pc = "idle"
  /\ \E l \in Libraries, h \in Headers :
       import' = [pc |-> "look", library |-> l, header |-> h, began |-> now]
  /\ UNCHANGED <<disk, cache, now, loaded, held, defs>>

At(pc) == import.pc = pc

\* The cached file is used when neither source is younger than it.
CacheValid ==
  /\ cache[CacheName] # Missing
  /\ disk[import.library] # Missing /\ disk[import.header] # Missing
  /\ cache[CacheName].mtime >= disk[import.library].mtime
  /\ cache[CacheName].mtime >= disk[import.header].mtime

With(pc, api) == [pc |-> pc, library |-> import.library,
                  header |-> import.header, began |-> import.began,
                  api |-> api]

\* A file that was not written to its end is found empty, or does not decode.
Look ==
  /\ At("look")
  /\ import' = IF CacheValid
               THEN With("cached", DecodeResolvedApi(cache[CacheName].text))
               ELSE With("parse", Missing)
  /\ UNCHANGED <<disk, cache, now, loaded, held, defs>>

Fail(why) ==
  /\ import' = Idle
  /\ defs' = [ok |-> FALSE, why |-> why, began |-> import.began]
  /\ UNCHANGED <<disk, cache, now, loaded, held>>

\* loadLibrary: a library that is loaded already is not loaded again.
Load(library) == loaded' = loaded \cup {library}

\* importResolverJson, from the cache file or from memory.
Succeeds(api) ==
  /\ Load(api.library)
  /\ defs' = [ok |-> TRUE, library |-> api.library,
              checked |-> disk[api.library].text, table |-> Annotate(api)]

\* The mistake of taking a stale cache for a failed import.
FromCacheOnly ==
  /\ At("cached")
  /\ IF import.api # Missing /\ IsFresh(import.api)
     THEN /\ Succeeds(import.api) /\ import' = Idle
          /\ UNCHANGED <<disk, cache, now, held>>
     ELSE Fail("stale")

\* What is wrong with a cached schema is repaired by making it again.
FromCache ==
  /\ At("cached")
  /\ IF import.api # Missing /\ IsFresh(import.api)
     THEN Succeeds(import.api) /\ import' = Idle
     ELSE import' = With("parse", Missing) /\ UNCHANGED <<loaded, defs>>
  /\ UNCHANGED <<disk, cache, now, held>>

Parse ==
  /\ At("parse")
  /\ IF disk[import.header] = Missing THEN Fail("header")
     ELSE /\ \E d \in ParseDescription(import.header) :
               import' = With("hash", [description |-> d])
          /\ UNCHANGED <<disk, cache, now, loaded, held, defs>>

\* The fingerprint is read before the library is opened.
Hash ==
  /\ At("hash")
  /\ IF disk[import.library] = Missing THEN Fail("library")
     ELSE /\ import' = With("resolve",
                 [description |-> import.api.description,
                  fingerprint |-> Fingerprint(import.library)])
          /\ UNCHANGED <<disk, cache, now, loaded, held, defs>>

Resolve ==
  /\ At("resolve")
  /\ IF disk[import.library] = Missing THEN Fail("library")
     ELSE /\ import' = With("save", ResolveApiDescription(import.library,
                 import.api.fingerprint, import.api.description,
                 disk[import.library].text))
          /\ UNCHANGED <<disk, cache, now, loaded, held, defs>>

\* Opening the cache file empties it ...
Save ==
  /\ At("save")
  /\ cache' = [cache EXCEPT ![CacheName] = [mtime |-> now, text |-> <<>>]]
  /\ import' = [import EXCEPT !.pc = "flush"]
  /\ UNCHANGED <<disk, now, loaded, held, defs>>

Written(n) ==
  [cache EXCEPT ![CacheName] =
     [mtime |-> now,
      text |-> SubSeq(EncodeResolvedApi(import.api), 1, n)]]

\* ... and its bytes reach it when the stream is closed, at the end.
Flush ==
  /\ At("flush")
  /\ cache' = Written(4)
  /\ import' = Idle
  /\ IF IsFresh(import.api)
     THEN Succeeds(import.api)
     ELSE /\ defs' = [ok |-> FALSE, why |-> "stale", began |-> import.began]
          /\ UNCHANGED loaded
  /\ UNCHANGED <<disk, now, held>>

\* The process dies in the middle, of writing too; the next one starts with
\* nothing loaded.
Crash ==
  /\ import.pc # "idle"
  /\ \/ UNCHANGED cache
     \/ At("flush") /\ \E n \in 1..3 : cache' = Written(n)
  /\ import' = Idle
  /\ loaded' = {}
  /\ held' = [schema |-> Missing, resolved |-> Missing]
  /\ defs' = Missing
  /\ UNCHANGED <<disk, now>>

Importing == Begin \/ Look \/ FromCache \/ Parse \/ Hash \/ Resolve \/ Save
             \/ Flush

---------------------------------------------------------------------------
(* The same steps as a program takes them one by one, with the texts on    *)
(* its stack in between: parse_json, materialize_json, resolve_json,       *)
(* import_resolved_json and import_resolved, map, load.                    *)

Between == import.pc = "idle"

ParseJson(h) ==
  /\ Between /\ disk[h] # Missing
  /\ \E d \in ParseDescription(h) :
       held' = [held EXCEPT !.schema = EncodeParseDescription(d)]
  /\ UNCHANGED <<disk, cache, now, loaded, import, defs>>

MaterializeJson ==
  /\ Between /\ held.schema # Missing
  /\ defs' = [ok |-> TRUE, library |-> Missing, checked |-> {},
              table |-> Materialize(DecodeParseDescription(held.schema))]
  /\ UNCHANGED <<disk, cache, now, loaded, import, held>>

ResolveJson(l) ==
  /\ Between /\ held.schema # Missing /\ disk[l] # Missing
  /\ held' = [held EXCEPT !.resolved = EncodeResolvedApi(
                ResolveApiDescription(l, Fingerprint(l),
                  DecodeParseDescription(held.schema), disk[l].text))]
  /\ UNCHANGED <<disk, cache, now, loaded, import, defs>>

ImportResolvedJson ==
  /\ Between /\ held.resolved # Missing
  /\ LET api == DecodeResolvedApi(held.resolved)
     IN IF IsFresh(api)
        THEN Succeeds(api)
        ELSE /\ defs' = [ok |-> FALSE, why |-> "stale", began |-> 0]
             /\ UNCHANGED loaded
  /\ UNCHANGED <<disk, cache, now, import, held>>

LoadLibrary(l) ==
  /\ Between /\ disk[l] # Missing
  /\ Load(l)
  /\ UNCHANGED <<disk, cache, now, import, held, defs>>

StepByStep == \/ MaterializeJson \/ ImportResolvedJson
              \/ \E h \in Headers : ParseJson(h)
              \/ \E l \in Libraries : ResolveJson(l) \/ LoadLibrary(l)

Next == Importing \/ StepByStep \/ Crash \/ \E f \in Files : Change(f)

Spec == Init /\ [][Next]_vars

---------------------------------------------------------------------------
(* Calling what was imported: evalDispatchFFI.                             *)

\* A definition is dispatched when it is a function, allowed, and not known
\* to be missing.
Dispatched(node, allowUnsafe) ==
  /\ node.kind = "Function"
  /\ node.safety = "unsafe" => allowUnsafe
  /\ node.status \in {"resolved", "none"}

---------------------------------------------------------------------------
(* Properties.                                                             *)

Imported == defs # Missing /\ defs.ok

\* Functions an import calls resolved are exported by the library the
\* definitions name, as it was when the import checked it: neither a cached
\* schema nor a library replaced between fingerprint and lookup gets through
\* (validateResolvedArtifactFreshness, service.cpp:110).
ResolvedIsExported ==
  Imported =>
    \A name \in DOMAIN defs.table :
      LET node == defs.table[name]
      IN Dispatched(node, TRUE) =>
           node.status = "none" \/ name \in defs.checked

\* A bad cache never makes an import fail (op_IMPORT falls through to
\* regenerating it, edict_vm_ffi.cpp:187): one that fails while nothing
\* changed under it lacks its header or its library.
FailureHasACause ==
  (defs # Missing /\ ~defs.ok) =>
    \/ \E f \in Files : disk[f] = Missing
    \/ defs.began < now
=============================================================================
