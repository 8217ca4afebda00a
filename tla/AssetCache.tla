---------------------------- MODULE AssetCache ----------------------------
(***************************************************************************)
(* The asset cache of the MCP server: import_online_asset                  *)
(* (src/mcp_server/src/mcp_blender/tools/asset_source_ops.py) over         *)
(* find_cached_file and the providers' download methods                    *)
(* (src/mcp_server/src/mcp_blender/assets/).                               *)
(*                                                                         *)
(* A call looks for the asset on disk, downloads it file by file where it  *)
(* is to be found the next time, unpacks an archive beside it, and hands   *)
(* the path to Blender.  Calls are tasks of one or of several server       *)
(* processes; nothing is locked, and a file is in its final place while it *)
(* is still being written.                                                 *)
(*                                                                         *)
(* There is one asset of each kind: an archive, a texture set and a model  *)
(* of Poly Haven, and what an AI provider made of four ids that are one    *)
(* directory: a prompt's plainly, the same reduced to a polygon budget,    *)
(* another's that differs in a character the directory's name replaces,    *)
(* and one that differs from it by a slash.                                *)
(***************************************************************************)
EXTENDS Naturals, Sequences, Functions

CONSTANT MaxCalls  \* bound: how many assets are asked for

ASSUME AssetCacheAssumption == MaxCalls \in Nat

\* Calls are numbered in the order they start.
Calls == 1..MaxCalls
NoCall == 0

Assets == {"archive", "maps", "model", "plain", "reduced", "twin", "nested"}

\* cache_dir: the directory is named by the id, every other character made a "_", without
\* the budget.
Dirs == {"archive", "maps", "model", "generated"}
DirOf(a) == IF a \in {"plain", "reduced", "twin", "nested"} THEN "generated" ELSE a

\* The names of an asset's files, in the order in which a directory sorts them.
Names ==
  <<"archive", "bin", "main", "plain", "reduced", "twin", "map 1", "map 2", "nested">>
Files == Range(Names)

\* Maps go to the subdirectory textures/: those of a set, and those of a model.
Maps == {"map 1", "map 2"}

VARIABLES
  call,      \* the calls of import_online_asset
  disk,      \* the cache directories
  fetched,   \* history: the assets that were downloaded completely
  disturbed, \* history: directories with a download that broke off or had a call beside it
  extracted, \* what the directory holds that the archive is unpacked to
  crossed,   \* history: calls with another one unpacking the archive beside them
  imported   \* history: what Blender was given

vars == <<call, disk, fetched, disturbed, extracted, crossed, imported>>

\* path is what DownloadedAsset.filepath names, a file or the folder of the maps, and
\* then what the archive was unpacked to.
Call ==
  [pc : {"unused", "lookup", "request", "fetch", "write", "handed", "extract", "done"},
   want : Assets, next : 1..(Len(Names) + 1), cached : BOOLEAN,
   path : Files \cup {"none", "textures", "extracted"}]

Unused ==
  [pc |-> "unused", want |-> "archive", next |-> 1, cached |-> FALSE, path |-> "none"]

\* The bytes of a file are those of the call that opened, and so truncated, it last.
States == {"absent", "partial", "whole"}
File == [state : States, writer : Calls \cup {NoCall}]

Init ==
  /\ call = [c \in Calls |-> Unused]
  /\ disk = [d \in Dirs |-> [f \in Files |-> [state |-> "absent", writer |-> NoCall]]]
  /\ fetched = {}
  /\ disturbed = {}
  /\ extracted = "absent"
  /\ crossed = {}
  /\ imported = {}

Downloading(c) == call[c].pc \in {"request", "fetch", "write"}

\* The directory of the asset a call is about.
Dir(c) == DirOf(call[c].want)

Present(d) == {f \in Files : disk[d][f].state # "absent"}
---------------------------------------------------------------------------
(* Looking an asset up.                                                    *)

Start(c, a) ==
  /\ \A d \in Calls : call[d].pc = "unused" <=> d >= c
  /\ call' = [call EXCEPT ![c] = [Unused EXCEPT !.pc = "lookup", !.want = a]]
  /\ UNCHANGED <<disk, fetched, disturbed, extracted, crossed, imported>>

\* What is downloaded at every call: no lookup finds it.
NeverFound == {"reduced", "nested"}

\* Another call is downloading the asset, or is importing the file this one will write.
Overlaps(c) ==
  \E d \in Calls \ {c} :
    /\ Dir(d) = Dir(c)
    /\ \/ Downloading(d)
       \/ call[d].pc = "handed" /\ call[d].want = call[c].want /\ call[c].want \in NeverFound

LooksUp(c) ==
  /\ call[c].pc = "lookup"
  /\ disturbed' = disturbed \cup (IF Overlaps(c) THEN {Dir(c)} ELSE {})
  /\ UNCHANGED <<disk, fetched, extracted, crossed, imported>>

\* The first file, as a directory sorts them.  What is named by an id with a slash is a
\* file of a subdirectory, and that is not listed.
FirstLoose(d) ==
  LET loose == {i \in DOMAIN Names : Names[i] \in Present(d) \ (Maps \cup {"nested"})}
  IN  IF loose = {} THEN "none" ELSE Names[CHOOSE i \in loose : \A j \in loose : i <= j]

\* find_cached_file: a filled textures/ is the hit, else the first file there is.
FindCachedFile(d) == IF Present(d) \cap Maps # {} THEN "textures" ELSE FirstLoose(d)

\* With a budget the suffixed id is looked up, in whose directory nothing is ever put.
Found(c) == IF call[c].want = "reduced" THEN "none" ELSE FindCachedFile(Dir(c))

Hit(c) ==
  /\ LooksUp(c)
  /\ Found(c) # "none"
  /\ call' = [call EXCEPT ![c].pc = "handed", ![c].cached = TRUE, ![c].path = Found(c)]

Miss(c) ==
  /\ LooksUp(c)
  /\ Found(c) = "none"
  /\ call' = [call EXCEPT ![c].pc = "request"]
---------------------------------------------------------------------------
(* Downloading it.                                                         *)

\* Fault: a model's includes are not fetched.
PartsWithoutIncludes(a) ==
  CASE a = "maps" -> <<"map 1", "map 2">>
    [] a = "model" -> <<"main">>
    [] OTHER -> <<a>>

\* What download writes, in its order.  An asset of one file gives it its name.
Parts(a) ==
  CASE a = "maps" -> <<"map 1", "map 2">>
    [] a = "model" -> <<"main", "bin", "map 1">>
    [] OTHER -> <<a>>

PartsOf(c) == Parts(call[c].want)

\* The file that a call writes, or would write next.
Part(c) == PartsOf(c)[call[c].next]

\* The listing of the files, or the generation that is paid for and waited for.
Request(c) ==
  /\ call[c].pc = "request"
  /\ call' = [call EXCEPT ![c].pc = "fetch"]
  /\ UNCHANGED <<disk, fetched, disturbed, extracted, crossed, imported>>

Open(c) ==
  /\ call[c].pc = "fetch"
  /\ call' = [call EXCEPT ![c].pc = "write"]
  /\ disk' = [disk EXCEPT ![Dir(c)][Part(c)] = [state |-> "partial", writer |-> c]]
  /\ UNCHANGED <<fetched, disturbed, extracted, crossed, imported>>

\* What download returns: the folder, or the file it wrote first.
PathOf(c) == IF call[c].want = "maps" THEN "textures" ELSE PartsOf(c)[1]

\* Fault: one file too many is waited for.
LastMiscounted(c) == call[c].next = Len(PartsOf(c)) + 1

\* The file being written is the last of the asset's.
LastPart(c) == call[c].next = Len(PartsOf(c))

Close(c) ==
  /\ call[c].pc = "write"
  /\ disk' = [disk EXCEPT ![Dir(c)][Part(c)].state =
                IF disk[Dir(c)][Part(c)].writer = c THEN "whole" ELSE @]
  /\ IF LastPart(c)
     THEN /\ call' = [call EXCEPT ![c].pc = "handed", ![c].path = PathOf(c)]
          /\ fetched' = fetched \cup {call[c].want}
     ELSE /\ call' = [call EXCEPT ![c].pc = "fetch", ![c].next = @ + 1]
          /\ UNCHANGED fetched
  /\ UNCHANGED <<disturbed, extracted, crossed, imported>>

\* The provider fails, the call is cancelled, or its server ends: files stay as they are.
BreaksOff(c) ==
  /\ call[c].pc = "write" \/ (call[c].pc = "fetch" /\ call[c].next > 1)
  /\ call' = [call EXCEPT ![c].pc = "done"]
  /\ disturbed' = disturbed \cup {Dir(c)}
  /\ UNCHANGED <<disk, fetched, extracted, crossed, imported>>

\* The same before anything was written, a cut archive (BadZipFile), a server that ends
\* while it unpacks one, or Blender refuses the import.
Fails(c) ==
  /\ \/ call[c].pc \in {"request", "handed", "extract"}
     \/ call[c].pc = "fetch" /\ call[c].next = 1
  /\ call' = [call EXCEPT ![c].pc = "done"]
  /\ UNCHANGED <<disk, fetched, disturbed, extracted, crossed, imported>>
---------------------------------------------------------------------------
(* Unpacking an archive: at every import, in place, file by file, while    *)
(* other servers do the same or have Blender read what they unpacked.      *)

Unpacking(c) == call[c].pc = "extract"

\* Blender has yet to read, or is reading, what the call unpacked.
Unpacked(c) == call[c].pc = "handed" /\ call[c].path = "extracted"

\* _extract_archive begins, and truncates what is there.
ExtractArchive(c) ==
  /\ call[c].pc = "handed"
  /\ call[c].path = "archive"
  /\ disk[Dir(c)]["archive"].state = "whole"
  /\ call' = [call EXCEPT ![c].pc = "extract"]
  /\ extracted' = "partial"
  /\ crossed' = crossed
       \cup {d \in Calls \ {c} : Unpacking(d) \/ Unpacked(d)}
       \cup {d \in {c} : \E e \in Calls \ {c} : Unpacking(e)}
  /\ UNCHANGED <<disk, fetched, disturbed, imported>>

\* What a call leaves: all files, but for those another one has truncated since.
Unpacks(c) == {"whole"} \cup (IF c \in crossed THEN {"partial"} ELSE {})

ArchiveExtracted(c) ==
  /\ Unpacking(c)
  /\ call' = [call EXCEPT ![c].pc = "handed", ![c].path = "extracted"]
  /\ extracted' \in Unpacks(c)
  /\ UNCHANGED <<disk, fetched, disturbed, crossed, imported>>
---------------------------------------------------------------------------
(* Importing it, after the status line was set.                            *)

\* A .gltf is read with the files it names.
Read(c) ==
  CASE call[c].path = "textures" -> Present(Dir(c)) \cap Maps
    [] call[c].path = "main" -> {"main", "bin", "map 1"}
    [] OTHER -> {call[c].path}

\* Blender is given all of what was asked for, and all of it is there.
IsTheAsset(c) ==
  \/ /\ call[c].path = "extracted"
     /\ call[c].want = "archive"
     /\ extracted = "whole"
  \/ /\ call[c].path # "extracted"
     /\ Read(c) = Range(PartsOf(c))
     /\ \A f \in Read(c) : disk[Dir(c)][f].state = "whole"

Import(c) ==
  /\ call[c].pc = "handed"
  /\ call[c].path # "archive"
  /\ call' = [call EXCEPT ![c].pc = "done"]
  /\ imported' = imported \cup
       {[want |-> call[c].want, cached |-> call[c].cached, crossed |-> c \in crossed,
         right |-> IsTheAsset(c)]}
  /\ UNCHANGED <<disk, fetched, disturbed, extracted, crossed>>
---------------------------------------------------------------------------
Next ==
  \E c \in Calls :
    \/ \E a \in Assets : Start(c, a)
    \/ Hit(c) \/ Miss(c) \/ Request(c) \/ Open(c) \/ Close(c) \/ BreaksOff(c) \/ Fails(c)
    \/ ExtractArchive(c) \/ ArchiveExtracted(c) \/ Import(c)

Spec == Init /\ [][Next]_vars
---------------------------------------------------------------------------
(* Properties.                                                             *)

\* Every call, directory and history record is of its kind.
TypeOK ==
  /\ call \in [Calls -> Call]
  /\ \A c \in Calls : call[c].pc \in {"fetch", "write"} => call[c].next <= Len(PartsOf(c))
  /\ \A c \in Calls : call[c].pc = "handed" => call[c].path # "none"
  /\ disk \in [Dirs -> [Files -> File]]
  /\ \A d \in Dirs, f \in Files : disk[d][f].state = "absent" <=> disk[d][f].writer = NoCall
  /\ fetched \subseteq Assets
  /\ disturbed \subseteq Dirs
  /\ extracted \in States
  /\ crossed \subseteq Calls
  /\ imported \subseteq [want : Assets, cached : BOOLEAN, crossed : BOOLEAN, right : BOOLEAN]

\* What a lookup in the directory of the generated assets lists.
Listed == {"plain", "reduced", "twin"}

\* What the code does not promise: a cached model is found as its textures/ or its .bin
\* (cache.py:24-30), and a lookup takes whatever else was generated into the directory,
\* with a budget or for an id that sanitises to the same name (cache.py:10).
FoundAsSomethingElse(a) ==
  \/ a = "model"
  \/ DirOf(a) = "generated" /\ fetched \cap (Listed \ {a}) # {}

\* Blender is given all files of the asset that was asked for, each of them whole, from
\* the network or from the cache, as long as no download of the asset broke off, none had
\* another call for it beside it, and no other call unpacked the same archive in place
\* while this one did or had Blender read it (asset_source_ops.py:92-97, 229-305).
ImportedIsTheAsset ==
  \A e \in imported :
    \/ e.right
    \/ DirOf(e.want) \in disturbed
    \/ e.crossed
    \/ e.cached /\ FoundAsSomethingElse(e.want)

\* "Re-importing the same asset_id is a disk hit instead of a re-download" (cache.py:1-3):
\* no provider is asked a second time for what was downloaded once, whatever became of
\* other calls for it.  The code keeps it neither for a generation with a budget, whose
\* directory is looked up under another name, nor for an id with a slash, whose file is
\* put where no lookup lists it (meshy.py:189 and 274, tripo.py:138, trellis.py:101).
FetchedOnce ==
  [][\A c \in Calls :
       Miss(c) => call[c].want \in NeverFound \/ call[c].want \notin fetched]_vars
===========================================================================
