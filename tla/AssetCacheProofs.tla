------------------------- MODULE AssetCacheProofs -------------------------
(***************************************************************************)
(* Theorems about AssetCache, for every number of calls: what is on disk   *)
(* of an asset that nothing disturbed, what the lookup makes of it, and    *)
(* what Blender is given.                                                  *)
(***************************************************************************)
EXTENDS AssetCache, TLAPS

Opened(c) == call[c].pc = "write"

Whole(d, f) == disk[d][f].state = "whole"

AllWhole(c) == \A f \in Range(PartsOf(c)) : Whole(Dir(c), f)

\* A call starts with the first file.
Placed ==
  \A c \in Calls : call[c].pc \in {"unused", "lookup", "request"} => call[c].next = 1

\* Only files of its assets are in a directory.
Laid ==
  \A d \in Dirs : \A f \in Present(d) : \E a \in Assets : DirOf(a) = d /\ f \in Range(Parts(a))

\* What a call has opened is there, so is what was fetched and what was found.
OpenedIsThere ==
  \A c \in Calls : \A i \in 1..Len(PartsOf(c)) :
    Downloading(c) /\ (i < call[c].next \/ (i = call[c].next /\ Opened(c)))
      => PartsOf(c)[i] \in Present(Dir(c))

FetchedIsThere ==
  \A a \in fetched : Range(Parts(a)) \subseteq Present(DirOf(a))

\* The call has its asset, and Blender was not yet given all of it.
Held(c) == call[c].pc \in {"handed", "extract"}

Visible(d) == Present(d) \ {"nested"}

HandedIsThere ==
  \A c \in Calls : Held(c) /\ call[c].want # "nested" => Visible(Dir(c)) # {}

\* Without another call beside it, a call leaves the archive unpacked.
Uncrossed ==
  \A c \in Calls :
    Unpacking(c) \/ Unpacked(c)
      => /\ call[c].want = "archive"
         /\ c \notin crossed => /\ \A e \in Calls \ {c} : ~Unpacking(e)
                                /\ Unpacked(c) => extracted = "whole"

\* The calls for an asset do not meet.
Alone(d) ==
  \A c, e \in Calls :
    c # e /\ Dir(c) = d /\ Dir(e) = d /\ Downloading(c)
      => /\ ~Downloading(e)
         /\ Held(e) => d = "generated" /\ call[c].want # call[e].want

\* A call's files are whole up to the one that it writes, and only that one is not.
InTurn(d) ==
  /\ \A f \in Files :
       disk[d][f].state = "partial" => \E c \in Calls : Dir(c) = d /\ Opened(c) /\ Part(c) = f
  /\ \A c \in Calls : Dir(c) = d /\ Opened(c) => disk[d][Part(c)].writer = c
  /\ \A c \in Calls : \A i \in 1..Len(PartsOf(c)) :
       Dir(c) = d /\ Downloading(c) /\ i < call[c].next => Whole(d, PartsOf(c)[i])

\* Unless it is being downloaded, all of an asset is there, or nothing.
AllOrNothing(d) ==
  /\ d # "generated" /\ Present(d) # {} /\ (\A c \in Calls : Dir(c) = d => ~Downloading(c))
       => \A f \in Range(Parts(d)) : Whole(d, f)
  /\ d # "generated" =>
       \A c \in Calls :
         Dir(c) = d /\ Downloading(c) /\ call[c].next = 1 /\ ~Opened(c) => Present(d) = {}
  /\ d = "generated" =>
       \A f \in Present(d) \ fetched : \E c \in Calls : call[c].want = f /\ Opened(c)

\* What is handed to Blender is the asset, or what a cached one may be found as.
InHand(d) ==
  \A c \in Calls :
    Dir(c) = d /\ Held(c)
      => \/ call[c].path = "extracted"
         \/ call[c].path = PathOf(c) /\ AllWhole(c)
         \/ call[c].cached /\ FoundAsSomethingElse(call[c].want)

InOrder(d) == Alone(d) /\ InTurn(d) /\ AllOrNothing(d) /\ InHand(d)

Undisturbed == \A d \in Dirs \ disturbed : InOrder(d)

IInv ==
  /\ TypeOK /\ Placed /\ Laid
  /\ OpenedIsThere /\ FetchedIsThere /\ HandedIsThere
  /\ Uncrossed /\ Undisturbed /\ ImportedIsTheAsset
---------------------------------------------------------------------------
(* What the operators give.                                                *)

LEMMA NamesAre ==
  /\ DOMAIN Names = 1..9 /\ Len(Names) = 9
  /\ Names[1] = "archive" /\ Names[2] = "bin" /\ Names[3] = "main"
  /\ Names[4] = "plain" /\ Names[5] = "reduced" /\ Names[6] = "twin"
  /\ Names[7] = "map 1" /\ Names[8] = "map 2" /\ Names[9] = "nested"
  BY DEF Names

\* The places of the names.
LEMMA PlacesAre ==
  /\ \A i \in 1..9 :
       i = 1 \/ i = 2 \/ i = 3 \/ i = 4 \/ i = 5 \/ i = 6 \/ i = 7 \/ i = 8 \/ i = 9
  /\ 1 \in 1..9 /\ 2 \in 1..9 /\ 3 \in 1..9 /\ 4 \in 1..9 /\ 5 \in 1..9
  /\ 6 \in 1..9 /\ 7 \in 1..9 /\ 8 \in 1..9 /\ 9 \in 1..9
  OBVIOUS

LEMMA FilesAre ==
  Files = {"archive", "bin", "main", "plain", "reduced", "twin", "map 1", "map 2", "nested"}
<1> DEFINE S == {"archive", "bin", "main", "plain", "reduced", "twin", "map 1", "map 2", "nested"}
<1>1. Files = {Names[i] : i \in 1..9}
  BY NamesAre DEF Files, Range
<1>2. /\ Names[1] = "archive" /\ Names[2] = "bin" /\ Names[3] = "main"
      /\ Names[4] = "plain" /\ Names[5] = "reduced" /\ Names[6] = "twin"
      /\ Names[7] = "map 1" /\ Names[8] = "map 2" /\ Names[9] = "nested"
  BY NamesAre
<1>3. \A f \in S : f \in Files
  <2>1. \A i \in 1..9 : Names[i] \in Files
    BY <1>1
  <2>2. QED
    BY <1>2, <2>1, PlacesAre
<1>4. \A f \in Files : f \in S
  BY <1>1, <1>2, PlacesAre
<1>5. QED
  BY <1>3, <1>4

\* What each asset consists of.
LEMMA PartsAre ==
  /\ \A a \in {"archive", "plain", "reduced", "twin", "nested"} :
       Len(Parts(a)) = 1 /\ DOMAIN Parts(a) = 1..1 /\ Parts(a)[1] = a
  /\ Len(Parts("maps")) = 2 /\ DOMAIN Parts("maps") = 1..2
  /\ Parts("maps")[1] = "map 1" /\ Parts("maps")[2] = "map 2"
  /\ Len(Parts("model")) = 3 /\ DOMAIN Parts("model") = 1..3
  /\ Parts("model")[1] = "main" /\ Parts("model")[2] = "bin" /\ Parts("model")[3] = "map 1"
<1>1. ASSUME NEW a \in {"archive", "plain", "reduced", "twin", "nested"}
      PROVE  Len(Parts(a)) = 1 /\ DOMAIN Parts(a) = 1..1 /\ Parts(a)[1] = a
  <2> DEFINE t == <<a>>
  <2>1. Len(t) = 1 /\ DOMAIN t = 1..1 /\ t[1] = a
    OBVIOUS
  <2>2. Parts(a) = t
    BY DEF Parts
  <2> HIDE DEF t
  <2>3. QED
    BY <2>1, <2>2
<1>2. /\ Len(Parts("maps")) = 2 /\ DOMAIN Parts("maps") = 1..2
      /\ Parts("maps")[1] = "map 1" /\ Parts("maps")[2] = "map 2"
  <2> DEFINE t == <<"map 1", "map 2">>
  <2>1. Len(t) = 2 /\ DOMAIN t = 1..2 /\ t[1] = "map 1" /\ t[2] = "map 2"
    OBVIOUS
  <2>2. Parts("maps") = t
    BY DEF Parts
  <2> HIDE DEF t
  <2>3. QED
    BY <2>1, <2>2
<1>3. /\ Len(Parts("model")) = 3 /\ DOMAIN Parts("model") = 1..3
      /\ Parts("model")[1] = "main" /\ Parts("model")[2] = "bin" /\ Parts("model")[3] = "map 1"
  <2> DEFINE t == <<"main", "bin", "map 1">>
  <2>1. Len(t) = 3 /\ DOMAIN t = 1..3 /\ t[1] = "main" /\ t[2] = "bin" /\ t[3] = "map 1"
    OBVIOUS
  <2>2. Parts("model") = t
    BY DEF Parts
  <2> HIDE DEF t
  <2>3. QED
    BY <2>1, <2>2
<1>4. QED
  BY <1>1, <1>2, <1>3

\* Its files, as a set.
LEMMA FilesOfParts ==
  /\ \A a \in {"archive", "plain", "reduced", "twin", "nested"} : Range(Parts(a)) = {a}
  /\ Range(Parts("maps")) = {"map 1", "map 2"}
  /\ Range(Parts("model")) = {"main", "bin", "map 1"}
<1>1. \A i : /\ i \in 1..1 <=> i = 1
             /\ i \in 1..2 <=> i = 1 \/ i = 2
             /\ i \in 1..3 <=> i = 1 \/ i = 2 \/ i = 3
  OBVIOUS
<1>2. \A a \in {"archive", "plain", "reduced", "twin", "nested"} : Range(Parts(a)) = {a}
  BY <1>1, PartsAre, ZenonT(60) DEF Range
<1>3. Range(Parts("maps")) = {"map 1", "map 2"}
  BY <1>1, PartsAre, ZenonT(60) DEF Range
<1>4. Range(Parts("model")) = {"main", "bin", "map 1"}
  BY <1>1, PartsAre, ZenonT(60) DEF Range
<1>5. QED
  BY <1>2, <1>3, <1>4

\* An asset has one to three files, each once.
LEMMA PartsAreFiles ==
  ASSUME NEW a \in Assets
  PROVE  /\ Len(Parts(a)) \in 1..3
         /\ \A i \in 1..Len(Parts(a)) : Parts(a)[i] \in Files
         /\ \A i, j \in 1..Len(Parts(a)) : Parts(a)[i] = Parts(a)[j] => i = j
         /\ Range(Parts(a)) = {Parts(a)[i] : i \in 1..Len(Parts(a))}
         /\ Range(Parts(a)) # {} /\ Range(Parts(a)) \subseteq Files
<1>1. /\ Len(Parts(a)) \in 1..3 /\ DOMAIN Parts(a) = 1..Len(Parts(a))
      /\ \A i \in 1..Len(Parts(a)) : Parts(a)[i] \in Files
      /\ \A i, j \in 1..Len(Parts(a)) : Parts(a)[i] = Parts(a)[j] => i = j
  <2>0. \A i : /\ i \in 1..1 <=> i = 1
               /\ i \in 1..2 <=> i = 1 \/ i = 2
               /\ i \in 1..3 <=> i = 1 \/ i = 2 \/ i = 3
    OBVIOUS
  <2> DEFINE Good(p) ==
        /\ Len(p) \in 1..3 /\ DOMAIN p = 1..Len(p)
        /\ \A i \in 1..Len(p) : p[i] \in Files
        /\ \A i, j \in 1..Len(p) : p[i] = p[j] => i = j
  <2>1. ASSUME NEW p, NEW f \in Files, Len(p) = 1, DOMAIN p = 1..1, p[1] = f
        PROVE  Good(p)
    BY <2>0, <2>1
  <2>2. ASSUME NEW p, NEW f \in Files, NEW g \in Files, f # g,
               Len(p) = 2, DOMAIN p = 1..2, p[1] = f, p[2] = g
        PROVE  Good(p)
    BY <2>0, <2>2
  <2>3. ASSUME NEW p, NEW f \in Files, NEW g \in Files, NEW h \in Files, f # g, f # h, g # h,
               Len(p) = 3, DOMAIN p = 1..3, p[1] = f, p[2] = g, p[3] = h
        PROVE  Good(p)
    BY <2>0, <2>3
  <2> HIDE DEF Good
  <2>4. \A b \in {"archive", "plain", "reduced", "twin", "nested"} : Good(Parts(b))
    BY <2>1, PartsAre, FilesAre
  <2>5. Good(Parts("maps"))
    BY <2>2, PartsAre, FilesAre
  <2>6. Good(Parts("model"))
    BY <2>3, PartsAre, FilesAre
  <2>7. Good(Parts(a))
    BY <2>4, <2>5, <2>6 DEF Assets
  <2>8. QED
    BY <2>7 DEF Good
<1>2. QED
  BY <1>1 DEF Range

\* A set of the numbers from 1 to 9 has a least one.
LEMMA LeastOfNine ==
  ASSUME NEW S \in SUBSET (1..9), S # {}
  PROVE  \E i \in S : \A j \in S : i <= j
<1> SUFFICES ASSUME ~\E i \in S : \A j \in S : i <= j PROVE FALSE
  OBVIOUS
<1>0. \A i \in S : i \in Nat /\ 1 <= i /\ i <= 9
  OBVIOUS
<1>1. \A i \in S : \E j \in S : j < i
  BY <1>0
<1>2. 1 \notin S
  BY <1>0, <1>1
<1>3. 2 \notin S
  BY <1>0, <1>1, <1>2
<1>4. 3 \notin S
  BY <1>0, <1>1, <1>2, <1>3
<1>5. 4 \notin S
  BY <1>0, <1>1, <1>2, <1>3, <1>4
<1>6. 5 \notin S
  BY <1>0, <1>1, <1>2, <1>3, <1>4, <1>5
<1>7. 6 \notin S
  BY <1>0, <1>1, <1>2, <1>3, <1>4, <1>5, <1>6
<1>8. 7 \notin S
  BY <1>0, <1>1, <1>2, <1>3, <1>4, <1>5, <1>6, <1>7
<1>9. 8 \notin S
  BY <1>0, <1>1, <1>2, <1>3, <1>4, <1>5, <1>6, <1>7, <1>8
<1>10. 9 \notin S
  BY <1>0, <1>1, <1>2, <1>3, <1>4, <1>5, <1>6, <1>7, <1>8, <1>9
<1>11. \A i \in S : i \in {1, 2, 3, 4, 5, 6, 7, 8, 9}
  BY <1>0
<1>12. QED
  BY <1>11, <1>2, <1>3, <1>4, <1>5, <1>6, <1>7, <1>8, <1>9, <1>10

\* A lookup fails only if nothing is listed, and otherwise finds the maps or a file.
LEMMA FindCachedFileFinds ==
  ASSUME NEW d \in Dirs
  PROVE  /\ FindCachedFile(d) = "none" <=> Visible(d) = {}
         /\ FindCachedFile(d) \in Files \cup {"none", "textures"}
         /\ Present(d) \cap Maps # {} => FindCachedFile(d) = "textures"
         /\ Visible(d) # {} /\ Present(d) \cap Maps = {}
              => FindCachedFile(d) \in Visible(d) \ Maps
<1> DEFINE loose == {i \in DOMAIN Names : Names[i] \in Present(d) \ (Maps \cup {"nested"})}
           least == CHOOSE i \in loose : \A j \in loose : i <= j
<1>1. /\ DOMAIN Names = 1..9 /\ Files = {Names[i] : i \in 1..9}
      /\ \A i \in 1..9 : Names[i] \in Files
      /\ \A f \in Files : \E i \in 1..9 : Names[i] = f
  BY NamesAre DEF Files, Range
<1>2. FirstLoose(d) = IF loose = {} THEN "none" ELSE Names[least]
  BY DEF FirstLoose
<1>3. ASSUME loose # {}
      PROVE  least \in loose
  <2>1. loose \in SUBSET (1..9)
    BY <1>1
  <2> HIDE DEF loose
  <2>2. \E i \in loose : \A j \in loose : i <= j
    BY <1>3, <2>1, LeastOfNine
  <2>3. QED
    BY <2>2
<1>4. loose # {} => FirstLoose(d) \in Visible(d) \ Maps
  BY <1>2, <1>3 DEF Visible
<1>5. Present(d) \subseteq Files /\ "none" \notin Files /\ "textures" \notin Files
  BY FilesAre DEF Present
<1>6. loose = {} <=> Visible(d) \ Maps = {}
  BY <1>1, <1>5 DEF Visible
<1>7. "nested" \notin Maps
  BY DEF Maps
<1> HIDE DEF loose, least
<1>8. QED
  BY <1>2, <1>4, <1>5, <1>6, <1>7 DEF FindCachedFile, Visible
---------------------------------------------------------------------------
(* What the actions do.                                                    *)

\* The records of calls, field by field.
LEMMA CallIs ==
  Call = [pc : {"unused", "lookup", "request", "fetch", "write", "handed", "extract", "done"},
          want : Assets, next : 1..10, cached : BOOLEAN,
          path : Files \cup {"none", "textures", "extracted"}]
<1>1. Len(Names) = 9
  BY NamesAre
<1>2. Len(Names) + 1 = 10
  BY <1>1
<1>3. QED
  BY <1>2 DEF Call

\* What there is to know of a call.
LEMMA TypedCall ==
  ASSUME TypeOK, NEW c \in Calls
  PROVE  /\ call[c] \in Call /\ call[c].want \in Assets /\ Dir(c) \in Dirs
         /\ call[c].next \in 1..10 /\ call[c].cached \in BOOLEAN
         /\ call[c].path \in Files \cup {"none", "textures", "extracted"}
         /\ call[c].pc \in {"unused", "lookup", "request", "fetch", "write", "handed", "extract", "done"}
         /\ call[c].pc \in {"fetch", "write"} =>
              /\ call[c].next \in 1..Len(PartsOf(c))
              /\ Part(c) \in Files /\ Part(c) \in Range(PartsOf(c))
         /\ Len(PartsOf(c)) \in 1..3
<1>1. call[c] \in Call
  BY DEF TypeOK
<1>2. /\ call[c].want \in Assets /\ call[c].next \in 1..10 /\ call[c].cached \in BOOLEAN
      /\ call[c].path \in Files \cup {"none", "textures", "extracted"}
      /\ call[c].pc \in {"unused", "lookup", "request", "fetch", "write", "handed", "extract", "done"}
  BY <1>1, CallIs
<1>3. Dir(c) \in Dirs
  BY <1>2 DEF Dir, DirOf, Dirs, Assets
<1>4. Len(PartsOf(c)) \in 1..3
  BY <1>2, PartsAreFiles DEF PartsOf
<1>5. ASSUME call[c].pc \in {"fetch", "write"}
      PROVE  call[c].next \in 1..Len(PartsOf(c))
  BY <1>2, <1>4, <1>5 DEF TypeOK
<1>6. ASSUME call[c].pc \in {"fetch", "write"}
      PROVE  Part(c) \in Files /\ Part(c) \in Range(PartsOf(c))
  BY <1>2, <1>5, <1>6, PartsAreFiles DEF PartsOf, Part
<1>7. QED
  BY <1>1, <1>2, <1>3, <1>4, <1>5, <1>6

\* The call c, and no other, is in a new state.
Becomes(c, r) ==
  /\ r \in Call
  /\ call'[c] = r
  /\ \A e \in Calls \ {c} : call'[e] = call[e]

LEMMA StartDoes ==
  ASSUME TypeOK, NEW c \in Calls, NEW a \in Assets, Start(c, a)
  PROVE  /\ call' \in [Calls -> Call]
         /\ Becomes(c, [Unused EXCEPT !.pc = "lookup", !.want = a])
         /\ call[c].pc = "unused"
         /\ call'[c].pc = "lookup" /\ call'[c].next = 1 /\ call'[c].want = a
<1>1. [Unused EXCEPT !.pc = "lookup", !.want = a] \in Call
  <2>1. 1 \in 1..10 /\ "archive" \in Assets
    BY DEF Assets
  <2>2. Unused \in Call
    BY <2>1, CallIs DEF Unused
  <2>3. QED
    BY <2>2, CallIs
<1>2. call' \in [Calls -> Call] /\ Becomes(c, [Unused EXCEPT !.pc = "lookup", !.want = a])
  BY <1>1 DEF Start, TypeOK, Becomes
<1>3. c >= c
  BY DEF Calls
<1>4. Unused \in Call /\ Unused.next = 1
  <2>1. 1 \in 1..10 /\ "archive" \in Assets
    BY DEF Assets
  <2>2. QED
    BY <2>1, CallIs DEF Unused
<1>5. call'[c].pc = "lookup" /\ call'[c].next = 1 /\ call'[c].want = a
  BY <1>2, <1>4, CallIs DEF Becomes
<1>6. QED
  BY <1>2, <1>3, <1>5 DEF Start

LEMMA HitDoes ==
  ASSUME TypeOK, NEW c \in Calls, Hit(c)
  PROVE  /\ call' \in [Calls -> Call]
         /\ call'[c].pc = "handed" /\ call'[c].cached /\ call'[c].path = Found(c)
         /\ call'[c].want = call[c].want
         /\ \A e \in Calls \ {c} : call'[e] = call[e]
         /\ Found(c) \in Files \cup {"textures"}
<1>1. Found(c) \in Files \cup {"textures"}
  BY TypedCall, FindCachedFileFinds DEF Hit, Found
<1>2. [call[c] EXCEPT !.pc = "handed", !.cached = TRUE, !.path = Found(c)] \in Call
  BY <1>1, TypedCall, CallIs
<1>3. Becomes(c, [call[c] EXCEPT !.pc = "handed", !.cached = TRUE, !.path = Found(c)])
  BY <1>2 DEF Hit, TypeOK, Becomes
<1>4. call' \in [Calls -> Call]
  BY <1>2 DEF Hit, TypeOK
<1>5. QED
  BY <1>1, <1>3, <1>4, TypedCall, CallIs DEF Becomes

\* The call c goes to p, and is otherwise as it was.
Moves(c, p) ==
  /\ call' \in [Calls -> Call]
  /\ call'[c].pc = p
  /\ call'[c].want = call[c].want /\ call'[c].next = call[c].next
  /\ call'[c].cached = call[c].cached /\ call'[c].path = call[c].path
  /\ \A e \in Calls \ {c} : call'[e] = call[e]

LEMMA MoveDoes ==
  ASSUME TypeOK, NEW c \in Calls,
         NEW p \in {"request", "fetch", "write", "extract", "done"},
         call' = [call EXCEPT ![c].pc = p]
  PROVE  Moves(c, p)
<1>1. [call[c] EXCEPT !.pc = p] \in Call
  BY TypedCall, CallIs
<1>2. call' \in [Calls -> Call] /\ Becomes(c, [call[c] EXCEPT !.pc = p])
  BY <1>1 DEF TypeOK, Becomes
<1>3. QED
  BY <1>2, TypedCall, CallIs DEF Becomes, Moves

LEMMA ActionsMove ==
  ASSUME TypeOK, NEW c \in Calls
  PROVE  /\ Miss(c) => Moves(c, "request")
         /\ Request(c) => Moves(c, "fetch")
         /\ Open(c) => Moves(c, "write")
         /\ ExtractArchive(c) => Moves(c, "extract")
         /\ BreaksOff(c) \/ Fails(c) \/ Import(c) => Moves(c, "done")
<1>1. Miss(c) => Moves(c, "request")
  BY MoveDoes DEF Miss
<1>2. Request(c) => Moves(c, "fetch")
  BY MoveDoes DEF Request
<1>3. Open(c) => Moves(c, "write")
  BY MoveDoes DEF Open
<1>4. BreaksOff(c) \/ Fails(c) \/ Import(c) => call' = [call EXCEPT ![c].pc = "done"]
  BY DEF BreaksOff, Fails, Import
<1>5. ExtractArchive(c) => Moves(c, "extract")
  BY MoveDoes DEF ExtractArchive
<1>6. QED
  BY <1>1, <1>2, <1>3, <1>4, <1>5, MoveDoes

LEMMA ArchiveExtractedDoes ==
  ASSUME TypeOK, NEW c \in Calls, ArchiveExtracted(c)
  PROVE  /\ call' \in [Calls -> Call]
         /\ call'[c].pc = "handed" /\ call'[c].path = "extracted"
         /\ call'[c].want = call[c].want
         /\ \A e \in Calls \ {c} : call'[e] = call[e]
<1>1. [call[c] EXCEPT !.pc = "handed", !.path = "extracted"] \in Call
  BY TypedCall, CallIs
<1>2. Becomes(c, [call[c] EXCEPT !.pc = "handed", !.path = "extracted"])
  BY <1>1 DEF ArchiveExtracted, TypeOK, Becomes
<1>3. call' \in [Calls -> Call]
  BY <1>1 DEF ArchiveExtracted, TypeOK
<1>4. QED
  BY <1>2, <1>3, TypedCall, CallIs DEF Becomes

\* A download that has another file to write, or is complete.
LEMMA CloseDoes ==
  ASSUME TypeOK, NEW c \in Calls, Close(c)
  PROVE  /\ call' \in [Calls -> Call]
         /\ call'[c].want = call[c].want
         /\ \A e \in Calls \ {c} : call'[e] = call[e]
         /\ LastPart(c) => /\ call'[c].pc = "handed" /\ call'[c].path = PathOf(c)
                           /\ PathOf(c) \in Files \cup {"textures"}
                           /\ fetched' = fetched \cup {call[c].want}
         /\ ~LastPart(c) => /\ call'[c].pc = "fetch" /\ call'[c].next = call[c].next + 1
                            /\ call[c].next + 1 \in 2..Len(PartsOf(c))
                            /\ fetched' = fetched
<1>1. call[c].pc = "write" /\ call[c].next \in 1..Len(PartsOf(c)) /\ Len(PartsOf(c)) \in 1..3
  BY TypedCall DEF Close
<1>2. CASE LastPart(c)
  <2>1. PathOf(c) \in Files \cup {"textures"}
    BY <1>1, TypedCall, PartsAreFiles DEF PathOf, PartsOf
  <2>2. [call[c] EXCEPT !.pc = "handed", !.path = PathOf(c)] \in Call
    BY <2>1, TypedCall, CallIs
  <2>3. /\ call' \in [Calls -> Call]
        /\ Becomes(c, [call[c] EXCEPT !.pc = "handed", !.path = PathOf(c)])
    BY <1>2, <2>2 DEF Close, TypeOK, Becomes
  <2>4. /\ call'[c].pc = "handed" /\ call'[c].path = PathOf(c)
        /\ call'[c].want = call[c].want
    BY <2>3, TypedCall, CallIs DEF Becomes
  <2>5. QED
    BY <1>2, <2>1, <2>3, <2>4 DEF Close, Becomes
<1>3. CASE ~LastPart(c)
  <2>1. call[c].next + 1 \in 2..Len(PartsOf(c))
    BY <1>1, <1>3 DEF LastPart
  <2>2. call[c].next + 1 \in 1..10
    <3>1. ASSUME NEW n \in Int, NEW l \in 1..3, n \in 2..l
          PROVE  n \in 1..10
      BY <3>1
    <3>2. call[c].next + 1 \in Int
      BY <1>1
    <3>3. QED
      BY <1>1, <2>1, <3>1, <3>2
  <2> DEFINE r == [call[c] EXCEPT !.pc = "fetch", !.next = @ + 1]
  <2>3. r \in Call
    BY <2>2, TypedCall, CallIs
  <2>4. call' \in [Calls -> Call] /\ Becomes(c, r)
    BY <1>3, <2>3 DEF Close, TypeOK, Becomes
  <2>5. r.pc = "fetch" /\ r.next = call[c].next + 1 /\ r.want = call[c].want
    BY TypedCall, CallIs
  <2> HIDE DEF r
  <2>6. QED
    BY <1>3, <2>1, <2>4, <2>5 DEF Close, Becomes
<1>4. QED
  BY <1>2, <1>3

\* A step on disk changes one file, and leaves every file that was there.
LEMMA OpenDoes ==
  ASSUME TypeOK, NEW c \in Calls, Open(c)
  PROVE  /\ Dir(c) \in Dirs /\ Part(c) \in Files
         /\ disk' \in [Dirs -> [Files -> File]]
         /\ disk'[Dir(c)][Part(c)].state = "partial" /\ disk'[Dir(c)][Part(c)].writer = c
         /\ \A d \in Dirs, f \in Files :
              d # Dir(c) \/ f # Part(c) => disk'[d][f] = disk[d][f]
<1>1. Dir(c) \in Dirs /\ Part(c) \in Files
  BY TypedCall DEF Open
<1>2. [state |-> "partial", writer |-> c] \in File
  BY DEF File, States
<1>3. /\ disk' \in [Dirs -> [Files -> File]]
      /\ disk'[Dir(c)][Part(c)] = [state |-> "partial", writer |-> c]
      /\ \A d \in Dirs, f \in Files :
           d # Dir(c) \/ f # Part(c) => disk'[d][f] = disk[d][f]
  BY <1>1, <1>2 DEF Open, TypeOK
<1>4. QED
  BY <1>1, <1>3

LEMMA CloseWrites ==
  ASSUME TypeOK, NEW c \in Calls, Close(c)
  PROVE  /\ Dir(c) \in Dirs /\ Part(c) \in Files
         /\ disk' \in [Dirs -> [Files -> File]]
         /\ disk'[Dir(c)][Part(c)].writer = disk[Dir(c)][Part(c)].writer
         /\ disk'[Dir(c)][Part(c)].state =
              IF disk[Dir(c)][Part(c)].writer = c THEN "whole" ELSE disk[Dir(c)][Part(c)].state
         /\ \A d \in Dirs, f \in Files :
              d # Dir(c) \/ f # Part(c) => disk'[d][f] = disk[d][f]
<1> DEFINE s == IF disk[Dir(c)][Part(c)].writer = c THEN "whole" ELSE disk[Dir(c)][Part(c)].state
<1>1. Dir(c) \in Dirs /\ Part(c) \in Files
  BY TypedCall DEF Close
<1>2. disk[Dir(c)][Part(c)] \in File /\ s \in States
  BY <1>1 DEF TypeOK, File, States
<1>3. disk' = [disk EXCEPT ![Dir(c)][Part(c)].state = s]
  BY DEF Close
<1> HIDE DEF s
<1>4. [disk[Dir(c)][Part(c)] EXCEPT !.state = s] \in File
  BY <1>2 DEF File
<1>5. /\ disk' \in [Dirs -> [Files -> File]]
      /\ disk'[Dir(c)][Part(c)] = [disk[Dir(c)][Part(c)] EXCEPT !.state = s]
      /\ \A d \in Dirs, f \in Files :
              d # Dir(c) \/ f # Part(c) => disk'[d][f] = disk[d][f]
  BY <1>1, <1>3, <1>4 DEF TypeOK
<1>6. /\ disk'[Dir(c)][Part(c)].writer = disk[Dir(c)][Part(c)].writer
      /\ disk'[Dir(c)][Part(c)].state = s
  BY <1>2, <1>5 DEF File
<1>7. QED
  BY <1>1, <1>5, <1>6 DEF s
---------------------------------------------------------------------------
(* Where the variables take their values.                                  *)

LEMMA TypeInit == Init => TypeOK /\ Placed
<1> SUFFICES ASSUME Init PROVE TypeOK /\ Placed
  OBVIOUS
<1>1. Unused \in Call /\ Unused.pc = "unused" /\ Unused.next = 1
  <2>1. 1 \in 1..10 /\ "archive" \in Assets
    BY DEF Assets
  <2>2. QED
    BY <2>1, CallIs DEF Unused
<1>2. /\ call \in [Calls -> Call]
      /\ \A c \in Calls : call[c].pc = "unused" /\ call[c].next = 1
  BY <1>1 DEF Init
<1>3. [state |-> "absent", writer |-> NoCall] \in File
  BY DEF File, States
<1>4. /\ disk \in [Dirs -> [Files -> File]]
      /\ \A d \in Dirs, f \in Files :
           disk[d][f].state = "absent" /\ disk[d][f].writer = NoCall
  BY <1>3 DEF Init
<1>5. QED
  BY <1>2, <1>4 DEF Init, TypeOK, Placed, States

\* What the other calls are does not change, and a call stays within its parts.
LEMMA TypedAfter ==
  ASSUME TypeOK, Placed, NEW c \in Calls, call' \in [Calls -> Call],
         \A e \in Calls \ {c} : call'[e] = call[e],
         call'[c].pc \in {"fetch", "write"} =>
           call'[c].want = call[c].want /\ call'[c].next \in 1..Len(PartsOf(c)),
         call'[c].pc = "handed" => call'[c].path # "none",
         call'[c].pc \in {"unused", "lookup", "request"} => call'[c].next = 1
  PROVE  /\ call' \in [Calls -> Call]
         /\ \A e \in Calls : call'[e].pc \in {"fetch", "write"} => call'[e].next <= Len(PartsOf(e)')
         /\ \A e \in Calls : call'[e].pc = "handed" => call'[e].path # "none"
         /\ Placed'
<1>1. ASSUME NEW e \in Calls, call'[e].pc \in {"fetch", "write"}
      PROVE  call'[e].next <= Len(PartsOf(e)')
  <2>1. CASE e = c
    <3>1. PartsOf(c)' = PartsOf(c)
      BY <1>1, <2>1 DEF PartsOf
    <3>2. call'[c].next \in 1..Len(PartsOf(c))
      BY <1>1, <2>1
    <3>3. call'[c].next <= Len(PartsOf(c))
      BY <3>2
    <3>4. QED
      BY <2>1, <3>1, <3>3
  <2>2. CASE e # c
    BY <1>1, <2>2 DEF TypeOK, PartsOf
  <2>3. QED
    BY <2>1, <2>2
<1>2. QED
  BY <1>1 DEF TypeOK, Placed

LEMMA TypeStep == TypeOK /\ Placed /\ [Next]_vars => TypeOK' /\ Placed'
<1> SUFFICES ASSUME TypeOK, Placed, [Next]_vars PROVE TypeOK' /\ Placed'
  OBVIOUS
<1>0. CASE UNCHANGED vars
  BY <1>0 DEF TypeOK, Placed, vars, PartsOf
<1>1. ASSUME NEW c \in Calls, NEW a \in Assets, Start(c, a)
      PROVE  TypeOK' /\ Placed'
  <2>1. /\ call' \in [Calls -> Call] /\ call'[c].pc = "lookup" /\ call'[c].next = 1
        /\ \A e \in Calls \ {c} : call'[e] = call[e]
    BY <1>1, StartDoes DEF Becomes
  <2>2. QED
    BY <1>1, <2>1, TypedAfter DEF Start, TypeOK
<1>2. ASSUME NEW c \in Calls, Hit(c)
      PROVE  TypeOK' /\ Placed'
  <2>1. call'[c].path # "none"
    BY <1>2, HitDoes, FilesAre
  <2>2. disturbed' \subseteq Dirs
    BY <1>2, TypedCall DEF Hit, LooksUp, TypeOK
  <2>3. /\ call' \in [Calls -> Call] /\ call'[c].pc = "handed"
        /\ \A e \in Calls \ {c} : call'[e] = call[e]
    BY <1>2, HitDoes
  <2>4. QED
    BY <1>2, <2>1, <2>2, <2>3, TypedAfter DEF Hit, LooksUp, TypeOK
<1>3. ASSUME NEW c \in Calls, Miss(c)
      PROVE  TypeOK' /\ Placed'
  <2>1. Moves(c, "request") /\ call[c].next = 1
    BY <1>3, ActionsMove DEF Miss, LooksUp, Placed
  <2>2. disturbed' \subseteq Dirs
    BY <1>3, TypedCall DEF Miss, LooksUp, TypeOK
  <2>3. QED
    BY <1>3, <2>1, <2>2, TypedAfter DEF Moves, Miss, LooksUp, TypeOK
<1>4. ASSUME NEW c \in Calls, Request(c)
      PROVE  TypeOK' /\ Placed'
  <2>1. Moves(c, "fetch") /\ call[c].next = 1
    BY <1>4, ActionsMove DEF Request, Placed
  <2>2. 1 \in 1..Len(PartsOf(c))
    BY TypedCall, SMTT(30)
  <2>3. QED
    BY <1>4, <2>1, <2>2, TypedAfter DEF Moves, Request, TypeOK
<1>5. ASSUME NEW c \in Calls, Open(c)
      PROVE  TypeOK' /\ Placed'
  <2>1. Moves(c, "write") /\ call[c].next \in 1..Len(PartsOf(c))
    BY <1>5, ActionsMove, TypedCall DEF Open
  <2>2. c # NoCall
    BY DEF Calls, NoCall
  <2>3. ASSUME NEW d \in Dirs, NEW f \in Files
        PROVE  disk'[d][f].state = "absent" <=> disk'[d][f].writer = NoCall
    <3>1. CASE d = Dir(c) /\ f = Part(c)
      <4>1. disk'[d][f].state = "partial" /\ disk'[d][f].writer = c
        BY <1>5, <3>1, OpenDoes
      <4>2. QED
        BY <2>2, <4>1
    <3>2. CASE d # Dir(c) \/ f # Part(c)
      <4>1. disk'[d][f] = disk[d][f]
        BY <1>5, <3>2, OpenDoes
      <4>2. QED
        BY <4>1 DEF TypeOK
    <3>3. QED
      BY <3>1, <3>2
  <2>4. /\ call' \in [Calls -> Call]
        /\ \A e \in Calls : call'[e].pc \in {"fetch", "write"} => call'[e].next <= Len(PartsOf(e)')
        /\ \A e \in Calls : call'[e].pc = "handed" => call'[e].path # "none"
        /\ Placed'
    BY <2>1, TypedAfter DEF Moves
  <2>5. disk' \in [Dirs -> [Files -> File]]
    BY <1>5, OpenDoes
  <2>6. QED
    BY <1>5, <2>3, <2>4, <2>5 DEF Open, TypeOK
<1>6. ASSUME NEW c \in Calls, Close(c)
      PROVE  TypeOK' /\ Placed'
  <2>1. ASSUME NEW d \in Dirs, NEW f \in Files
        PROVE  disk'[d][f].state = "absent" <=> disk'[d][f].writer = NoCall
    <3>1. c # NoCall
      BY DEF Calls, NoCall
    <3>2. CASE d = Dir(c) /\ f = Part(c)
      BY <1>6, <3>1, <3>2, CloseWrites DEF TypeOK
    <3>3. CASE d # Dir(c) \/ f # Part(c)
      BY <1>6, <3>3, CloseWrites DEF TypeOK
    <3>4. QED
      BY <3>2, <3>3
  <2>2. call'[c].pc = "handed" => call'[c].path # "none"
    BY <1>6, CloseDoes, FilesAre
  <2>3. fetched' \subseteq Assets
    BY <1>6, CloseDoes, TypedCall DEF TypeOK
  <2>4. call'[c].pc = "fetch" => call'[c].next \in 1..Len(PartsOf(c))
    BY <1>6, CloseDoes, TypedCall
  <2>5. call'[c].pc \in {"handed", "fetch"}
    BY <1>6, CloseDoes
  <2>6. /\ call' \in [Calls -> Call]
        /\ \A e \in Calls : call'[e].pc \in {"fetch", "write"} => call'[e].next <= Len(PartsOf(e)')
        /\ \A e \in Calls : call'[e].pc = "handed" => call'[e].path # "none"
        /\ Placed'
    <3>1. call'[c].pc \in {"fetch", "write"} =>
            call'[c].want = call[c].want /\ call'[c].next \in 1..Len(PartsOf(c))
      BY <1>6, <2>4, <2>5, CloseDoes
    <3>2. call'[c].pc \in {"unused", "lookup", "request"} => call'[c].next = 1
      BY <2>5
    <3>3. call' \in [Calls -> Call] /\ \A e \in Calls \ {c} : call'[e] = call[e]
      BY <1>6, CloseDoes
    <3>4. QED
      BY <2>2, <3>1, <3>2, <3>3, TypedAfter
  <2>7. disk' \in [Dirs -> [Files -> File]]
    BY <1>6, CloseWrites
  <2>8. UNCHANGED <<disturbed, extracted, crossed, imported>>
    BY <1>6 DEF Close
  <2>9. QED
    BY <2>1, <2>3, <2>6, <2>7, <2>8 DEF TypeOK
<1>7. ASSUME NEW c \in Calls, BreaksOff(c)
      PROVE  TypeOK' /\ Placed'
  <2>1. Moves(c, "done")
    BY <1>7, ActionsMove
  <2>2. disturbed' \subseteq Dirs
    BY <1>7, TypedCall DEF BreaksOff, TypeOK
  <2>3. QED
    BY <1>7, <2>1, <2>2, TypedAfter DEF Moves, BreaksOff, TypeOK
<1>8. ASSUME NEW c \in Calls, Fails(c)
      PROVE  TypeOK' /\ Placed'
  <2>1. Moves(c, "done")
    BY <1>8, ActionsMove
  <2>2. QED
    BY <1>8, <2>1, TypedAfter DEF Moves, Fails, TypeOK
<1>9. ASSUME NEW c \in Calls, Import(c)
      PROVE  TypeOK' /\ Placed'
  <2>1. Moves(c, "done")
    BY <1>9, ActionsMove
  <2> DEFINE i == [want |-> call[c].want, cached |-> call[c].cached, crossed |-> c \in crossed,
                   right |-> IsTheAsset(c)]
  <2>2. i \in [want : Assets, cached : BOOLEAN, crossed : BOOLEAN, right : BOOLEAN]
    <3>1. call[c].want \in Assets /\ call[c].cached \in BOOLEAN
      BY TypedCall
    <3>2. IsTheAsset(c) \in BOOLEAN /\ (c \in crossed) \in BOOLEAN
      BY DEF IsTheAsset
    <3>3. QED
      BY <3>1, <3>2, ZenonT(30)
  <2>3. imported' \subseteq
          [want : Assets, cached : BOOLEAN, crossed : BOOLEAN, right : BOOLEAN]
    <3>1. imported' = imported \cup {i}
      BY <1>9 DEF Import
    <3> HIDE DEF i
    <3>2. QED
      BY <2>2, <3>1 DEF TypeOK
  <2>4. QED
    BY <1>9, <2>1, <2>3, TypedAfter DEF Moves, Import, TypeOK
<1>10. ASSUME NEW c \in Calls, ExtractArchive(c)
       PROVE  TypeOK' /\ Placed'
  <2>1. Moves(c, "extract")
    BY <1>10, ActionsMove
  <2>2. extracted' \in States /\ crossed' \subseteq Calls
    BY <1>10 DEF ExtractArchive, TypeOK, States
  <2>3. QED
    BY <1>10, <2>1, <2>2, TypedAfter DEF Moves, ExtractArchive, TypeOK
<1>11. ASSUME NEW c \in Calls, ArchiveExtracted(c)
       PROVE  TypeOK' /\ Placed'
  <2>1. /\ call' \in [Calls -> Call] /\ call'[c].pc = "handed" /\ call'[c].path # "none"
        /\ \A e \in Calls \ {c} : call'[e] = call[e]
    BY <1>11, ArchiveExtractedDoes
  <2>2. extracted' \in States
    BY <1>11 DEF ArchiveExtracted, Unpacks, States
  <2>3. QED
    BY <1>11, <2>1, <2>2, TypedAfter DEF ArchiveExtracted, TypeOK
<1>12. QED
  BY <1>0, <1>1, <1>2, <1>3, <1>4, <1>5, <1>6, <1>7, <1>8, <1>9, <1>10, <1>11 DEF Next

\* Every call, directory and history record stays of its kind.
THEOREM TypeCorrect == Spec => []TypeOK
<1>1. Spec => [](TypeOK /\ Placed)
  BY TypeInit, TypeStep, PTL DEF Spec
<1>2. QED
  BY <1>1, PTL
---------------------------------------------------------------------------
(* What was opened, fetched or found stays there.                          *)

Extracts(c) == ExtractArchive(c) \/ ArchiveExtracted(c)

Step(c) ==
  \/ \E a \in Assets : Start(c, a)
  \/ Hit(c) \/ Miss(c) \/ Request(c) \/ Open(c) \/ Close(c) \/ BreaksOff(c) \/ Fails(c)
  \/ Extracts(c) \/ Import(c)

\* A step is one call's; nothing that was there goes away.
LEMMA StepDoes ==
  ASSUME TypeOK, NEW c \in Calls, Step(c)
  PROVE  /\ \A e \in Calls \ {c} : call'[e] = call[e]
         /\ fetched \subseteq fetched' /\ disturbed \subseteq disturbed'
         /\ crossed \subseteq crossed'
         /\ Open(c) \/ \A d \in Dirs : Present(d)' = Present(d)
         /\ Open(c) => \A d \in Dirs :
              Present(d)' = IF d = Dir(c) THEN Present(d) \cup {Part(c)} ELSE Present(d)
<1>1. \A e \in Calls \ {c} : call'[e] = call[e]
  <2>1. CASE Extracts(c)
    BY <2>1, ActionsMove, ArchiveExtractedDoes DEF Extracts, Moves
  <2>2. CASE ~Extracts(c)
    BY <2>2, StartDoes, HitDoes, CloseDoes, ActionsMove DEF Step, Becomes, Moves
  <2>3. QED
    BY <2>1, <2>2
<1>2. disturbed \subseteq disturbed' /\ crossed \subseteq crossed'
  BY DEF Step, Start, Hit, Miss, LooksUp, Request, Open, Close, BreaksOff, Fails, Import,
         Extracts, ExtractArchive, ArchiveExtracted
<1>3. fetched \subseteq fetched'
  <2>1. CASE Close(c)
    BY <2>1, CloseDoes
  <2>2. CASE ~Close(c)
    BY <2>2 DEF Step, Start, Hit, Miss, LooksUp, Request, Open, BreaksOff, Fails, Import,
                Extracts, ExtractArchive, ArchiveExtracted
  <2>3. QED
    BY <2>1, <2>2
<1>4. ASSUME Open(c)
      PROVE  \A d \in Dirs :
               Present(d)' = IF d = Dir(c) THEN Present(d) \cup {Part(c)} ELSE Present(d)
  <2>1. ASSUME NEW d \in Dirs, d # Dir(c)
        PROVE  Present(d)' = Present(d)
    BY <1>4, <2>1, OpenDoes DEF Present
  <2>2. ASSUME NEW d \in Dirs, d = Dir(c)
        PROVE  Present(d)' = Present(d) \cup {Part(c)}
    <3>1. /\ Part(c) \in Files
          /\ disk'[d][Part(c)].state # "absent"
          /\ \A f \in Files : f # Part(c) => disk'[d][f] = disk[d][f]
      <4>1. disk'[d][Part(c)].state = "partial" /\ Part(c) \in Files
        BY <1>4, <2>2, OpenDoes
      <4>2. \A f \in Files : f # Part(c) => disk'[d][f] = disk[d][f]
        BY <1>4, OpenDoes
      <4>3. QED
        BY <4>1, <4>2
    <3>2. QED
      BY <3>1 DEF Present
  <2>3. QED
    BY <2>1, <2>2
<1>5. ASSUME ~Open(c)
      PROVE  \A d \in Dirs : Present(d)' = Present(d)
  <2>1. CASE Close(c)
    <3>1. ASSUME NEW d \in Dirs, NEW f \in Files
          PROVE  disk'[d][f].state # "absent" <=> disk[d][f].state # "absent"
      <4>1. CASE d = Dir(c) /\ f = Part(c)
        <5>1. disk[d][f].writer = c => disk[d][f].state # "absent"
          BY TypeOK DEF TypeOK, Calls, NoCall
        <5>2. disk'[d][f].state = IF disk[d][f].writer = c THEN "whole" ELSE disk[d][f].state
          BY <2>1, <4>1, CloseWrites
        <5>3. QED
          BY <5>1, <5>2
      <4>2. CASE d # Dir(c) \/ f # Part(c)
        BY <2>1, <4>2, CloseWrites
      <4>3. QED
        BY <4>1, <4>2
    <3>2. QED
      BY <3>1 DEF Present
  <2>2. CASE ~Close(c)
    BY <1>5, <2>2 DEF Step, Start, Hit, Miss, LooksUp, Request, BreaksOff, Fails, Import,
                      Extracts, ExtractArchive, ArchiveExtracted, Present
  <2>3. QED
    BY <2>1, <2>2
<1>6. QED
  BY <1>1, <1>2, <1>3, <1>4, <1>5, SMTT(30)

\* A call's directory, before and after a step, names the same files.
LEMMA PresentAfter ==
  ASSUME NEW e \in Calls, NEW d \in Dirs, Dir(e)' = d
  PROVE  Present(Dir(e))' = Present(d)'
BY DEF Present

LEMMA LaidStep ==
  ASSUME TypeOK, Laid, NEW c \in Calls, Step(c)
  PROVE  Laid'
<1> SUFFICES ASSUME NEW d \in Dirs, NEW f \in Present(d)'
             PROVE  \E a \in Assets : DirOf(a) = d /\ f \in Range(Parts(a))
  BY DEF Laid
<1>1. CASE f \in Present(d)
  BY <1>1 DEF Laid
<1>2. CASE f \notin Present(d)
  <2>1. Open(c) /\ d = Dir(c) /\ f = Part(c)
    BY <1>2, StepDoes
  <2>2. Part(c) \in Range(Parts(call[c].want)) /\ call[c].want \in Assets
    BY <2>1, TypedCall DEF Open, PartsOf
  <2>3. QED
    BY <2>1, <2>2 DEF Dir
<1>3. QED
  BY <1>1, <1>2

LEMMA OpenedStep ==
  ASSUME TypeOK, Placed, OpenedIsThere, NEW c \in Calls, Step(c)
  PROVE  OpenedIsThere'
<1> DEFINE Begun(e, i) ==
      Downloading(e) /\ (i < call[e].next \/ (i = call[e].next /\ Opened(e)))
<1> SUFFICES ASSUME NEW e \in Calls, NEW i \in 1..Len(PartsOf(e)'), Begun(e, i)'
             PROVE  PartsOf(e)'[i] \in Present(Dir(e))'
  BY DEF OpenedIsThere
<1>1. Len(PartsOf(e)) \in 1..3 /\ Dir(e) \in Dirs
  BY TypedCall
<1>2. \A d \in Dirs : Present(d) \subseteq Present(d)'
  BY StepDoes
<1>3. ASSUME PartsOf(e)' = PartsOf(e), Dir(e)' = Dir(e), Begun(e, i)
      PROVE  PartsOf(e)'[i] \in Present(Dir(e))'
  <2>1. PartsOf(e)[i] \in Present(Dir(e))
    BY <1>3 DEF OpenedIsThere
  <2>2. QED
    BY <1>1, <1>2, <1>3, <2>1, PresentAfter
<1>4. CASE e # c
  <2>1. call'[e] = call[e]
    BY <1>4, StepDoes
  <2>2. QED
    BY <1>3, <2>1 DEF PartsOf, Dir, Downloading, Opened
<1>5. CASE e = c
  <2>1. i >= 1 /\ i \in Nat
    BY <1>1, Placed DEF Placed
  <2>2. CASE \E a \in Assets : Start(c, a)
    BY <1>5, <2>2, StartDoes DEF Downloading
  <2>3. CASE Hit(c)
    BY <1>5, <2>3, HitDoes DEF Downloading
  <2>4. CASE BreaksOff(c) \/ Fails(c) \/ Import(c)
    BY <1>5, <2>4, ActionsMove DEF Downloading, Moves
  <2>5. CASE Miss(c) \/ Request(c)
    <3>1. call[c].next = 1 /\ call'[c].next = 1 /\ call'[c].pc # "write"
      BY <2>5, ActionsMove DEF Miss, LooksUp, Request, Moves, Placed
    <3>2. QED
      BY <1>5, <2>1, <3>1 DEF Opened
  <2>6. CASE Open(c)
    <3>1. /\ PartsOf(c)' = PartsOf(c) /\ Dir(c)' = Dir(c)
          /\ call'[c].next = call[c].next /\ Downloading(c)
      BY <2>6, ActionsMove DEF Moves, PartsOf, Dir, Downloading, Open
    <3>2. CASE i < call[c].next
      BY <1>3, <1>5, <3>1, <3>2
    <3>3. CASE i = call[c].next
      <4>1. PartsOf(c)'[i] = Part(c)
        BY <3>1, <3>3 DEF Part
      <4>2. Part(c) \in Present(Dir(c))'
        BY <1>1, <1>5, <2>6, <3>1, StepDoes, PresentAfter
      <4>3. QED
        BY <1>5, <4>1, <4>2
    <3>4. QED
      BY <1>5, <3>1, <3>2, <3>3, SMTT(30)
  <2>7. CASE Close(c)
    <3>1. /\ PartsOf(c)' = PartsOf(c) /\ Dir(c)' = Dir(c) /\ Downloading(c) /\ Opened(c)
      BY <2>7, CloseDoes DEF PartsOf, Dir, Downloading, Opened, Close
    <3>2. call'[c].pc = "fetch" /\ call'[c].next = call[c].next + 1
      BY <1>5, <2>7, CloseDoes DEF Downloading
    <3>3. i < call[c].next + 1
      BY <1>5, <3>2 DEF Opened
    <3>4. i < call[c].next \/ i = call[c].next
      BY <2>1, <3>3, TypedCall, SMTT(30)
    <3>5. QED
      BY <1>3, <1>5, <3>1, <3>4, SMTT(30)
  <2>8. CASE Extracts(c)
    BY <1>5, <2>8, ActionsMove, ArchiveExtractedDoes DEF Extracts, Downloading, Moves
  <2>9. QED
    BY <2>2, <2>3, <2>4, <2>5, <2>6, <2>7, <2>8 DEF Step
<1>6. QED
  BY <1>4, <1>5

LEMMA FetchedStep ==
  ASSUME TypeOK, OpenedIsThere, FetchedIsThere, NEW c \in Calls, Step(c)
  PROVE  FetchedIsThere'
<1> SUFFICES ASSUME NEW a \in fetched'
             PROVE  Range(Parts(a)) \subseteq Present(DirOf(a))'
  BY DEF FetchedIsThere
<1>1. \A d \in Dirs : Present(d) \subseteq Present(d)'
  BY StepDoes
<1>2. CASE a \in fetched
  <2>1. DirOf(a) \in Dirs
    BY <1>2 DEF TypeOK, DirOf, Dirs, Assets
  <2>2. QED
    BY <1>1, <1>2, <2>1 DEF FetchedIsThere
<1>3. CASE a \notin fetched
  <2>1. Close(c) /\ LastPart(c) /\ a = call[c].want
    <3>1. Close(c)
      BY <1>3 DEF Step, Start, Hit, Miss, LooksUp, Request, Open, BreaksOff, Fails, Import,
                  Extracts, ExtractArchive, ArchiveExtracted
    <3>2. QED
      BY <1>3, <3>1, CloseDoes
  <2>2. call[c].pc = "write" /\ call[c].next = Len(PartsOf(c))
    BY <2>1 DEF Close, LastPart
  <2>3. Len(PartsOf(c)) \in 1..3 /\ a \in Assets /\ Dir(c) \in Dirs /\ Dir(c) = DirOf(a)
    BY <2>1, TypedCall DEF Dir
  <2>4. ASSUME NEW i \in 1..Len(PartsOf(c))
        PROVE  PartsOf(c)[i] \in Present(Dir(c))
    <3>1. i < call[c].next \/ i = call[c].next
      BY <2>2, <2>3
    <3>2. QED
      BY <2>2, <3>1 DEF OpenedIsThere, Downloading, Opened
  <2>5. Range(Parts(a)) \subseteq Present(Dir(c))
    BY <2>1, <2>3, <2>4, PartsAreFiles DEF PartsOf
  <2>6. QED
    BY <1>1, <2>3, <2>5
<1>4. QED
  BY <1>2, <1>3

\* The generated assets are in one directory, and alone there.
LEMMA GeneratedAreLaid ==
  ASSUME Laid, NEW d \in Dirs
  PROVE  /\ d = "generated" => Present(d) \subseteq {"plain", "reduced", "twin", "nested"}
         /\ d # "generated" => "nested" \notin Present(d)
<1>1. \A f \in Present(d) : \E a \in Assets : DirOf(a) = d /\ f \in Range(Parts(a))
  BY DEF Laid
<1>2. \A a \in Assets : DirOf(a) = "generated" => a \in {"plain", "reduced", "twin", "nested"}
  BY DEF DirOf, Assets
<1>3. \A a \in Assets : DirOf(a) # "generated" => a \in {"archive", "maps", "model"}
  BY DEF DirOf, Assets
<1>4. \A a \in {"plain", "reduced", "twin", "nested"} : Range(Parts(a)) = {a}
  BY FilesOfParts
<1>5. \A a \in {"archive", "maps", "model"} : "nested" \notin Range(Parts(a))
  BY FilesOfParts
<1>6. QED
  BY <1>1, <1>2, <1>3, <1>4, <1>5

\* Only what an id with a slash names is in a subdirectory of its own.
LEMMA PartsAreListed ==
  ASSUME NEW a \in Assets, a # "nested"
  PROVE  "nested" \notin Range(Parts(a))
BY FilesOfParts DEF Assets

LEMMA HandedStep ==
  ASSUME TypeOK, OpenedIsThere, HandedIsThere, NEW c \in Calls, Step(c)
  PROVE  HandedIsThere'
<1> SUFFICES ASSUME NEW e \in Calls, Held(e)', call'[e].want # "nested"
             PROVE  Visible(Dir(e))' # {}
  BY DEF HandedIsThere
<1>1. \A d \in Dirs : Present(d) \subseteq Present(d)'
  BY StepDoes
<1>2. Dir(e) \in Dirs
  BY TypedCall
<1>3. ASSUME Dir(e)' = Dir(e), Visible(Dir(e)) # {}
      PROVE  Visible(Dir(e))' # {}
  BY <1>1, <1>2, <1>3, PresentAfter DEF Visible
<1>4. CASE call'[e] = call[e]
  BY <1>3, <1>4 DEF Dir, Held, HandedIsThere
<1>5. CASE e = c
  <2>1. CASE Hit(c)
    <3>1. Dir(c)' = Dir(c)
      BY <2>1, HitDoes DEF Dir
    <3>2. FindCachedFile(Dir(c)) # "none"
      BY <2>1 DEF Hit, Found
    <3>3. QED
      BY <1>2, <1>3, <1>5, <3>1, <3>2, FindCachedFileFinds
  <2>2. CASE Close(c)
    <3>1. Dir(c)' = Dir(c) /\ call[c].want # "nested"
      BY <1>5, <2>2, CloseDoes DEF Dir
    <3>2. /\ call[c].pc = "write" /\ call[c].next \in 1..Len(PartsOf(c))
          /\ Part(c) \in Range(PartsOf(c)) /\ call[c].want \in Assets
      BY <2>2, TypedCall DEF Close
    <3>3. Part(c) \in Present(Dir(c))
      BY <3>2 DEF OpenedIsThere, Downloading, Opened, Part
    <3>4. Part(c) # "nested"
      BY <3>1, <3>2, PartsAreListed DEF PartsOf
    <3>5. QED
      BY <1>3, <1>5, <3>1, <3>3, <3>4 DEF Visible
  <2>3. CASE \E a \in Assets : Start(c, a)
    BY <1>5, <2>3, StartDoes DEF Held
  <2>4. CASE Miss(c) \/ Request(c) \/ Open(c) \/ BreaksOff(c) \/ Fails(c) \/ Import(c)
    BY <1>5, <2>4, ActionsMove DEF Moves, Held
  <2>5. CASE Extracts(c)
    <3>1. Held(c) /\ call'[c].want = call[c].want
      BY <2>5, ActionsMove, ArchiveExtractedDoes
         DEF Extracts, Moves, ExtractArchive, ArchiveExtracted, Unpacking, Held
    <3>2. Dir(c)' = Dir(c)
      BY <3>1 DEF Dir
    <3>3. QED
      BY <1>3, <1>5, <3>1, <3>2 DEF HandedIsThere
  <2>6. QED
    BY <2>1, <2>2, <2>3, <2>4, <2>5 DEF Step
<1>6. QED
  BY <1>4, <1>5, StepDoes

\* A call that is unpacking the archive makes every other one there a crossed one.
LEMMA UncrossedStep ==
  ASSUME TypeOK, Laid, Uncrossed, NEW c \in Calls, Step(c)
  PROVE  Uncrossed'
<1> SUFFICES ASSUME NEW x \in Calls, Unpacking(x)' \/ Unpacked(x)'
             PROVE  /\ call'[x].want = "archive"
                    /\ x \notin crossed' => /\ \A e \in Calls \ {x} : ~Unpacking(e)'
                                            /\ Unpacked(x)' => extracted' = "whole"
  BY DEF Uncrossed
<1>1. crossed \subseteq crossed' /\ \A e \in Calls \ {c} : call'[e] = call[e]
  BY StepDoes
<1>2. CASE ExtractArchive(c)
  <2>1. /\ call'[c].pc = "extract" /\ call'[c].path = "archive"
        /\ call'[c].want = call[c].want /\ call[c].pc = "handed"
    BY <1>2, ActionsMove DEF Moves, ExtractArchive
  <2>2. call[c].want = "archive"
    <3>1. Dir(c) \in Dirs /\ call[c].want \in Assets /\ "archive" \in Files
      BY TypedCall, FilesAre
    <3>2. "archive" \in Present(Dir(c))
      BY <1>2, <3>1 DEF ExtractArchive, Present
    <3>3. PICK a \in Assets : DirOf(a) = Dir(c) /\ "archive" \in Range(Parts(a))
      BY <3>1, <3>2 DEF Laid
    <3>4. a = "archive"
      BY <3>3, FilesOfParts DEF Assets
    <3>5. QED
      BY <3>1, <3>3, <3>4 DEF Dir, DirOf
  <2>3. CASE x = c
    <3>1. c \notin crossed' => \A e \in Calls \ {c} : ~Unpacking(e)
      BY <1>2 DEF ExtractArchive
    <3>2. \A e \in Calls \ {c} : Unpacking(e)' <=> Unpacking(e)
      BY <1>1 DEF Unpacking
    <3>3. QED
      BY <2>1, <2>2, <2>3, <3>1, <3>2 DEF Unpacked
  <2>4. CASE x # c
    <3>1. Unpacking(x) \/ Unpacked(x)
      BY <1>1, <2>4 DEF Unpacking, Unpacked
    <3>2. x \in crossed'
      BY <1>2, <2>4, <3>1 DEF ExtractArchive
    <3>3. QED
      BY <1>1, <2>4, <3>1, <3>2 DEF Uncrossed
  <2>5. QED
    BY <2>3, <2>4
<1>3. CASE ArchiveExtracted(c)
  <2>1. /\ call'[c].pc = "handed" /\ call'[c].want = call[c].want /\ Unpacking(c)
        /\ crossed' = crossed
    BY <1>3, ArchiveExtractedDoes DEF ArchiveExtracted
  <2>2. \A e \in Calls : Unpacking(e)' => Unpacking(e)
    BY <1>1, <2>1 DEF Unpacking
  <2>3. CASE x = c
    <3>1. c \notin crossed => extracted' = "whole"
      BY <1>3 DEF ArchiveExtracted, Unpacks
    <3>2. QED
      BY <2>1, <2>2, <2>3, <3>1 DEF Uncrossed
  <2>4. CASE x # c
    <3>1. Unpacking(x) \/ Unpacked(x)
      BY <1>1, <2>4 DEF Unpacking, Unpacked
    <3>2. x \in crossed
      BY <2>1, <2>4, <3>1 DEF Uncrossed
    <3>3. QED
      BY <1>1, <2>1, <2>4, <3>1, <3>2 DEF Uncrossed
  <2>5. QED
    BY <2>3, <2>4
<1>4. CASE ~Extracts(c)
  <2>1. extracted' = extracted /\ crossed' = crossed
    BY <1>4 DEF Step, Start, Hit, Miss, LooksUp, Request, Open, Close, BreaksOff, Fails, Import
  <2>2. call'[c].pc # "extract" /\ ~(call'[c].pc = "handed" /\ call'[c].path = "extracted")
    <3>1. CASE Hit(c)
      <4>1. call'[c].pc = "handed" /\ call'[c].path \in Files \cup {"textures"}
        BY <3>1, HitDoes
      <4>2. QED
        BY <4>1, FilesAre
    <3>2. CASE Close(c)
      <4>1. /\ LastPart(c) => call'[c].path \in Files \cup {"textures"}
            /\ call'[c].pc = IF LastPart(c) THEN "handed" ELSE "fetch"
        BY <3>2, CloseDoes
      <4>2. QED
        BY <4>1, FilesAre
    <3>3. CASE ~Hit(c) /\ ~Close(c)
      BY <1>4, <3>3, StartDoes, ActionsMove DEF Step, Moves
    <3>4. QED
      BY <3>1, <3>2, <3>3
  <2>3. x # c /\ call'[x] = call[x]
    BY <1>1, <2>2 DEF Unpacking, Unpacked
  <2>4. \A e \in Calls : Unpacking(e)' => Unpacking(e)
    BY <1>1, <2>2 DEF Unpacking
  <2>5. Unpacking(x) \/ Unpacked(x)
    BY <2>3 DEF Unpacking, Unpacked
  <2>6. Unpacked(x)' <=> Unpacked(x)
    BY <2>3 DEF Unpacked
  <2>7. QED
    BY <2>1, <2>3, <2>4, <2>5, <2>6 DEF Uncrossed
<1>5. QED
  BY <1>2, <1>3, <1>4 DEF Extracts
---------------------------------------------------------------------------
(* What a step makes of a directory that nothing disturbed.                *)

Busy(e) == Downloading(e) \/ Held(e)

\* A step of calls that have nothing to do with a directory leaves it in order.
LEMMA OtherDirectory ==
  ASSUME TypeOK, Laid, NEW c \in Calls, Step(c), NEW d \in Dirs, InOrder(d),
         \A f \in Files : disk'[d][f] = disk[d][f],
         \A e \in Calls : (Dir(e) = d /\ Busy(e)) \/ (Dir(e)' = d /\ Busy(e)') => call'[e] = call[e]
  PROVE  InOrder(d)'
<1>1. Present(d)' = Present(d)
  BY DEF Present
<1>2. fetched \subseteq fetched'
  BY StepDoes
<1>3. \A e \in Calls :
        /\ Dir(e)' = d /\ Downloading(e)' => Dir(e) = d /\ Downloading(e) /\ call'[e] = call[e]
        /\ Dir(e)' = d /\ Held(e)' => Dir(e) = d /\ Held(e) /\ call'[e] = call[e]
        /\ Dir(e) = d /\ Downloading(e) => Dir(e)' = d /\ Downloading(e)' /\ call'[e] = call[e]
  BY DEF Busy, Dir, Downloading, Held
<1>4. \A e \in Calls : Opened(e) => Downloading(e)
  BY DEF Opened, Downloading
<1>5. \A e \in Calls : Opened(e)' => Downloading(e)'
  BY DEF Opened, Downloading
<1>6. Alone(d)'
  BY <1>3 DEF Alone, InOrder
<1>7. InTurn(d)'
  <2>1. ASSUME NEW f \in Files, disk'[d][f].state = "partial"
        PROVE  \E e \in Calls : Dir(e)' = d /\ Opened(e)' /\ Part(e)' = f
    <3>1. PICK e \in Calls : Dir(e) = d /\ Opened(e) /\ Part(e) = f
      BY <2>1 DEF InOrder, InTurn
    <3>2. call'[e] = call[e] /\ Dir(e)' = d
      BY <1>3, <1>4, <3>1
    <3>3. Opened(e)' /\ Part(e)' = f
      BY <3>1, <3>2 DEF Opened, Part, PartsOf
    <3>4. QED
      BY <3>2, <3>3
  <2>2. ASSUME NEW e \in Calls, Dir(e)' = d, Opened(e)'
        PROVE  disk'[d][Part(e)'].writer = e
    <3>1. call'[e] = call[e] /\ Dir(e) = d
      BY <1>3, <1>5, <2>2
    <3>2. Opened(e) /\ Part(e)' = Part(e) /\ Part(e) \in Files
      BY <2>2, <3>1, TypedCall DEF Opened, Part, PartsOf
    <3>3. QED
      BY <3>1, <3>2 DEF InOrder, InTurn
  <2>3. ASSUME NEW e \in Calls, NEW i \in 1..Len(PartsOf(e)'),
               Dir(e)' = d, Downloading(e)', i < call'[e].next
        PROVE  Whole(d, PartsOf(e)[i])'
    <3>1. call'[e] = call[e] /\ Dir(e) = d /\ Downloading(e)
      BY <1>3, <2>3
    <3>2. PartsOf(e)' = PartsOf(e) /\ i \in 1..Len(PartsOf(e))
      BY <3>1 DEF PartsOf
    <3>3. PartsOf(e)[i] \in Files
      BY <3>2, TypedCall, PartsAreFiles DEF PartsOf
    <3>4. Whole(d, PartsOf(e)[i])
      BY <2>3, <3>1, <3>2 DEF InOrder, InTurn
    <3>5. QED
      BY <3>2, <3>3, <3>4 DEF Whole
  <2>4. QED
    BY <2>1, <2>2, <2>3 DEF InTurn
<1>8. AllOrNothing(d)'
  <2>1. ASSUME d # "generated", Present(d)' # {}, \A e \in Calls : Dir(e)' = d => ~Downloading(e)'
        PROVE  \A f \in Range(Parts(d)) : Whole(d, f)'
    <3>1. \A e \in Calls : Dir(e) = d => ~Downloading(e)
      BY <1>3, <2>1
    <3>2. \A f \in Range(Parts(d)) : Whole(d, f)
      BY <1>1, <2>1, <3>1 DEF InOrder, AllOrNothing
    <3>3. Range(Parts(d)) \subseteq Files
      BY <2>1, PartsAreFiles DEF Dirs, Assets
    <3>4. QED
      BY <3>2, <3>3 DEF Whole
  <2>2. ASSUME d # "generated", NEW e \in Calls,
               Dir(e)' = d, Downloading(e)', call'[e].next = 1, ~Opened(e)'
        PROVE  Present(d)' = {}
    BY <1>1, <1>3, <2>2 DEF InOrder, AllOrNothing, Opened
  <2>3. ASSUME d = "generated", NEW f \in Present(d)', f \notin fetched'
        PROVE  \E e \in Calls : call'[e].want = f /\ Opened(e)'
    <3>1. PICK e \in Calls : call[e].want = f /\ Opened(e)
      BY <1>1, <1>2, <2>3 DEF InOrder, AllOrNothing
    <3>2. call'[e] = call[e]
      <4>1. f \in {"plain", "reduced", "twin", "nested"}
        BY <1>1, <2>3, GeneratedAreLaid
      <4>2. Dir(e) = d
        BY <2>3, <3>1, <4>1 DEF Dir, DirOf
      <4>3. QED
        BY <1>3, <1>4, <3>1, <4>2
    <3>3. QED
      BY <3>1, <3>2 DEF Opened
  <2>4. QED
    BY <2>1, <2>2, <2>3 DEF AllOrNothing
<1>9. InHand(d)'
  <2> SUFFICES ASSUME NEW e \in Calls, Dir(e)' = d, Held(e)'
               PROVE  \/ call'[e].path = "extracted"
                      \/ call'[e].path = PathOf(e)' /\ AllWhole(e)'
                      \/ call'[e].cached /\ FoundAsSomethingElse(call[e].want)'
    BY DEF InHand
  <2>1. call'[e] = call[e] /\ Dir(e) = d /\ Held(e)
    BY <1>3
  <2>2. CASE call[e].path = PathOf(e) /\ AllWhole(e)
    <3>1. PathOf(e)' = PathOf(e) /\ PartsOf(e)' = PartsOf(e)
      BY <2>1 DEF PathOf, PartsOf
    <3>2. Range(PartsOf(e)) \subseteq Files
      BY TypedCall, PartsAreFiles DEF PartsOf
    <3>3. QED
      BY <2>1, <2>2, <3>1, <3>2 DEF AllWhole, Whole
  <2>3. CASE call[e].cached /\ FoundAsSomethingElse(call[e].want)
    BY <1>2, <2>1, <2>3 DEF FoundAsSomethingElse
  <2>4. QED
    BY <2>1, <2>2, <2>3 DEF InOrder, InHand
<1>10. QED
  BY <1>6, <1>7, <1>8, <1>9 DEF InOrder

\* What goes on in a directory that a call works in, and that stays undisturbed.
Works(c, d) ==
  /\ TypeOK /\ Placed /\ Laid /\ OpenedIsThere /\ HandedIsThere /\ Uncrossed
  /\ Step(c) /\ d = Dir(c) /\ InOrder(d) /\ d \notin disturbed'
  /\ ~\E a \in Assets : Start(c, a)

LEMMA WorkDoes ==
  ASSUME NEW c \in Calls, NEW d \in Dirs, Works(c, d)
  PROVE  /\ \/ Hit(c) \/ Miss(c) \/ Request(c) \/ Open(c) \/ Close(c) \/ Fails(c)
            \/ Extracts(c) \/ Import(c)
         /\ call'[c].want = call[c].want /\ Dir(c)' = d /\ PartsOf(c)' = PartsOf(c)
         /\ \A e \in Calls \ {c} :
              /\ call'[e] = call[e] /\ Dir(e)' = Dir(e) /\ PartsOf(e)' = PartsOf(e)
              /\ Part(e)' = Part(e) /\ PathOf(e)' = PathOf(e)
              /\ Downloading(e)' <=> Downloading(e)
              /\ Opened(e)' <=> Opened(e)
         /\ Hit(c) \/ Miss(c) => \A e \in Calls : Dir(e) = d => ~Downloading(e)
         /\ Open(c) \/ Close(c) \/ \A f \in Files : disk'[d][f] = disk[d][f]
         /\ Downloading(c) => \A e \in Calls \ {c} : Dir(e) = d => ~Downloading(e)
<1>1. \/ Hit(c) \/ Miss(c) \/ Request(c) \/ Open(c) \/ Close(c) \/ Fails(c)
      \/ Extracts(c) \/ Import(c)
  BY DEF Works, Step, BreaksOff
<1>2. call'[c].want = call[c].want
  BY <1>1, HitDoes, CloseDoes, ActionsMove, ArchiveExtractedDoes DEF Works, Moves, Extracts
<1>3. Dir(c)' = d /\ PartsOf(c)' = PartsOf(c)
  BY <1>2 DEF Works, Dir, PartsOf
<1>4. ASSUME NEW e \in Calls \ {c}
      PROVE  /\ call'[e] = call[e] /\ Dir(e)' = Dir(e) /\ PartsOf(e)' = PartsOf(e)
             /\ Part(e)' = Part(e) /\ PathOf(e)' = PathOf(e)
             /\ Downloading(e)' <=> Downloading(e)
             /\ Opened(e)' <=> Opened(e)
  <2>1. call'[e] = call[e]
    BY StepDoes DEF Works
  <2>2. QED
    BY <2>1 DEF Dir, PartsOf, Part, PathOf, Downloading, Opened
<1>5. ASSUME Hit(c) \/ Miss(c), NEW e \in Calls, Dir(e) = d
      PROVE  ~Downloading(e)
  <2>1. CASE e = c
    BY <1>5, <2>1 DEF Hit, Miss, LooksUp, Downloading
  <2>2. CASE e # c
    BY <1>5, <2>2 DEF Hit, Miss, LooksUp, Overlaps, Works
  <2>3. QED
    BY <2>1, <2>2
<1>6. Open(c) \/ Close(c) \/ \A f \in Files : disk'[d][f] = disk[d][f]
  BY <1>1 DEF Hit, Miss, LooksUp, Request, Fails, Import,
              Extracts, ExtractArchive, ArchiveExtracted
<1>7. ASSUME Downloading(c), NEW e \in Calls \ {c}, Dir(e) = d
      PROVE  ~Downloading(e)
  BY <1>7 DEF Works, InOrder, Alone
<1>8. QED
  BY <1>1, <1>2, <1>3, <1>4, <1>5, <1>6, <1>7

\* What the archive is unpacked to is held before and after.
LEMMA ExtractsHolds ==
  ASSUME TypeOK, NEW c \in Calls, Extracts(c)
  PROVE  Held(c) /\ Held(c)' /\ ~Downloading(c) /\ ~Downloading(c)' /\ ~Opened(c) /\ ~Opened(c)'
BY ActionsMove, ArchiveExtractedDoes
   DEF Extracts, ExtractArchive, ArchiveExtracted, Unpacking, Moves, Held, Downloading, Opened

LEMMA AloneStep ==
  ASSUME NEW c \in Calls, NEW d \in Dirs, Works(c, d)
  PROVE  Alone(d)'
<1> SUFFICES ASSUME NEW x \in Calls, NEW y \in Calls, x # y,
                    Dir(x)' = d, Dir(y)' = d, Downloading(x)'
             PROVE  /\ ~Downloading(y)'
                    /\ Held(y)' => d = "generated" /\ call'[x].want # call'[y].want
  BY DEF Alone
<1>0. TypeOK
  BY DEF Works
<1>1. CASE x # c /\ y # c
  <2>1. call'[x] = call[x] /\ call'[y] = call[y]
    BY <1>1, WorkDoes
  <2>2. QED
    BY <2>1 DEF Works, InOrder, Alone, Downloading, Dir, Held
<1>2. CASE x = c
  <2>1. /\ call'[y] = call[y] /\ Dir(y) = d /\ (Downloading(y)' <=> Downloading(y))
        /\ call'[c].want = call[c].want /\ (Held(y)' <=> Held(y))
    BY <1>2, WorkDoes DEF Held
  <2>2. CASE Downloading(c)
    BY <1>2, <2>1, <2>2 DEF Works, InOrder, Alone
  <2>3. CASE ~Downloading(c)
    <3>1. Miss(c)
      <4>1. ~Hit(c) /\ ~Fails(c) /\ ~Import(c) /\ ~Extracts(c)
        BY <1>2, HitDoes, ActionsMove, ExtractsHolds DEF Works, Downloading, Moves
      <4>2. QED
        BY <2>3, <4>1, WorkDoes DEF Request, Open, Close, Downloading
    <3>2. ~Downloading(y)
      BY <2>1, <3>1, WorkDoes
    <3>3. call[c].want = "reduced" \/ Visible(d) = {}
      BY <3>1, FindCachedFileFinds DEF Miss, Found, Works
    <3>4. ASSUME Held(y)
          PROVE  d = "generated" /\ call[c].want # call[y].want
      <4>1. call[y].want # "nested" => Visible(d) # {}
        BY <2>1, <3>4 DEF Works, HandedIsThere
      <4>2. d = "generated"
        BY <1>0, <2>1, <3>3, <4>1, TypedCall DEF Dir, DirOf, Works
      <4>3. CASE call[c].want = call[y].want
        <5>1. call[c].want \in NeverFound
          BY <3>3, <4>1, <4>3 DEF NeverFound
        <5>2. call[y].pc = "handed"
          <6>1. ASSUME Unpacking(y)
                PROVE  FALSE
            BY <1>0, <2>1, <4>2, <6>1 DEF Works, Uncrossed, Dir, DirOf
          <6>2. QED
            BY <3>4, <6>1 DEF Held, Unpacking
        <5>3. Overlaps(c)
          BY <1>2, <2>1, <4>3, <5>1, <5>2 DEF Overlaps, Works
        <5>4. QED
          BY <3>1, <5>3 DEF Miss, LooksUp, Works
      <4>4. QED
        BY <4>2, <4>3
    <3>5. QED
      BY <1>2, <2>1, <3>2, <3>4
  <2>4. QED
    BY <2>2, <2>3
<1>3. CASE y = c
  <2>1. Dir(x) = d /\ Downloading(x) /\ call'[x] = call[x] /\ call'[c].want = call[c].want
    BY <1>3, WorkDoes
  <2>2. ~Hit(c) /\ ~Miss(c)
    BY <2>1, WorkDoes
  <2>3. ~Downloading(c)
    BY <1>3, <2>1, WorkDoes
  <2>4. Fails(c) \/ Import(c) \/ Extracts(c)
    BY <2>2, <2>3, WorkDoes DEF Request, Open, Close, Downloading
  <2>5. CASE Extracts(c)
    <3>1. Held(c) /\ ~Downloading(c)'
      BY <1>0, <2>5, ExtractsHolds
    <3>2. QED
      BY <1>3, <2>1, <3>1 DEF Works, InOrder, Alone
  <2>6. CASE Fails(c) \/ Import(c)
    BY <1>0, <1>3, <2>6, ActionsMove DEF Moves, Downloading, Held
  <2>7. QED
    BY <2>4, <2>5, <2>6
<1>4. QED
  BY <1>1, <1>2, <1>3

LEMMA InTurnStep ==
  ASSUME NEW c \in Calls, NEW d \in Dirs, Works(c, d)
  PROVE  InTurn(d)'
<1>0. TypeOK /\ d = Dir(c) /\ InTurn(d)
  BY DEF Works, InOrder
<1>1. ASSUME Open(c) \/ Close(c)
      PROVE  /\ Downloading(c) /\ call[c].next \in 1..Len(PartsOf(c))
             /\ \A f \in Files \ {Part(c)} : disk'[d][f] = disk[d][f]
             /\ Part(c) \in Files
  <2>1. Downloading(c) /\ call[c].pc \in {"fetch", "write"}
    BY <1>1 DEF Open, Close, Downloading
  <2>2. QED
    BY <1>0, <1>1, <2>1, TypedCall, OpenDoes, CloseWrites
<1>2. Close(c) => disk'[d][Part(c)].state = "whole"
  <2>1. Close(c) => disk[d][Part(c)].writer = c
    BY <1>0 DEF InTurn, Close, Opened
  <2>2. QED
    BY <1>0, <2>1, CloseWrites
<1>3. Open(c) => disk'[d][Part(c)].writer = c
  BY <1>0, OpenDoes
<1>4. Open(c) => Opened(c)' /\ Part(c)' = Part(c)
  <2>1. Open(c) => call'[c].pc = "write" /\ call'[c].next = call[c].next
    BY <1>0, ActionsMove DEF Moves
  <2>2. QED
    BY <2>1, WorkDoes DEF Opened, Part
<1>5. Opened(c)' => Open(c)
  <2>1. Close(c) => call'[c].pc # "write"
    BY <1>0, CloseDoes
  <2>2. Hit(c) \/ Miss(c) \/ Request(c) \/ Fails(c) \/ Import(c) => call'[c].pc # "write"
    BY <1>0, HitDoes, ActionsMove DEF Moves
  <2>3. Extracts(c) => ~Opened(c)'
    BY <1>0, ExtractsHolds
  <2>4. QED
    BY <2>1, <2>2, <2>3, WorkDoes DEF Opened
<1>6. Opened(c) => Close(c) \/ \A f \in Files : disk'[d][f] = disk[d][f]
  BY WorkDoes DEF Open, Opened
<1>7. ASSUME NEW f \in Files, disk'[d][f].state = "partial"
      PROVE  \E e \in Calls : Dir(e)' = d /\ Opened(e)' /\ Part(e)' = f
  <2>1. CASE Open(c) /\ f = Part(c)
    BY <1>4, <2>1, WorkDoes
  <2>2. CASE Close(c) /\ f = Part(c)
    BY <1>2, <1>7, <2>2
  <2>3. CASE disk'[d][f] = disk[d][f]
    <3>1. PICK e \in Calls : Dir(e) = d /\ Opened(e) /\ Part(e) = f
      BY <1>0, <1>7, <2>3 DEF InTurn
    <3>2. CASE e # c
      BY <3>1, <3>2, WorkDoes
    <3>3. CASE e = c
      <4>1. ~Close(c)
        BY <1>2, <1>7, <3>1, <3>3
      <4>2. Fails(c) \/ Import(c) \/ Request(c) \/ Hit(c) \/ Miss(c) \/ Extracts(c) => ~Opened(c)
        BY <1>0, ExtractsHolds DEF Fails, Import, Request, Hit, Miss, LooksUp, Opened
      <4>3. ~Open(c)
        BY <3>1, <3>3 DEF Open, Opened
      <4>4. QED
        BY <3>1, <3>3, <4>1, <4>2, <4>3, WorkDoes
    <3>4. QED
      BY <3>2, <3>3
  <2>4. QED
    BY <1>1, <2>1, <2>2, <2>3, WorkDoes
<1>8. ASSUME NEW e \in Calls, Dir(e)' = d, Opened(e)'
      PROVE  disk'[d][Part(e)'].writer = e
  <2>1. CASE e = c
    BY <1>3, <1>4, <1>5, <1>8, <2>1
  <2>2. CASE e # c
    <3>1. Dir(e) = d /\ Opened(e) /\ Part(e)' = Part(e)
      BY <1>8, <2>2, WorkDoes
    <3>2. Downloading(e) /\ Part(e) \in Files
      BY <1>0, <3>1, TypedCall DEF Opened, Downloading
    <3>3. ~Open(c) /\ ~Close(c)
      BY <1>1, <2>2, <3>1, <3>2, WorkDoes
    <3>4. QED
      BY <1>0, <3>1, <3>2, <3>3, WorkDoes DEF InTurn
  <2>3. QED
    BY <2>1, <2>2
<1>9. ASSUME NEW e \in Calls, NEW i \in 1..Len(PartsOf(e)'),
             Dir(e)' = d, Downloading(e)', i < call'[e].next
      PROVE  Whole(d, PartsOf(e)[i])'
  <2>1. /\ PartsOf(e)' = PartsOf(e) /\ Dir(e) = d /\ call[e].want \in Assets
        /\ i \in 1..Len(PartsOf(e)) /\ PartsOf(e)[i] \in Files
    <3>1. PartsOf(e)' = PartsOf(e) /\ Dir(e) = d
      BY <1>0, <1>9, WorkDoes
    <3>2. i \in 1..Len(PartsOf(e)) /\ call[e].want \in Assets
      BY <1>0, <3>1, TypedCall
    <3>3. QED
      BY <3>1, <3>2, PartsAreFiles DEF PartsOf
  <2>2. CASE e # c
    <3>1. Downloading(e) /\ call'[e] = call[e]
      BY <1>9, <2>2, WorkDoes
    <3>2. ~Open(c) /\ ~Close(c)
      BY <1>1, <2>1, <2>2, <3>1, WorkDoes
    <3>3. Whole(d, PartsOf(e)[i])
      BY <1>0, <1>9, <2>1, <3>1 DEF InTurn
    <3>4. QED
      BY <2>1, <3>2, <3>3, WorkDoes DEF Whole
  <2>3. CASE e = c /\ (Open(c) \/ Close(c))
    <3>1. i < call[c].next => Whole(d, PartsOf(c)[i])
      BY <1>0, <1>1, <2>1, <2>3 DEF InTurn
    <3>2. i < call[c].next => PartsOf(c)[i] # Part(c)
      <4>1. ASSUME NEW n \in 1..Len(PartsOf(c)), i < n
            PROVE  PartsOf(c)[i] # PartsOf(c)[n]
        <5>1. i # n
          BY <2>1, <2>3, <4>1, <1>0, TypedCall
        <5>2. QED
          BY <2>1, <2>3, <5>1, PartsAreFiles DEF PartsOf
      <4>2. QED
        BY <1>1, <2>3, <4>1 DEF Part
    <3>3. CASE i < call[c].next
      BY <1>1, <2>1, <2>3, <3>1, <3>2, <3>3 DEF Whole
    <3>4. CASE ~(i < call[c].next)
      <4>1. Close(c)
        BY <1>0, <1>9, <2>3, <3>4, ActionsMove DEF Moves
      <4>2. call'[c].next = call[c].next + 1
        BY <1>0, <1>9, <2>3, <4>1, CloseDoes DEF Downloading
      <4>3. i = call[c].next
        BY <1>0, <1>9, <2>1, <2>3, <3>4, <4>2, TypedCall
      <4>4. QED
        BY <1>2, <2>1, <2>3, <4>1, <4>3 DEF Part, Whole
    <3>5. QED
      BY <3>3, <3>4
  <2>4. CASE e = c /\ ~Open(c) /\ ~Close(c)
    <3>1. Miss(c) \/ Request(c)
      <4>1. ~Hit(c) /\ ~Fails(c) /\ ~Import(c) /\ ~Extracts(c)
        BY <1>0, <1>9, <2>4, HitDoes, ActionsMove, ExtractsHolds DEF Downloading, Moves
      <4>2. QED
        BY <2>4, <4>1, WorkDoes
    <3>2. call'[c].next = 1
      BY <1>0, <3>1, ActionsMove DEF Works, Miss, LooksUp, Request, Moves, Placed
    <3>3. i >= 1
      BY <1>0, <2>1, <2>4, TypedCall
    <3>4. QED
      BY <1>9, <2>4, <3>2, <3>3, <2>1
  <2>5. QED
    BY <2>2, <2>3, <2>4
<1>10. QED
  BY <1>7, <1>8, <1>9 DEF InTurn

\* A download that closes its last file has written all of them.
LEMMA LastClosed ==
  ASSUME NEW c \in Calls, NEW d \in Dirs, Works(c, d), Close(c), LastPart(c)
  PROVE  \A f \in Range(PartsOf(c)) : Whole(d, f)'
<1>1. TypeOK /\ d = Dir(c) /\ InTurn(d)
  BY DEF Works, InOrder
<1>2. /\ call[c].pc = "write" /\ call[c].next = Len(PartsOf(c)) /\ Len(PartsOf(c)) \in 1..3
      /\ call[c].want \in Assets /\ Part(c) \in Files
  BY <1>1, TypedCall DEF Close, LastPart
<1>3. Opened(c) /\ Downloading(c)
  BY <1>2 DEF Opened, Downloading
<1>4. disk'[d][Part(c)].state = "whole"
  <2>1. disk[d][Part(c)].writer = c
    BY <1>1, <1>3 DEF InTurn
  <2>2. QED
    BY <1>1, <2>1, CloseWrites
<1>5. ASSUME NEW i \in 1..Len(PartsOf(c))
      PROVE  disk'[d][PartsOf(c)[i]].state = "whole"
  <2>1. PartsOf(c)[i] \in Files
    BY <1>2, PartsAreFiles DEF PartsOf
  <2>2. CASE PartsOf(c)[i] = Part(c)
    BY <1>4, <2>2
  <2>3. CASE PartsOf(c)[i] # Part(c)
    <3>1. i # call[c].next
      BY <2>3 DEF Part
    <3>2. i < call[c].next
      BY <1>2, <3>1
    <3>3. Whole(d, PartsOf(c)[i])
      BY <1>1, <1>3, <3>2 DEF InTurn
    <3>4. disk'[d][PartsOf(c)[i]] = disk[d][PartsOf(c)[i]]
      BY <1>1, <2>1, <2>3, CloseWrites
    <3>5. QED
      BY <3>3, <3>4 DEF Whole
  <2>4. QED
    BY <2>2, <2>3
<1>6. Range(PartsOf(c)) = {PartsOf(c)[i] : i \in 1..Len(PartsOf(c))}
  BY <1>2, PartsAreFiles DEF PartsOf
<1>7. PartsOf(c)' = PartsOf(c)
  BY WorkDoes
<1>8. QED
  BY <1>5, <1>6, <1>7 DEF Whole

LEMMA AllOrNothingStep ==
  ASSUME NEW c \in Calls, NEW d \in Dirs, Works(c, d)
  PROVE  AllOrNothing(d)'
<1>0. TypeOK /\ d = Dir(c) /\ AllOrNothing(d) /\ call[c].want \in Assets
  BY TypedCall DEF Works, InOrder
<1>1. ~Open(c) => Present(d)' = Present(d)
  BY StepDoes DEF Works
<1>2. fetched \subseteq fetched'
  BY StepDoes DEF Works
<1>3. d # "generated" => call[c].want = d
  BY <1>0 DEF Dir, DirOf
<1>4. ASSUME d # "generated", Present(d)' # {}, \A e \in Calls : Dir(e)' = d => ~Downloading(e)'
      PROVE  \A f \in Range(Parts(d)) : Whole(d, f)'
  <2>1. ~Downloading(c)'
    BY <1>4, WorkDoes
  <2>2. ~Miss(c) /\ ~Request(c) /\ ~Open(c)
    BY <1>0, <2>1, ActionsMove DEF Moves, Downloading
  <2>3. CASE Close(c)
    <3>1. LastPart(c)
      BY <1>0, <2>1, <2>3, CloseDoes DEF Downloading
    <3>2. PartsOf(c) = Parts(d)
      BY <1>3, <1>4 DEF PartsOf
    <3>3. QED
      BY <2>3, <3>1, <3>2, LastClosed
  <2>4. CASE ~Close(c)
    <3>1. \A e \in Calls \ {c} : Dir(e) = d => ~Downloading(e)
      BY <1>4, WorkDoes
    <3>2. ~Downloading(c)
      <4>1. Hit(c) \/ Fails(c) \/ Import(c) \/ Extracts(c)
        BY <2>2, <2>4, WorkDoes
      <4>2. ASSUME Fails(c), Downloading(c)
            PROVE  FALSE
        <5>1. call[c].next = 1 /\ ~Opened(c)
          BY <4>2 DEF Fails, Downloading, Opened, Works, Placed
        <5>2. Present(d) = {}
          BY <1>0, <1>4, <4>2, <5>1 DEF AllOrNothing
        <5>3. QED
          BY <1>1, <1>4, <2>2, <5>2
      <4>3. QED
        BY <1>0, <4>1, <4>2, ExtractsHolds DEF Hit, LooksUp, Import, Downloading
    <3>3. \A f \in Range(Parts(d)) : Whole(d, f)
      BY <1>0, <1>1, <1>4, <2>2, <3>1, <3>2 DEF AllOrNothing
    <3>4. Range(Parts(d)) \subseteq Files
      BY <1>0, <1>3, <1>4, PartsAreFiles
    <3>5. \A f \in Files : disk'[d][f] = disk[d][f]
      BY <2>2, <2>4, WorkDoes
    <3>6. QED
      BY <3>3, <3>4, <3>5 DEF Whole
  <2>5. QED
    BY <2>3, <2>4
<1>5. ASSUME d # "generated", NEW e \in Calls,
             Dir(e)' = d, Downloading(e)', call'[e].next = 1, ~Opened(e)'
      PROVE  Present(d)' = {}
  <2>1. CASE e # c
    <3>1. call'[e] = call[e] /\ Dir(e) = d /\ Downloading(e) /\ ~Opened(e)
      BY <1>5, <2>1, WorkDoes
    <3>2. ~Open(c)
      BY <2>1, <3>1, WorkDoes DEF Open, Downloading
    <3>3. QED
      BY <1>0, <1>1, <1>5, <3>1, <3>2 DEF AllOrNothing
  <2>2. CASE e = c
    <3>1. ~Hit(c) /\ ~Fails(c) /\ ~Import(c) /\ ~Extracts(c)
      BY <1>0, <1>5, <2>2, HitDoes, ActionsMove, ExtractsHolds DEF Downloading, Moves
    <3>2. ~Open(c)
      BY <1>0, <1>5, <2>2, ActionsMove DEF Moves, Opened
    <3>3. ~Close(c)
      <4>1. Close(c) => call'[c].next = call[c].next + 1 /\ call[c].next + 1 \in 2..Len(PartsOf(c))
        BY <1>0, <1>5, <2>2, CloseDoes DEF Downloading
      <4>2. Len(PartsOf(c)) \in 1..3
        BY <1>0, TypedCall
      <4>3. QED
        BY <1>5, <2>2, <4>1, <4>2
    <3>4. CASE Miss(c)
      <4>1. call[c].want # "reduced"
        BY <1>0, <1>5 DEF Dir, DirOf
      <4>2. FindCachedFile(d) = "none"
        BY <1>0, <3>4, <4>1 DEF Miss, Found
      <4>3. Visible(d) = {}
        BY <4>2, FindCachedFileFinds
      <4>4. "nested" \notin Present(d)
        BY <1>5, GeneratedAreLaid DEF Works
      <4>5. QED
        BY <1>1, <3>2, <4>3, <4>4 DEF Visible
    <3>5. CASE Request(c)
      <4>1. Downloading(c) /\ call[c].next = 1 /\ ~Opened(c)
        BY <3>5 DEF Request, Downloading, Opened, Works, Placed
      <4>2. QED
        BY <1>0, <1>1, <1>5, <3>2, <4>1 DEF AllOrNothing
    <3>6. QED
      BY <3>1, <3>2, <3>3, <3>4, <3>5, WorkDoes
  <2>3. QED
    BY <2>1, <2>2
<1>6. ASSUME d = "generated", NEW f \in Present(d)', f \notin fetched'
      PROVE  \E e \in Calls : call'[e].want = f /\ Opened(e)'
  <2>0. /\ call[c].want \in {"plain", "reduced", "twin", "nested"}
        /\ Len(PartsOf(c)) = 1 /\ Range(PartsOf(c)) = {call[c].want}
    <3>1. call[c].want \in {"plain", "reduced", "twin", "nested"}
      BY <1>0, <1>6 DEF Dir, DirOf, Assets
    <3>2. QED
      BY <3>1, PartsAre, FilesOfParts DEF PartsOf
  <2>1. CASE Open(c) /\ call[c].want = f
    BY <1>0, <2>1, ActionsMove DEF Moves, Opened
  <2>2. CASE ~(Open(c) /\ call[c].want = f)
    <3>1. f \in Present(d)
      <4>1. CASE Open(c)
        <5>1. Part(c) \in Range(PartsOf(c))
          BY <1>0, <4>1, TypedCall DEF Open
        <5>2. Part(c) # f
          BY <2>0, <2>2, <4>1, <5>1
        <5>3. QED
          BY <1>6, <4>1, <5>2, StepDoes DEF Works
      <4>2. QED
        BY <1>1, <1>6, <4>1
    <3>2. PICK e \in Calls : call[e].want = f /\ Opened(e)
      BY <1>0, <1>2, <1>6, <3>1 DEF AllOrNothing
    <3>3. CASE e # c
      BY <3>2, <3>3, WorkDoes
    <3>4. CASE e = c
      <4>1. call[c].pc = "write"
        BY <3>2, <3>4 DEF Opened
      <4>2. Close(c)
        BY <1>0, <3>2, <3>4, <4>1, WorkDoes, ExtractsHolds
           DEF Hit, Miss, LooksUp, Request, Open, Fails, Import
      <4>3. LastPart(c)
        <5>1. call[c].next \in 1..Len(PartsOf(c))
          BY <1>0, <4>1, TypedCall
        <5>2. call[c].next = 1
          BY <2>0, <5>1
        <5>3. QED
          BY <2>0, <5>2 DEF LastPart
      <4>4. QED
        BY <1>0, <1>6, <3>2, <3>4, <4>2, <4>3, CloseDoes
    <3>5. QED
      BY <3>3, <3>4
  <2>3. QED
    BY <2>1, <2>2
<1>7. QED
  BY <1>4, <1>5, <1>6 DEF AllOrNothing

\* A file that is whole stays so while another call writes another asset.
LEMMA InHandStep ==
  ASSUME NEW c \in Calls, NEW d \in Dirs, Works(c, d)
  PROVE  InHand(d)'
<1>0. TypeOK /\ d = Dir(c) /\ call[c].want \in Assets /\ fetched \subseteq fetched'
  BY TypedCall, StepDoes DEF Works
<1> SUFFICES ASSUME NEW e \in Calls, Dir(e)' = d, Held(e)'
             PROVE  \/ call'[e].path = "extracted"
                    \/ call'[e].path = PathOf(e)' /\ AllWhole(e)'
                    \/ call'[e].cached /\ FoundAsSomethingElse(call[e].want)'
  BY DEF InHand
<1>1. AllWhole(e)' <=> \A f \in Range(PartsOf(e)) : Whole(d, f)'
  <2>1. PartsOf(e)' = PartsOf(e)
    BY WorkDoes
  <2>2. QED
    BY <2>1 DEF AllWhole, Whole
<1>2. CASE e # c
  <2>1. /\ call'[e] = call[e] /\ Dir(e) = d /\ Held(e)
        /\ PathOf(e)' = PathOf(e) /\ call[e].want \in Assets
    BY <1>0, <1>2, WorkDoes, TypedCall DEF Held
  <2>2. CASE call[e].path = PathOf(e) /\ AllWhole(e)
    <3>1. ASSUME NEW f \in Range(PartsOf(e))
          PROVE  Whole(d, f)'
      <4>1. Whole(d, f) /\ f \in Files
        BY <2>1, <2>2, PartsAreFiles DEF AllWhole, PartsOf
      <4>2. CASE Open(c)
        <5>1. d = "generated" /\ call[c].want # call[e].want
          <6>1. Downloading(c) /\ Alone(d)
            BY <4>2 DEF Open, Downloading, Works, InOrder
          <6>2. QED
            BY <1>0, <1>2, <2>1, <6>1 DEF Alone
        <5>2. {call[c].want, call[e].want} \subseteq {"plain", "reduced", "twin", "nested"}
          BY <1>0, <2>1, <5>1 DEF Dir, DirOf, Assets
        <5>3. Part(c) \in Range(PartsOf(c))
          BY <1>0, <4>2, TypedCall DEF Open
        <5>4. Part(c) = call[c].want /\ f = call[e].want
          <6>1. Range(PartsOf(c)) = {call[c].want} /\ Range(PartsOf(e)) = {call[e].want}
            BY <5>2, FilesOfParts DEF PartsOf
          <6>2. QED
            BY <5>3, <6>1
        <5>5. QED
          BY <1>0, <4>1, <4>2, <5>1, <5>4, OpenDoes DEF Whole
      <4>3. CASE Close(c)
        <5>1. CASE f = Part(c)
          BY <1>0, <4>1, <4>3, <5>1, CloseWrites DEF Whole
        <5>2. CASE f # Part(c)
          BY <1>0, <4>1, <4>3, <5>2, CloseWrites DEF Whole
        <5>3. QED
          BY <5>1, <5>2
      <4>4. CASE ~Open(c) /\ ~Close(c)
        BY <4>1, <4>4, WorkDoes DEF Whole
      <4>5. QED
        BY <4>2, <4>3, <4>4
    <3>2. QED
      BY <1>1, <2>1, <2>2, <3>1
  <2>3. CASE call[e].cached /\ FoundAsSomethingElse(call[e].want)
    BY <1>0, <2>1, <2>3 DEF FoundAsSomethingElse
  <2>4. CASE call[e].path = "extracted"
    BY <2>1, <2>4
  <2>5. QED
    BY <2>1, <2>2, <2>3, <2>4 DEF Works, InOrder, InHand
<1>3. CASE e = c
  <2>1. Hit(c) \/ Close(c) \/ ExtractArchive(c) \/ ArchiveExtracted(c)
    BY <1>0, <1>3, WorkDoes, ActionsMove DEF Moves, Held, Extracts
  <2>2. CASE Close(c)
    <3>1. LastPart(c) /\ call'[c].path = PathOf(c)
      BY <1>0, <1>3, <2>2, CloseDoes DEF Held
    <3>2. PathOf(c)' = PathOf(c)
      BY WorkDoes DEF PathOf
    <3>3. QED
      BY <1>1, <1>3, <2>2, <3>1, <3>2, LastClosed
  <2>3. CASE Hit(c)
    <3>1. /\ call'[c].cached /\ call'[c].path = Found(c) /\ call'[c].want = call[c].want
          /\ PathOf(c)' = PathOf(c)
      BY <1>0, <2>3, HitDoes, WorkDoes DEF PathOf
    <3>2. call[c].want # "reduced" /\ Found(c) = FindCachedFile(d) /\ FindCachedFile(d) # "none"
      BY <1>0, <2>3 DEF Hit, Found
    <3>3. Present(d) # {} /\ Visible(d) # {}
      BY <3>2, FindCachedFileFinds DEF Visible
    <3>4. \A x \in Calls : Dir(x) = d => ~Downloading(x)
      BY <2>3, WorkDoes
    <3>5. \A f \in Files : disk'[d][f] = disk[d][f]
      BY <2>3 DEF Hit, LooksUp
    <3>6. ASSUME d # "generated"
          PROVE  AllWhole(c)'
      <4>1. call[c].want = d
        BY <1>0, <3>6 DEF Dir, DirOf
      <4>2. \A f \in Range(Parts(d)) : Whole(d, f)
        BY <3>3, <3>4, <3>6 DEF Works, InOrder, AllOrNothing
      <4>3. Range(Parts(d)) \subseteq Files
        BY <1>0, <4>1, PartsAreFiles
      <4>4. QED
        BY <1>1, <1>3, <3>5, <4>1, <4>2, <4>3 DEF PartsOf, Whole
    <3>7. \A f \in Present(d) : \E a \in Assets : DirOf(a) = d /\ f \in Range(Parts(a))
      BY DEF Works, Laid
    <3>8. CASE call[c].want = "model"
      BY <1>3, <3>1, <3>8 DEF FoundAsSomethingElse
    <3>9. CASE call[c].want = "archive"
      <4>1. d = "archive"
        BY <1>0, <3>9 DEF Dir, DirOf
      <4>2. \A f \in Present(d) : f = "archive"
        BY <3>7, <4>1, FilesOfParts DEF DirOf, Assets
      <4>3. FindCachedFile(d) = "archive"
        BY <3>3, <4>2, FindCachedFileFinds DEF Maps, Visible
      <4>4. PathOf(c) = "archive"
        BY <3>9, PartsAre DEF PathOf, PartsOf
      <4>5. QED
        BY <1>3, <3>1, <3>2, <3>6, <4>1, <4>3, <4>4
    <3>10. CASE call[c].want = "maps"
      <4>1. d = "maps"
        BY <1>0, <3>10 DEF Dir, DirOf
      <4>2. \A f \in Present(d) : f \in Maps
        BY <3>7, <4>1, FilesOfParts DEF DirOf, Assets, Maps
      <4>3. FindCachedFile(d) = "textures"
        BY <3>3, <4>2, FindCachedFileFinds DEF Maps
      <4>4. PathOf(c) = "textures"
        BY <3>10 DEF PathOf
      <4>5. QED
        BY <1>3, <3>1, <3>2, <3>6, <4>1, <4>3, <4>4
    <3>11. CASE call[c].want \in {"plain", "twin", "nested"}
      <4>1. d = "generated"
        BY <1>0, <3>11 DEF Dir, DirOf
      <4>2. \A f \in Present(d) : f \in {"plain", "reduced", "twin", "nested"}
        BY <4>1, GeneratedAreLaid DEF Works
      <4>3. PICK f \in Present(d) : f = FindCachedFile(d) /\ f \in {"plain", "reduced", "twin"}
        <5>1. Present(d) \cap Maps = {}
          BY <4>2 DEF Maps
        <5>2. FindCachedFile(d) \in Visible(d)
          BY <3>3, <5>1, FindCachedFileFinds
        <5>3. QED
          BY <4>2, <5>2 DEF Visible
      <4>4. f \in fetched
        <5>1. ASSUME NEW x \in Calls, call[x].want = f, Opened(x)
              PROVE  FALSE
          <6>1. Dir(x) = d /\ Downloading(x)
            BY <4>1, <4>3, <5>1 DEF Dir, DirOf, Opened, Downloading
          <6>2. QED
            BY <3>4, <6>1
        <5>2. QED
          BY <4>1, <5>1 DEF Works, InOrder, AllOrNothing
      <4>5. CASE f = call[c].want
        <5>1. PathOf(c) = f /\ Range(PartsOf(c)) = {f}
          BY <3>11, <4>5, PartsAre, FilesOfParts DEF PathOf, PartsOf
        <5>2. Whole(d, f)
          <6>1. disk[d][f].state \in {"partial", "whole"} /\ f \in Files
            <7>1. f \in Files /\ disk[d][f].state # "absent"
              BY DEF Present
            <7>2. disk[d][f] \in File
              BY <1>0, <7>1 DEF TypeOK
            <7>3. QED
              BY <7>1, <7>2 DEF File, States
          <6>2. disk[d][f].state # "partial"
            BY <3>4, <6>1 DEF Works, InOrder, InTurn, Opened, Downloading
          <6>3. QED
            BY <6>1, <6>2 DEF Whole
        <5>3. AllWhole(c)'
          BY <1>1, <1>3, <3>5, <5>1, <5>2 DEF Whole, Present
        <5>4. QED
          BY <1>3, <3>1, <3>2, <4>3, <5>1, <5>3
      <4>6. CASE f # call[c].want
        <5>1. f \in fetched' \cap (Listed \ {call[c].want})
          BY <1>0, <4>3, <4>4, <4>6 DEF Listed
        <5>2. FoundAsSomethingElse(call[c].want)'
          BY <3>1, <3>11, <5>1 DEF FoundAsSomethingElse, DirOf
        <5>3. QED
          BY <1>3, <3>1, <5>2
      <4>7. QED
        BY <4>5, <4>6
    <3>12. QED
      BY <1>0, <3>2, <3>8, <3>9, <3>10, <3>11 DEF Assets
  <2>4. CASE ExtractArchive(c)
    <3>1. /\ Held(c) /\ call'[c].path = call[c].path /\ call'[c].cached = call[c].cached
          /\ call'[c].want = call[c].want /\ fetched' = fetched
      BY <1>0, <2>4, ActionsMove DEF Moves, ExtractArchive, Held
    <3>2. PathOf(c)' = PathOf(c) /\ PartsOf(c)' = PartsOf(c)
      BY <3>1 DEF PathOf, PartsOf
    <3>3. disk' = disk
      BY <2>4 DEF ExtractArchive
    <3>4. AllWhole(c)' <=> AllWhole(c)
      BY <1>0, <1>1, <1>3, <3>2, <3>3 DEF AllWhole, Whole
    <3>5. FoundAsSomethingElse(call[c].want)' <=> FoundAsSomethingElse(call[c].want)
      BY <3>1 DEF FoundAsSomethingElse
    <3>6. QED
      BY <1>0, <1>3, <3>1, <3>2, <3>4, <3>5 DEF Works, InOrder, InHand
  <2>5. CASE ArchiveExtracted(c)
    BY <1>0, <1>3, <2>5, ArchiveExtractedDoes
  <2>6. QED
    BY <2>1, <2>2, <2>3, <2>4, <2>5
<1>4. QED
  BY <1>2, <1>3
---------------------------------------------------------------------------
(* The invariant.                                                          *)

LEMMA UndisturbedStep ==
  ASSUME TypeOK, Placed, Laid, OpenedIsThere, HandedIsThere, Uncrossed, Undisturbed,
         NEW c \in Calls, Step(c)
  PROVE  Undisturbed'
<1> SUFFICES ASSUME NEW d \in Dirs, d \notin disturbed'
             PROVE  InOrder(d)'
  BY DEF Undisturbed
<1>1. InOrder(d)
  BY StepDoes DEF Undisturbed
<1>2. CASE d = Dir(c) /\ ~\E a \in Assets : Start(c, a)
  <2>1. Works(c, d)
    BY <1>1, <1>2 DEF Works
  <2>2. QED
    BY <2>1, AloneStep, InTurnStep, AllOrNothingStep, InHandStep DEF InOrder
<1>3. CASE \E a \in Assets : Start(c, a)
  <2>1. \A f \in Files : disk'[d][f] = disk[d][f]
    BY <1>3 DEF Start
  <2>2. ~Busy(c) /\ ~Busy(c)'
    BY <1>3, StartDoes DEF Busy, Downloading, Held
  <2>3. QED
    BY <1>1, <2>1, <2>2, StepDoes, OtherDirectory
<1>4. CASE d # Dir(c) /\ ~\E a \in Assets : Start(c, a)
  <2>1. \A f \in Files : disk'[d][f] = disk[d][f]
    <3>1. CASE Open(c)
      BY <1>4, <3>1, OpenDoes
    <3>2. CASE Close(c)
      BY <1>4, <3>2, CloseWrites
    <3>3. CASE ~Open(c) /\ ~Close(c)
      BY <1>4, <3>3 DEF Step, Hit, Miss, LooksUp, Request, BreaksOff, Fails, Import,
                        Extracts, ExtractArchive, ArchiveExtracted
    <3>4. QED
      BY <3>1, <3>2, <3>3
  <2>2. Dir(c)' = Dir(c)
    <3>1. call'[c].want = call[c].want
      BY <1>4, HitDoes, CloseDoes, ActionsMove, ArchiveExtractedDoes DEF Step, Moves, Extracts
    <3>2. QED
      BY <3>1 DEF Dir
  <2>3. QED
    BY <1>1, <1>4, <2>1, <2>2, StepDoes, OtherDirectory
<1>5. QED
  BY <1>2, <1>3, <1>4

\* What is handed over as the asset is read as the asset.
LEMMA HandedIsRead ==
  ASSUME TypeOK, NEW c \in Calls, call[c].path = PathOf(c), AllWhole(c)
  PROVE  IsTheAsset(c)
<1>1. call[c].want \in Assets /\ Dir(c) \in Dirs
  BY TypedCall
<1>2. Read(c) = Range(PartsOf(c))
  <2>1. CASE call[c].want \in {"archive", "plain", "reduced", "twin", "nested"}
    BY <2>1, PartsAre, FilesOfParts DEF Read, PathOf, PartsOf
  <2>2. CASE call[c].want = "maps"
    <3>1. Dir(c) = "maps" /\ Range(PartsOf(c)) = {"map 1", "map 2"}
      BY <2>2, FilesOfParts DEF Dir, DirOf, PartsOf
    <3>2. {"map 1", "map 2"} \subseteq Present(Dir(c))
      BY <3>1, FilesAre DEF AllWhole, Whole, Present
    <3>3. Read(c) = Present(Dir(c)) \cap Maps
      BY <2>2 DEF Read, PathOf
    <3>4. QED
      BY <3>1, <3>2, <3>3 DEF Maps
  <2>3. CASE call[c].want = "model"
    BY <2>3, PartsAre, FilesOfParts DEF Read, PathOf, PartsOf
  <2>4. QED
    BY <1>1, <2>1, <2>2, <2>3 DEF Assets
<1>3. call[c].path # "extracted"
  BY <1>1, PartsAre, FilesAre DEF PathOf, PartsOf, Assets
<1>4. QED
  BY <1>2, <1>3 DEF IsTheAsset, AllWhole, Whole

LEMMA ImportedStep ==
  ASSUME TypeOK, Laid, Uncrossed, Undisturbed, ImportedIsTheAsset, NEW c \in Calls, Step(c)
  PROVE  ImportedIsTheAsset'
<1> SUFFICES ASSUME NEW e \in imported'
             PROVE  \/ e.right \/ DirOf(e.want) \in disturbed' \/ e.crossed
                    \/ e.cached /\ FoundAsSomethingElse(e.want)'
  BY DEF ImportedIsTheAsset
<1>1. fetched \subseteq fetched' /\ disturbed \subseteq disturbed'
  BY StepDoes
<1>2. CASE e \in imported
  BY <1>1, <1>2 DEF ImportedIsTheAsset, FoundAsSomethingElse
<1>3. CASE e \notin imported
  <2>1. Import(c)
    BY <1>3 DEF Step, Start, Hit, Miss, LooksUp, Request, Open, Close, BreaksOff, Fails,
                Extracts, ExtractArchive, ArchiveExtracted
  <2>2. e = [want |-> call[c].want, cached |-> call[c].cached, crossed |-> c \in crossed,
             right |-> IsTheAsset(c)]
    BY <1>3, <2>1 DEF Import
  <2>3. /\ e.want = call[c].want /\ e.cached = call[c].cached
        /\ IsTheAsset(c) => e.right
        /\ c \in crossed => e.crossed
    BY <2>2
  <2>4. CASE Dir(c) \in disturbed
    BY <1>1, <2>3, <2>4 DEF Dir
  <2>5. CASE call[c].path = "extracted"
    <3>1. Unpacked(c)
      BY <2>1, <2>5 DEF Import, Unpacked
    <3>2. call[c].want = "archive" /\ (c \notin crossed => extracted = "whole")
      BY <3>1 DEF Uncrossed
    <3>3. QED
      BY <2>3, <2>5, <3>2 DEF IsTheAsset
  <2>6. CASE Dir(c) \notin disturbed /\ call[c].path # "extracted"
    <3>1. InHand(Dir(c)) /\ Held(c)
      BY <2>1, <2>6, TypedCall DEF Undisturbed, InOrder, Import, Held
    <3>2. CASE call[c].path = PathOf(c) /\ AllWhole(c)
      BY <2>3, <3>2, HandedIsRead
    <3>3. CASE call[c].cached /\ FoundAsSomethingElse(call[c].want)
      BY <1>1, <2>3, <3>3 DEF FoundAsSomethingElse
    <3>4. QED
      BY <2>6, <3>1, <3>2, <3>3 DEF InHand
  <2>7. QED
    BY <2>4, <2>5, <2>6
<1>4. QED
  BY <1>2, <1>3

LEMMA IInvInit == Init => IInv
<1> SUFFICES ASSUME Init PROVE IInv
  OBVIOUS
<1>1. TypeOK /\ Placed
  BY TypeInit
<1>2. \A c \in Calls : call[c].pc = "unused"
  BY DEF Init, Unused
<1>3. \A d \in Dirs, f \in Files : disk[d][f].state = "absent"
  BY DEF Init
<1>4. \A d \in Dirs : Present(d) = {}
  BY <1>3 DEF Present
<1>5. fetched = {} /\ imported = {}
  BY DEF Init
<1>6. \A c \in Calls :
        ~Downloading(c) /\ ~Opened(c) /\ ~Held(c) /\ ~Unpacking(c) /\ ~Unpacked(c)
  BY <1>2 DEF Downloading, Opened, Held, Unpacking, Unpacked
<1>7. Laid /\ OpenedIsThere /\ FetchedIsThere /\ HandedIsThere /\ Uncrossed /\ ImportedIsTheAsset
  BY <1>4, <1>5, <1>6
     DEF Laid, OpenedIsThere, FetchedIsThere, HandedIsThere, Uncrossed, ImportedIsTheAsset
<1>8. ASSUME NEW d \in Dirs
      PROVE  InOrder(d)
  <2>1. \A f \in Files : disk[d][f].state # "partial"
    BY <1>3
  <2>2. QED
    BY <1>4, <1>6, <2>1 DEF InOrder, Alone, InTurn, AllOrNothing, InHand
<1>9. QED
  BY <1>1, <1>7, <1>8 DEF IInv, Undisturbed

LEMMA IInvStep == IInv /\ [Next]_vars => IInv'
<1> SUFFICES ASSUME IInv, [Next]_vars PROVE IInv'
  OBVIOUS
<1>1. CASE UNCHANGED vars
  <2>1. /\ call' = call /\ disk' = disk /\ fetched' = fetched
        /\ disturbed' = disturbed /\ imported' = imported
        /\ extracted' = extracted /\ crossed' = crossed
    BY <1>1 DEF vars
  <2>2. TypeOK' /\ Placed' /\ Laid'
    BY <2>1 DEF IInv, TypeOK, Placed, Laid, PartsOf, Present
  <2>3. OpenedIsThere' /\ FetchedIsThere' /\ HandedIsThere' /\ Uncrossed'
    BY <2>1 DEF IInv, OpenedIsThere, FetchedIsThere, HandedIsThere, PartsOf, Dir, Present,
                Visible, Downloading, Opened, Held, Uncrossed, Unpacking, Unpacked
  <2>4. ImportedIsTheAsset'
    BY <2>1 DEF IInv, ImportedIsTheAsset, FoundAsSomethingElse
  <2>5. ASSUME NEW d \in Dirs, InOrder(d)
        PROVE  InOrder(d)'
    <3>1. Alone(d)'
      BY <2>1, <2>5 DEF InOrder, Alone, Dir, Downloading, Held
    <3>2. InTurn(d)'
      BY <2>1, <2>5 DEF InOrder, InTurn, Dir, Downloading, Opened, Part, PartsOf, Whole
    <3>3. AllOrNothing(d)'
      BY <2>1, <2>5 DEF InOrder, AllOrNothing, Dir, Downloading, Opened, Present, Whole
    <3>4. InHand(d)'
      BY <2>1, <2>5 DEF InOrder, InHand, Dir, PathOf, PartsOf, AllWhole, Whole, Held,
                        FoundAsSomethingElse
    <3>5. QED
      BY <3>1, <3>2, <3>3, <3>4 DEF InOrder
  <2>6. Undisturbed'
    BY <2>1, <2>5 DEF IInv, Undisturbed
  <2>7. QED
    BY <2>2, <2>3, <2>4, <2>6 DEF IInv
<1>2. CASE Next
  <2>1. PICK c \in Calls : Step(c)
    BY <1>2 DEF Next, Step, Extracts
  <2>2. TypeOK' /\ Placed'
    BY TypeStep DEF IInv
  <2>3. Laid' /\ OpenedIsThere' /\ FetchedIsThere' /\ HandedIsThere' /\ Uncrossed'
    BY <2>1, LaidStep, OpenedStep, FetchedStep, HandedStep, UncrossedStep DEF IInv
  <2>4. Undisturbed' /\ ImportedIsTheAsset'
    BY <2>1, UndisturbedStep, ImportedStep DEF IInv
  <2>5. QED
    BY <2>2, <2>3, <2>4 DEF IInv
<1>3. QED
  BY <1>1, <1>2

\* The invariant holds of every reachable state.
THEOREM InvariantHolds == Spec => []IInv
BY IInvInit, IInvStep, PTL DEF Spec

(* Blender is given all files of the asset that was asked for, each of them *)
(* whole, unless its directory was disturbed, a call unpacked its archive    *)
(* beside another one, or a cached asset was found as another one:          *)
(* import_online_asset (asset_source_ops.py:92-97, 229-305).                *)
THEOREM ImportedIsTheAssetHolds == Spec => []ImportedIsTheAsset
<1>1. IInv => ImportedIsTheAsset
  BY DEF IInv
<1>2. QED
  BY <1>1, InvariantHolds, PTL

(* What was downloaded once is not asked of its provider again, whatever    *)
(* became of the calls beside it (cache.py:1-3), but for a generation with  *)
(* a budget and for an id with a slash.                                     *)
THEOREM FetchedOnceHolds == Spec => FetchedOnce
<1> DEFINE Asked ==
      \A c \in Calls : Miss(c) => call[c].want \in NeverFound \/ call[c].want \notin fetched
<1>1. IInv => Asked
  <2> SUFFICES ASSUME IInv, NEW c \in Calls, Miss(c), call[c].want \notin NeverFound,
                      call[c].want \in fetched
               PROVE  FALSE
    OBVIOUS
  <2>1. call[c].want \in Assets /\ Dir(c) \in Dirs
    BY TypedCall DEF IInv
  <2>2. Range(Parts(call[c].want)) \subseteq Present(Dir(c))
    BY DEF IInv, FetchedIsThere, Dir
  <2>3. Visible(Dir(c)) # {}
    BY <2>1, <2>2, PartsAreFiles, PartsAreListed DEF Visible, NeverFound
  <2>4. FindCachedFile(Dir(c)) = "none"
    BY DEF Miss, Found, NeverFound
  <2>5. QED
    BY <2>1, <2>3, <2>4, FindCachedFileFinds
<1>2. [][Asked]_vars => FetchedOnce
  BY PTL DEF FetchedOnce
<1>3. QED
  BY <1>1, <1>2, InvariantHolds, PTL
===========================================================================
