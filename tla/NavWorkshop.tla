----------------------------- MODULE NavWorkshop -----------------------------
(***************************************************************************)
(* The search for a navigation mesh (modules/nav_workshop_fix.cpp), which  *)
(* replaces the game's own: the file of the map in the game's directories, *)
(* then the one of its clean name in the map itself, then "embed".         *)
(*                                                                         *)
(* A name is a sequence of tokens, none of which is made up of others.     *)
(* Files come and go between the three reads.  Names are shorter than the  *)
(* buffers: the engine's own limit is below theirs.                        *)
(***************************************************************************)
EXTENDS Naturals, Sequences

CONSTANTS
  Token,
  Map,        \* the names of maps
  Leftover,   \* what an uninitialized buffer may hold
  File,       \* the files that may be there
  NoFile

Source == {"MOD", "BSP"}

ASSUME NavAssumption ==
  /\ {"maps/", "maps\\", "workshop/", "workshop\\", ".ugc", ".nav", "embed"} \subseteq Token
  /\ Map \subseteq Seq(Token)
  /\ Leftover \subseteq Seq(Token)
  /\ File \subseteq [path : Seq(Token), source : Source]
  /\ NoFile \notin [path : Seq(Token), source : Source]

VARIABLES
  files,              \* the files that are there
  steady,             \* those that were there all through the search
  mapname,
  cleaned_map_name,   \* the buffer on the stack
  pc,                 \* the next read
  outBuffer,          \* the file whose contents it holds
  wantsFlag,          \* pNavDataFromBSP is not null
  fromBSP,            \* what it points to
  result              \* of the last search

fileVars == <<files, steady>>
callVars == <<mapname, wantsFlag>>
vars == <<fileVars, callVars, cleaned_map_name, pc, outBuffer, fromBSP, result>>

TypeOK ==
  /\ files \subseteq File /\ steady \subseteq files
  /\ mapname \in Seq(Token) /\ cleaned_map_name \in Seq(Token)
  /\ pc \in {"game", "mod", "clean", "embed"}
  /\ outBuffer \in [path : Seq(Token), source : Source] \cup {NoFile}
  /\ wantsFlag \in BOOLEAN /\ fromBSP \in BOOLEAN
  /\ result \in {"none", "OK", "CANT_ACCESS_FILE"}

Init ==
  /\ files \in SUBSET File
  /\ steady = {}
  /\ mapname = <<>> /\ cleaned_map_name = <<>>
  /\ pc = "game"
  /\ outBuffer = NoFile
  /\ wantsFlag = FALSE /\ fromBSP = FALSE
  /\ result = "none"

-----------------------------------------------------------------------------
(* GetCleanMapName.                                                        *)

StartsWith(s, prefix) == Len(prefix) <= Len(s) /\ SubSeq(s, 1, Len(prefix)) = prefix

After(s, n) == SubSeq(s, n + 1, Len(s))

InMapsWorkshop(s) ==
  StartsWith(s, <<"maps/", "workshop/">>) \/ StartsWith(s, <<"maps\\", "workshop\\">>)

InWorkshop(s) == StartsWith(s, <<"workshop/">>) \/ StartsWith(s, <<"workshop\\">>)

OfWorkshop(s) == InMapsWorkshop(s) \/ InWorkshop(s)

\* What is copied to the buffer.
Stripped(s) == IF InMapsWorkshop(s) THEN <<"maps/">> \o After(s, 2) ELSE After(s, 1)

\* The buffer ends before the first ".ugc".
WithoutId(s) ==
  LET n == CHOOSE n \in 1..(Len(s) + 1) :
             /\ n <= Len(s) => s[n] = ".ugc"
             /\ \A m \in 1..(n - 1) : s[m] # ".ugc"
  IN SubSeq(s, 1, n - 1)

\* What GetCleanMapName returns.
CleanMapName(s) == IF OfWorkshop(s) THEN WithoutId(Stripped(s)) ELSE s

\* Mutant of Filled: the buffer is a null pointer for other maps.
FilledOrNull(s) == IF OfWorkshop(s) THEN WithoutId(Stripped(s)) ELSE NoFile

\* Mutant of Filled: the id stays.
FilledWithId(s) == IF OfWorkshop(s) THEN Stripped(s) ELSE cleaned_map_name

\* What it leaves in the buffer, which it does not touch for other maps.
Filled(s) == IF OfWorkshop(s) THEN WithoutId(Stripped(s)) ELSE cleaned_map_name

-----------------------------------------------------------------------------
(* GetNavDataFromFile_replace.                                             *)

NavPath(name) == <<"maps\\">> \o name \o <<".nav">>
EmbedPath == NavPath(<<"embed">>)

FileAt(path, source) == [path |-> path, source |-> source]

\* The game asks for the mesh of a map, with an empty buffer and a flag that
\* it has cleared. cleaned_map_name is not initialized.
Search(m, flag) ==
  /\ pc = "game"
  /\ mapname' = m /\ wantsFlag' = flag
  /\ cleaned_map_name' \in Leftover
  /\ outBuffer' = NoFile /\ fromBSP' = FALSE
  /\ steady' = files
  /\ pc' = "mod" /\ result' = "none"
  /\ UNCHANGED files

\* ReadFile finds the file: the search is over.
Found(f, flag) ==
  /\ f \in files
  /\ outBuffer' = f
  /\ fromBSP' = flag
  /\ pc' = "game" /\ result' = "OK"
  /\ UNCHANGED <<fileVars, callVars>>

\* The flag after a read from the map itself.
SetFlag == IF wantsFlag THEN TRUE ELSE fromBSP

\* Mutant of KeepFlag: set after the whole search.
KeepFlagSet == IF wantsFlag THEN TRUE ELSE fromBSP

\* The flag after a read from the game's directories.
KeepFlag == fromBSP

\* The map's own file, not the one in the map; if it is not there, the name
\* is cleaned.
TryMod ==
  LET f == FileAt(NavPath(mapname), "MOD") IN
  /\ pc = "mod"
  /\ \/ Found(f, KeepFlag) /\ UNCHANGED cleaned_map_name
     \/ /\ f \notin files
        /\ cleaned_map_name' = Filled(mapname)
        /\ pc' = "clean"
        /\ UNCHANGED <<fileVars, callVars, outBuffer, fromBSP, result>>

\* The file of the name in the buffer, in the map.
TryClean ==
  LET f == FileAt(NavPath(cleaned_map_name), "BSP") IN
  /\ pc = "clean"
  /\ \/ Found(f, SetFlag)
     \/ /\ f \notin files
        /\ pc' = "embed"
        /\ UNCHANGED <<fileVars, callVars, outBuffer, fromBSP, result>>
  /\ UNCHANGED cleaned_map_name

\* "maps\\embed.nav" in the map.
TryEmbed ==
  LET f == FileAt(EmbedPath, "BSP") IN
  /\ pc = "embed"
  /\ \/ Found(f, SetFlag)
     \/ /\ f \notin files
        /\ pc' = "game" /\ result' = "CANT_ACCESS_FILE"
        /\ UNCHANGED <<fileVars, callVars, outBuffer, fromBSP>>
  /\ UNCHANGED cleaned_map_name

-----------------------------------------------------------------------------
(* Other threads and programs write and delete files, and maps are mounted.*)

FileAppears(f) ==
  /\ f \notin files
  /\ files' = files \cup {f}
  /\ UNCHANGED <<steady, callVars, cleaned_map_name, pc, outBuffer, fromBSP, result>>

FileDisappears(f) ==
  /\ f \in files
  /\ files' = files \ {f} /\ steady' = steady \ {f}
  /\ UNCHANGED <<callVars, cleaned_map_name, pc, outBuffer, fromBSP, result>>

Next ==
  \/ \E m \in Map, flag \in BOOLEAN : Search(m, flag)
  \/ TryMod \/ TryClean \/ TryEmbed
  \/ \E f \in File : FileAppears(f) \/ FileDisappears(f)

Spec == Init /\ [][Next]_vars

-----------------------------------------------------------------------------
(* Properties.                                                             *)

\* The files a search may return, the best first.
Wanted ==
  << FileAt(NavPath(mapname), "MOD"), FileAt(NavPath(CleanMapName(mapname)), "BSP"),
     FileAt(EmbedPath, "BSP") >>

\* The search succeeds exactly if it has read a file, and the caller's flag
\* says whether that file came out of the map.
ResultTells ==
  pc = "game" /\ result # "none" =>
    /\ result = "OK" <=> outBuffer # NoFile
    /\ fromBSP <=> (wantsFlag /\ outBuffer # NoFile /\ outBuffer.source = "BSP")

\* A file that was there all the time is not passed over for a worse one or
\* for none, whatever other files came and went meanwhile, and a map of the
\* workshop gets no mesh but its own or "embed". (What the second read asks
\* for is not known for other maps.)
NothingPassedOver ==
  pc = "game" /\ result # "none" =>
    /\ Wanted[1] \in steady => outBuffer = Wanted[1]
    /\ Wanted[3] \in steady => result = "OK"
    /\ OfWorkshop(mapname) =>
         /\ result = "OK" => \E i \in 1..3 : outBuffer = Wanted[i]
         /\ Wanted[2] \in steady => outBuffer \in {Wanted[1], Wanted[2]}

\* Without a file in the game's directories, the search goes on with the
\* clean name of the map, as the comment at that read has it.
CleanNameIsAsked == pc = "clean" => cleaned_map_name = CleanMapName(mapname)
=============================================================================
