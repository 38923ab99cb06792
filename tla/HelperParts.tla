---------------------------- MODULE HelperParts -----------------------------
(* A behaviour is one of the helpers' runs, or one of a part of the           *)
(* extractors that depends on nothing else: the scratch directories of        *)
(* several agents, the cues of a caption track, or a page's declared links.   *)
EXTENDS Helper, Integers, Sequences

CONSTANTS
    Procs, Names, NoName, Commands, Timeout, Stale,        \* ScratchDirectories
    Texts, Extensions, MaxStart, MaxEnd, MaxCues,          \* Captions
    Links, Unusable, Relations, MaxLinks, MaxElements      \* DeclaredLinks

VARIABLES part, age, held, command, spent, jumped, cues, lines, elements, links, full

-----------------------------------------------------------------------------
Directories == INSTANCE ScratchDirectories
Track == INSTANCE Captions
Declared == INSTANCE DeclaredLinks

ASSUME PartAssumptions ==
    /\ Directories!ScratchAssumption
    /\ Track!CaptionsAssumption
    /\ Declared!DeclaredAssumption

directoriesVars == <<age, held, command, spent, jumped>>
trackVars == <<cues, lines>>
declaredVars == <<elements, links, full>>

-----------------------------------------------------------------------------
PartsInit ==
    /\ part \in {"runs", "directories", "track", "links"}
    /\ Init /\ Directories!Init /\ Track!Init /\ Declared!Init

PartsNext ==
    /\ UNCHANGED part
    /\ \/ /\ part = "runs" /\ Next
          /\ UNCHANGED <<directoriesVars, trackVars, declaredVars>>
       \/ /\ part = "directories" /\ Directories!Next
          /\ UNCHANGED <<vars, trackVars, declaredVars>>
       \/ /\ part = "track" /\ Track!Next
          /\ UNCHANGED <<vars, directoriesVars, declaredVars>>
       \/ /\ part = "links" /\ Declared!Next
          /\ UNCHANGED <<vars, directoriesVars, trackVars>>

PartsSpec ==
    PartsInit /\ [][PartsNext]_<<part, vars, directoriesVars, trackVars, declaredVars>>

LiveDirectoriesStay == Directories!LiveDirectoriesStay
TranscriptIsFaithful == Track!TranscriptIsFaithful
LinksFollowThePage == Declared!LinksFollowThePage
=============================================================================
