---------------------------- MODULE PrivateSearch ----------------------------
(***************************************************************************)
(* The search for private task names in a file that an agent is to be shown  *)
(* (library/_shared/runners/harbor.py, _contains_private_task_name).  The    *)
(* file is read in chunks; the end of what was searched is searched again    *)
(* together with the next chunk, and by itself when the file ends.  A name is *)
(* mentioned where no character of an identifier stands right before or       *)
(* after it; what lies before the text searched is not looked at.            *)
(*                                                                         *)
(* A text searched is the part of the file between two positions.           *)
(***************************************************************************)
EXTENDS Integers, Sequences

CONSTANTS Names,        \* of the gate and sealed tasks
          Letters,      \* _TASK_IDENTIFIER_CHARACTERS
          Texts,        \* the files
          ChunkSize,
          Longest       \* the length of the longest name

ASSUME SearchAssumption ==
    /\ ChunkSize \in Nat \ {0} /\ Longest \in Nat
    /\ \A name \in Names : name \in Seq(STRING) /\ Len(name) \in 1..Longest
    /\ \A t \in Texts : t \in Seq(STRING)

VARIABLES
    file,
    from,        \* the text searched last begins after this position, ...
    searched,    \* ... and ends at this one
    mention      \* "undecided", "present", "absent" or "unreadable"

searchVars == <<file, from, searched, mention>>

(* _private_task_pattern: the places <<first, last>> where a name matches in  *)
(* the text that begins after a and ends at b.                              *)
Matches(a, b) ==
    {m \in (a + 1 .. b) \X (a + 1 .. b) :
        /\ SubSeq(file, m[1], m[2]) \in Names
        /\ m[1] = a + 1 \/ file[m[1] - 1] \notin Letters
        /\ m[2] = b \/ file[m[2] + 1] \notin Letters}

(* search: the leftmost match, and of those the shortest; the names are sorted. *)
IsFirst(m, a, b) ==
    /\ m \in Matches(a, b)
    /\ \A n \in Matches(a, b) : m[1] < n[1] \/ (m[1] = n[1] /\ m[2] <= n[2])

(* A match at the very end may be the beginning of something longer. *)
MatchIsWhole(a, b) == \E m \in Matches(a, b) : IsFirst(m, a, b) /\ m[2] < b

(* Deviation: the first character of the longest name is lost.               *)
OverlapTooShort == Longest - 1

Overlap == Longest + 1

TailBefore(position) == IF position > Overlap THEN position - Overlap ELSE 0

SearchInit ==
    /\ file \in Texts
    /\ from = 0 /\ searched = 0 /\ mention = "undecided"

NextEnd == IF searched + ChunkSize <= Len(file) THEN searched + ChunkSize ELSE Len(file)

ReadChunk ==
    /\ mention = "undecided" /\ searched < Len(file)
    /\ mention' = IF MatchIsWhole(from, NextEnd) THEN "present" ELSE "undecided"
    /\ searched' = NextEnd /\ from' = TailBefore(NextEnd)
    /\ UNCHANGED file

FileEnds ==
    /\ mention = "undecided" /\ searched = Len(file)
    /\ mention' = IF Matches(from, searched) # {} THEN "present" ELSE "absent"
    /\ UNCHANGED <<file, from, searched>>

(* The file cannot be read to its end, and is passed like one without a name. *)
ReadingFails ==
    /\ mention = "undecided"
    /\ mention' = "unreadable"
    /\ UNCHANGED <<file, from, searched>>

SearchNext == ReadChunk \/ FileEnds \/ ReadingFails

SearchSpec == SearchInit /\ [][SearchNext]_searchVars

------------------------------------------------------------------------------
(* A file that was read and passed mentions no private task, wherever its     *)
(* chunks end and whatever names overlap there.                             *)
NoMentionMissed == mention = "absent" => Matches(0, Len(file)) = {}
==============================================================================
