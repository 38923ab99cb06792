------------------------------ MODULE Captions ------------------------------
(***************************************************************************)
(* deduplicateCues of extensions/web-access/youtube.ts: the cues of a       *)
(* caption track, sorted by their start, become the lines of a transcript.  *)
(* Automatic captions roll: a cue repeats the one before it, or adds to it. *)
(*                                                                          *)
(* Texts are normalised already; Extensions holds <<s, t>> when t starts with *)
(* s.  parseJson3Captions and parseVttCaptions give cues of any start and   *)
(* end; only the latter can end before they start.                          *)
(***************************************************************************)
EXTENDS Integers, Sequences

CONSTANTS
    Texts,       \* what a cue may say, "" included
    Extensions,
    MaxStart, MaxEnd, MaxCues    \* bounds

CaptionsAssumption ==
    /\ "" \in Texts
    /\ \A t \in Texts : <<t, t>> \in Extensions
    /\ \A s, t, u \in Texts :
         /\ <<s, t>> \in Extensions /\ <<t, u>> \in Extensions => <<s, u>> \in Extensions
         /\ <<s, u>> \in Extensions /\ <<t, u>> \in Extensions =>
              <<s, t>> \in Extensions \/ <<t, s>> \in Extensions
    /\ MaxStart \in Nat /\ MaxEnd \in Nat /\ MaxCues \in Nat

Cues == [startMs : 0 .. MaxStart, endMs : 0 .. MaxEnd, text : Texts]

VARIABLES
    cues,      \* the sorted cues looked at so far
    lines

vars == <<cues, lines>>

Init == cues = <<>> /\ lines = <<>>

Starts(cue, text) == <<text, cue.text>> \in Extensions

Later(a, b) == IF a < b THEN b ELSE a

\* previous.endMs = Math.max(previous.endMs, cue.endMs)
Lengthened(previous, cue) == [previous EXCEPT !.endMs = Later(@, cue.endMs)]

\* Mutant: text that adds to the line before it never starts a line.
PlacedAnywhere(cue) ==
    LET n == Len(lines) IN
    IF n = 0 THEN <<cue>>
    ELSE IF Starts(cue, lines[n].text)
         THEN [lines EXCEPT ![n] = [Lengthened(@, cue) EXCEPT !.text = cue.text]]
         ELSE IF Starts(lines[n], cue.text) THEN lines
              ELSE Append(lines, cue)

\* The cue repeats the line before it, adds to it or is part of it while that
\* lasts, or starts the next line.
Placed(cue) ==
    LET n == Len(lines)
        previous == lines[n]
        rolling == cue.startMs <= previous.endMs
    IN  IF n = 0 THEN <<cue>>
        ELSE IF rolling /\ Starts(cue, previous.text)
        THEN [lines EXCEPT ![n] = [Lengthened(@, cue) EXCEPT !.text = cue.text]]
        ELSE IF cue.text = previous.text \/ (rolling /\ Starts(previous, cue.text))
        THEN [lines EXCEPT ![n] = Lengthened(@, cue)]
        ELSE Append(lines, cue)

Take(cue) ==
    /\ Len(cues) < MaxCues
    /\ cues # <<>> => cues[Len(cues)].startMs <= cue.startMs
    /\ cues' = Append(cues, cue)
    /\ lines' = IF cue.text = "" THEN lines ELSE Placed(cue)

Next == \E cue \in Cues : Take(cue)

Spec == Init /\ [][Next]_vars

-----------------------------------------------------------------------------
\* Everything that was said is in a line of the transcript that starts no
\* later and lasts as long, although lines are merged and overwritten.
NothingSaidIsLost ==
    \A i \in DOMAIN cues : cues[i].text # "" =>
        \E n \in DOMAIN lines :
            /\ Starts(lines[n], cues[i].text)
            /\ lines[n].startMs <= cues[i].startMs
            /\ lines[n].endMs >= cues[i].endMs

\* Nothing is said twice at a time: a line that starts while the one before it
\* lasts neither repeats it nor adds to it, also after both have grown.
NothingSaidTwice ==
    \A n \in 2 .. Len(lines) :
        /\ lines[n - 1].startMs <= lines[n].startMs
        /\ lines[n].startMs <= lines[n - 1].endMs =>
             /\ ~Starts(lines[n], lines[n - 1].text)
             /\ ~Starts(lines[n - 1], lines[n].text)

\* The transcript says all that was said, and nothing twice.
TranscriptIsFaithful == NothingSaidIsLost /\ NothingSaidTwice
=============================================================================
