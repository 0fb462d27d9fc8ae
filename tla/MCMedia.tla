------------------------------ MODULE MCMedia -------------------------------
(* Small instances of Media for TLC. *)
EXTENDS Media, TLC

CONSTANTS a, b, x, y, v, w

AllArtifacts == {a, b}
OneArtifact == {a}

\* One artifact with two audio files and a movie, one with a movie.
AllGroups == a :> <<{x}, {v}>> @@ b :> <<{y}>>
OneGroup == a :> <<{x, y}>>
BothAudio == {x, y}
Mixed == a :> <<{x, y}>> @@ b :> <<{v}>>
OneMixed == a :> <<{x, y}, {v}>>
JustX == {x}
None == {}

OneSlot == [k \in {"file", "decode", "encode", "demux", "video", "put"} |-> 1]
TwoSlots == [k \in {"file", "decode", "encode", "demux", "video", "put"} |-> 2]

\* The three kinds of workspace, for the configuration to choose from
ARemoved == a :> "removed"
AStuck == a :> "stuck"
AKept == a :> "kept"

DecodeOfX == {<<x, "decode">>}
=============================================================================
